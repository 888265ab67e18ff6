-------------------------- MODULE RateWorker_proofs --------------------------
(***************************************************************************)
(* The rate-search workers, for any number of workers, jobs, callers,       *)
(* deaths, stops and ended sessions.  Some of the results hold only as long *)
(* as no lease lapses under a live worker, or no best-effort Redis call     *)
(* fails, or both (Steady).                                                 *)
(*                                                                          *)
(* The argument: a live process holds the lease, so there is one; what that *)
(* process is doing fixes what the pending record may name.                 *)
(***************************************************************************)
EXTENDS RateWorker, SequenceTheorems, NaturalsInduction, WellFoundedInduction, TLAPS

Steady == MaxStalls = 0 /\ MaxBlips = 0

Requeueing == {"unwinding", "stopping"}
Leaving == {"closing", "releasing", "deleting"}

LiveHoldsLease == \A w \in Workers : proc[w].phase \in Live => lock = w

\* The record is empty from the drain until a session is lost; from then on it
\* names the job the process itself is to requeue.
RecordFollows ==
    \A w \in Workers :
        /\ proc[w].phase \in {"idle", "taken", "running"} => pending = Nobody
        /\ proc[w].requeue # Nobody =>
              proc[w].phase \in Requeueing /\ pending = proc[w].requeue
        /\ At(w, "unwinding") =>
              proc[w].requeue = proc[w].job /\ proc[w].job \in lost
        /\ proc[w].phase \in {"taken", "running"} => proc[w].job \notin lost

\* A worker that leaves to be parked has published the note, and only a worker
\* that comes back clears it.
NoteFollows ==
    /\ (\A w \in Workers : At(w, "parked") \/ (proc[w].phase \in Leaving /\ proc[w].login))
          => note
    /\ \A w \in Workers : proc[w].login => proc[w].phase \in Requeueing \cup Leaving

\* Nothing has been charged to what does not happen.
Unspent == spent.stalls = 0 /\ spent.blips = 0

IInv ==
    /\ RedisOK /\ ProcessesOK /\ Unspent
    /\ LiveHoldsLease /\ RecordFollows /\ NoteFollows
    /\ RecordedLossIsRemembered /\ OnlyLostSearchesAreRequeued

-----------------------------------------------------------------------------
\* Every worker is down and Redis is empty.
LEMMA InitHolds == Init => IInv
<1> USE WorkerAssumption
<1>1. ASSUME Init PROVE RedisOK /\ ProcessesOK /\ Unspent
  BY <1>1
  DEF Init, RedisOK, ProcessesOK, Unspent, Process, Stopped, Status, Failed,
      Holding, Waiting, Bounds
<1>2. ASSUME Init PROVE LiveHoldsLease /\ RecordFollows /\ NoteFollows
  BY <1>2
  DEF Init, LiveHoldsLease, RecordFollows, NoteFollows, Stopped, At, Live,
      Driving, Beating, Holding, Leaving, Requeueing
<1>3. ASSUME Init PROVE RecordedLossIsRemembered /\ OnlyLostSearchesAreRequeued
  BY <1>3 DEF Init, RecordedLossIsRemembered, OnlyLostSearchesAreRequeued
<1> QED BY <1>1, <1>2, <1>3 DEF IInv

-----------------------------------------------------------------------------
(* The step, one action at a time.                                           *)

\* A requeue either puts a failed job back on the queue or changes nothing.
LEMMA Requeued ==
  ASSUME NEW j, RequeueAtFront(j)
  PROVE  \/ status[j] \in Failed /\ status' = [status EXCEPT ![j] = "queued"] /\ lost' = lost
         \/ status[j] \notin Failed /\ UNCHANGED <<status, lost>>
<1>1. CASE status[j] \in Failed
  BY <1>1 DEF RequeueAtFront, Mark
<1>2. CASE status[j] \notin Failed
  BY <1>2 DEF RequeueAtFront, jobs
<1> QED BY <1>1, <1>2

USE DEF Live, Driving, Beating, Holding, Requeueing, Leaving, Status, Failed, Goto, Put, At, Mark,
        Spend, Bounds, Exit, Stopped, RequeueAtFront, Waiting, jobs, records, Steady

\* A step of one process keeps the processes well typed.
LEMMA OneProcess ==
  ASSUME ProcessesOK, NEW w \in Workers, NEW p \in Process,
         p.job # Nobody <=> p.phase \in Holding,
         proc' = [proc EXCEPT ![w] = p],
         call' = call, session' \in BOOLEAN, spent' \in [DOMAIN Bounds -> Nat]
  PROVE  ProcessesOK'
BY DEF ProcessesOK, Process

\* What Steady rules out is never charged to a bound.
LEMMA Charged ==
  ASSUME Unspent, Steady
  PROVE  ~Spend("stalls") /\ ~Spend("blips")
BY DEF Unspent

\* While one worker is live the others have no process.
LEMMA Alone ==
  ASSUME RedisOK, LiveHoldsLease, NEW v \in Workers, NEW w \in Workers,
         proc[v].phase \in Live, proc[w].phase \in Live
  PROVE  v = w
BY DEF LiveHoldsLease

\* A caller changes the status of a job only away from "failed".
LEMMA EnqueueHolds ==
  ASSUME IInv, Steady, NEW c \in Clients, Enqueue(c) PROVE IInv'
<1>1. ASSUME NEW j \in Jobs, EnqueueLooksUp(c, j) PROVE IInv'
  BY <1>1, WorkerAssumption
  DEF EnqueueLooksUp, IInv, RedisOK, ProcessesOK, Unspent, Process,
      LiveHoldsLease, RecordFollows, NoteFollows, RecordedLossIsRemembered,
      OnlyLostSearchesAreRequeued
<1>2. ASSUME EnqueueDeletes(c) PROVE IInv'
  BY <1>2, WorkerAssumption
  DEF EnqueueDeletes, IInv, RedisOK, ProcessesOK, Unspent, Process,
      LiveHoldsLease, RecordFollows, NoteFollows, RecordedLossIsRemembered,
      OnlyLostSearchesAreRequeued
<1>3. ASSUME EnqueuePushes(c) PROVE IInv'
  BY <1>3, WorkerAssumption
  DEF EnqueuePushes, IInv, RedisOK, ProcessesOK, Unspent, Process, LiveHoldsLease,
      RecordFollows, NoteFollows, RecordedLossIsRemembered,
      OnlyLostSearchesAreRequeued
<1> QED BY <1>1, <1>2, <1>3 DEF Enqueue

\* What happens to Redis and to the processes from outside.
LEMMA EnvironmentHolds ==
  ASSUME IInv, Steady, Environment PROVE IInv'
<1>1. ASSUME LeaseExpires PROVE IInv'
  BY <1>1, WorkerAssumption
  DEF LeaseExpires, IInv, RedisOK, ProcessesOK, Unspent, Process, LiveHoldsLease,
      RecordFollows, NoteFollows, RecordedLossIsRemembered,
      OnlyLostSearchesAreRequeued
<1>2. ASSUME LeaseStarves PROVE IInv'
  BY <1>2, WorkerAssumption
  DEF LeaseStarves, IInv, RedisOK, ProcessesOK, Unspent, Process, LiveHoldsLease,
      RecordFollows, NoteFollows, RecordedLossIsRemembered,
      OnlyLostSearchesAreRequeued
<1>3. ASSUME SessionEnds PROVE IInv'
  BY <1>3, WorkerAssumption
  DEF SessionEnds, IInv, RedisOK, ProcessesOK, Unspent, Process, LiveHoldsLease,
      RecordFollows, NoteFollows, RecordedLossIsRemembered,
      OnlyLostSearchesAreRequeued
<1>4. ASSUME NEW j \in Jobs, ResultExpires(j) PROVE IInv'
  BY <1>4, WorkerAssumption
  DEF ResultExpires, IInv, RedisOK, ProcessesOK, Unspent, Process, LiveHoldsLease,
      RecordFollows, NoteFollows, RecordedLossIsRemembered,
      OnlyLostSearchesAreRequeued
<1>5. ASSUME NEW j \in Jobs, Abandon(j) PROVE IInv'
  BY <1>5, WorkerAssumption
  DEF Abandon, IInv, RedisOK, ProcessesOK, Unspent, Process, LiveHoldsLease,
      RecordFollows, NoteFollows, RecordedLossIsRemembered,
      OnlyLostSearchesAreRequeued
<1>6. ASSUME NEW w \in Workers, Login(w) PROVE IInv'
  BY <1>6, WorkerAssumption
  DEF Login, IInv, RedisOK, ProcessesOK, Unspent, Process, LiveHoldsLease,
      RecordFollows, NoteFollows, RecordedLossIsRemembered,
      OnlyLostSearchesAreRequeued
<1>7. ASSUME NEW w \in Workers, AskToStop(w) PROVE IInv'
  <2> USE <1>7, WorkerAssumption
  <2> DEFINE p == [proc[w] EXCEPT !.asked = TRUE]
  <2>1. ProcessesOK'
    <3>1. p \in Process /\ (p.job # Nobody <=> p.phase \in Holding)
      <4>1. proc[w] \in Process /\ (proc[w].job # Nobody <=> proc[w].phase \in Holding)
        BY DEF IInv, ProcessesOK
      <4> QED BY <4>1 DEF AskToStop, Process
    <3>2. proc' = [proc EXCEPT ![w] = p] /\ call' = call
      BY Charged DEF AskToStop, IInv
    <3>3. spent' \in [DOMAIN Bounds -> Nat] /\ session' \in BOOLEAN
      BY Charged DEF AskToStop, IInv, ProcessesOK
    <3> HIDE DEF p
    <3> QED BY <3>1, <3>2, <3>3, OneProcess DEF IInv
  <2>2. RedisOK' /\ Unspent'
    BY <2>1, Charged DEF AskToStop, IInv, RedisOK, ProcessesOK, Unspent, Process
  <2>3. LiveHoldsLease'
    BY <2>1, Charged
    DEF AskToStop, IInv, ProcessesOK, Unspent, Process, LiveHoldsLease
  <2>4. RecordFollows'
    BY <2>1, Charged
    DEF AskToStop, IInv, ProcessesOK, Unspent, Process, LiveHoldsLease,
        RecordFollows
  <2>5. NoteFollows'
    BY <2>1, Charged
    DEF AskToStop, IInv, ProcessesOK, Unspent, Process, LiveHoldsLease,
        NoteFollows
  <2>6. RecordedLossIsRemembered' /\ OnlyLostSearchesAreRequeued'
    BY <2>1, Charged
    DEF AskToStop, IInv, RedisOK, ProcessesOK, Unspent, Process, LiveHoldsLease,
           RecordFollows, RecordedLossIsRemembered, OnlyLostSearchesAreRequeued
  <2> QED BY <2>1, <2>2, <2>3, <2>4, <2>5, <2>6 DEF IInv
<1>8. ASSUME NEW w \in Workers, Die(w) PROVE IInv'
  BY <1>8, WorkerAssumption
  DEF Die, IInv, RedisOK, ProcessesOK, Unspent, Process, LiveHoldsLease,
      RecordFollows, NoteFollows, RecordedLossIsRemembered,
      OnlyLostSearchesAreRequeued
<1> QED BY <1>1, <1>2, <1>3, <1>4, <1>5, <1>6, <1>7, <1>8 DEF Environment

\* From the lease to the queue: the drain leaves the record empty.
LEMMA StartsHolds ==
  ASSUME IInv, Steady, NEW w \in Workers, Starts(w) PROVE IInv'
<1>1. ASSUME Acquire(w) PROVE IInv'
  BY <1>1, WorkerAssumption
  DEF Acquire, IInv, RedisOK, ProcessesOK, Unspent, Process, LiveHoldsLease,
      RecordFollows, NoteFollows, RecordedLossIsRemembered,
      OnlyLostSearchesAreRequeued
<1>2. ASSUME Authenticate(w) PROVE IInv'
  <2> USE <1>2, WorkerAssumption
  <2> DEFINE p == [proc[w] EXCEPT !.phase = "ready"]
  <2>1. ProcessesOK'
    <3>1. p \in Process /\ (p.job # Nobody <=> p.phase \in Holding)
      <4>1. proc[w] \in Process /\ (proc[w].job # Nobody <=> proc[w].phase \in Holding)
        BY DEF IInv, ProcessesOK
      <4> QED BY <4>1 DEF Authenticate, Process
    <3>2. proc' = [proc EXCEPT ![w] = p] /\ call' = call
      BY Charged DEF Authenticate, IInv
    <3>3. spent' \in [DOMAIN Bounds -> Nat] /\ session' \in BOOLEAN
      BY Charged DEF Authenticate, IInv, ProcessesOK
    <3> HIDE DEF p
    <3> QED BY <3>1, <3>2, <3>3, OneProcess DEF IInv
  <2>2. RedisOK' /\ Unspent'
    BY <2>1, Charged DEF Authenticate, IInv, RedisOK, ProcessesOK, Unspent, Process
  <2>3. LiveHoldsLease'
    BY <2>1, Charged
    DEF Authenticate, IInv, ProcessesOK, Unspent, Process, LiveHoldsLease
  <2>4. RecordFollows'
    BY <2>1, Charged
    DEF Authenticate, IInv, ProcessesOK, Unspent, Process, LiveHoldsLease,
        RecordFollows
  <2>5. NoteFollows'
    BY <2>1, Charged
    DEF Authenticate, IInv, ProcessesOK, Unspent, Process, LiveHoldsLease,
        NoteFollows
  <2>6. RecordedLossIsRemembered' /\ OnlyLostSearchesAreRequeued'
    BY <2>1, Charged
    DEF Authenticate, IInv, RedisOK, ProcessesOK, Unspent, Process,
        LiveHoldsLease,
           RecordFollows, RecordedLossIsRemembered, OnlyLostSearchesAreRequeued
  <2> QED BY <2>1, <2>2, <2>3, <2>4, <2>5, <2>6 DEF IInv
<1>3. ASSUME SessionMissing(w) PROVE IInv'
  <2> USE <1>3, WorkerAssumption
  <2> DEFINE p == [proc[w] EXCEPT !.phase = "closing", !.login = TRUE]
  <2>1. ProcessesOK'
    <3>1. p \in Process /\ (p.job # Nobody <=> p.phase \in Holding)
      <4>1. proc[w] \in Process /\ (proc[w].job # Nobody <=> proc[w].phase \in Holding)
        BY DEF IInv, ProcessesOK
      <4> QED BY <4>1 DEF SessionMissing, Process
    <3>2. proc' = [proc EXCEPT ![w] = p] /\ call' = call
      BY Charged DEF SessionMissing, IInv
    <3>3. spent' \in [DOMAIN Bounds -> Nat] /\ session' \in BOOLEAN
      BY Charged DEF SessionMissing, IInv, ProcessesOK
    <3> HIDE DEF p
    <3> QED BY <3>1, <3>2, <3>3, OneProcess DEF IInv
  <2>2. RedisOK' /\ Unspent'
    BY <2>1, Charged
    DEF SessionMissing, IInv, RedisOK, ProcessesOK, Unspent, Process
  <2>3. LiveHoldsLease'
    BY <2>1, Charged
    DEF SessionMissing, IInv, ProcessesOK, Unspent, Process, LiveHoldsLease
  <2>4. RecordFollows'
    BY <2>1, Charged
    DEF SessionMissing, IInv, ProcessesOK, Unspent, Process, LiveHoldsLease,
        RecordFollows
  <2>5. NoteFollows'
    BY <2>1, Charged
    DEF SessionMissing, IInv, ProcessesOK, Unspent, Process, LiveHoldsLease,
        NoteFollows
  <2>6. RecordedLossIsRemembered' /\ OnlyLostSearchesAreRequeued'
    BY <2>1, Charged
    DEF SessionMissing, IInv, RedisOK, ProcessesOK, Unspent, Process,
        LiveHoldsLease,
           RecordFollows, RecordedLossIsRemembered, OnlyLostSearchesAreRequeued
  <2> QED BY <2>1, <2>2, <2>3, <2>4, <2>5, <2>6 DEF IInv
<1>4. ASSUME StartGivenUp(w) PROVE IInv'
  BY <1>4, WorkerAssumption
  DEF StartGivenUp, IInv, RedisOK, ProcessesOK, Unspent, Process, LiveHoldsLease,
      RecordFollows, NoteFollows, RecordedLossIsRemembered,
      OnlyLostSearchesAreRequeued
<1>5. ASSUME Drain(w) PROVE IInv'
  <2> USE <1>5, WorkerAssumption
  <2> DEFINE p == [proc[w] EXCEPT !.phase = "idle"]
  <2>1. ProcessesOK'
    <3>1. p \in Process /\ (p.job # Nobody <=> p.phase \in Holding)
      <4>1. proc[w] \in Process /\ (proc[w].job # Nobody <=> proc[w].phase \in Holding)
        BY DEF IInv, ProcessesOK
      <4> QED BY <4>1 DEF Drain, Process
    <3>2. proc' = [proc EXCEPT ![w] = p] /\ call' = call
      BY Charged DEF Drain, IInv
    <3>3. spent' \in [DOMAIN Bounds -> Nat] /\ session' \in BOOLEAN
      BY Charged DEF Drain, IInv, ProcessesOK
    <3> HIDE DEF p
    <3> QED BY <3>1, <3>2, <3>3, OneProcess DEF IInv
  <2>2. RedisOK' /\ Unspent'
    BY <2>1, Charged DEF Drain, IInv, RedisOK, ProcessesOK, Unspent, Process
  <2>3. LiveHoldsLease'
    BY <2>1, Charged DEF Drain, IInv, ProcessesOK, Unspent, Process, LiveHoldsLease
  <2>4. RecordFollows'
    BY <2>1, Charged
    DEF Drain, IInv, ProcessesOK, Unspent, Process, LiveHoldsLease,
        RecordFollows
  <2>5. NoteFollows'
    BY <2>1, Charged
    DEF Drain, IInv, ProcessesOK, Unspent, Process, LiveHoldsLease, NoteFollows
  <2>6. \A v \in Workers : proc[v].requeue = Nobody /\ proc'[v].requeue = Nobody
    <3>1. \A v \in Workers : proc[v].requeue = Nobody
      BY DEF Drain, IInv, LiveHoldsLease, RecordFollows
    <3> QED BY <3>1 DEF Drain, IInv, ProcessesOK, Process
  <2>7. OnlyLostSearchesAreRequeued'
    BY <2>6 DEF Drain, OnlyLostSearchesAreRequeued
  <2>8. RecordedLossIsRemembered'
    <3>1. CASE pending = Nobody \/ status[pending] \notin Failed
      BY <2>6, <3>1 DEF Drain, IInv, RedisOK, RecordedLossIsRemembered
    <3>2. CASE pending # Nobody /\ status[pending] \in Failed
      BY <2>6, <3>2 DEF Drain, IInv, RedisOK, RecordedLossIsRemembered
    <3> QED BY <3>1, <3>2
  <2> QED BY <2>1, <2>2, <2>3, <2>4, <2>5, <2>7, <2>8 DEF IInv
<1>6. ASSUME DrainFails(w) PROVE IInv'
  BY <1>6, WorkerAssumption
  DEF DrainFails, IInv, RedisOK, ProcessesOK, Unspent, Process, LiveHoldsLease,
      RecordFollows, NoteFollows, RecordedLossIsRemembered,
      OnlyLostSearchesAreRequeued
<1> QED BY <1>1, <1>2, <1>3, <1>4, <1>5, <1>6 DEF Starts

\* A job is run: a lost session is recorded before its failure is.
LEMMA WorksHolds ==
  ASSUME IInv, Steady, NEW w \in Workers, Works(w) PROVE IInv'
<1>1. ASSUME NEW j \in Jobs, Take(w, j) PROVE IInv'
  <2> USE <1>1, WorkerAssumption
  <2>1. CASE status[j] = "none"
    BY <2>1
    DEF Take, IInv, RedisOK, ProcessesOK, Unspent, Process, LiveHoldsLease,
        RecordFollows, NoteFollows, RecordedLossIsRemembered,
        OnlyLostSearchesAreRequeued
  <2>2. CASE status[j] # "none"
    <3> DEFINE p == [proc[w] EXCEPT !.phase = "taken", !.job = j]
    <3>1. ProcessesOK'
      <4>1. p \in Process /\ (p.job # Nobody <=> p.phase \in Holding)
        <5>1. proc[w] \in Process /\ j # Nobody
          BY DEF IInv, ProcessesOK
        <5> QED BY <5>1 DEF Process
      <4>2. proc' = [proc EXCEPT ![w] = p] /\ UNCHANGED <<call, session, spent>>
        BY <2>2 DEF Take
      <4>3. spent' \in [DOMAIN Bounds -> Nat] /\ session' \in BOOLEAN
        BY <4>2 DEF IInv, ProcessesOK
      <4> HIDE DEF p
      <4> QED BY <4>1, <4>2, <4>3, OneProcess DEF IInv
    <3>2. RedisOK' /\ Unspent'
      BY <2>2, <3>1 DEF Take, IInv, RedisOK, ProcessesOK, Unspent, Process
    <3>3. LiveHoldsLease'
      BY <2>2, <3>1 DEF Take, IInv, ProcessesOK, Unspent, Process, LiveHoldsLease
    <3>4. \A v \in Workers \ {w} : proc[v].phase \notin Live /\ proc'[v] = proc[v]
      BY <2>2, Alone DEF Take, IInv, ProcessesOK
    <3>5. proc[w] \in Process /\ proc'[w] = p
      BY <2>2 DEF Take, IInv, ProcessesOK
    <3>6. p.phase = "taken" /\ p.job = j /\ p.requeue = Nobody /\ p.login = FALSE
      BY <3>5 DEF Take, IInv, Process, RecordFollows, NoteFollows
    <3>7. pending = Nobody /\ UNCHANGED records /\ lost' = lost \ {j}
      BY <2>2 DEF Take, IInv, RecordFollows
    <3>8. \A v \in Workers : proc'[v].requeue = Nobody
      BY <3>4, <3>5, <3>6 DEF IInv, RecordFollows
    <3> HIDE DEF p
    <3>9. RecordFollows'
      BY <3>4, <3>5, <3>6, <3>7, <3>8 DEF RecordFollows
    <3>10. NoteFollows'
      BY <3>4, <3>5, <3>6 DEF IInv, NoteFollows
    <3>11. RecordedLossIsRemembered' /\ OnlyLostSearchesAreRequeued'
      <4>1. status' = [status EXCEPT ![j] = "started"]
        BY <2>2 DEF Take
      <4>2. \A v \in Workers : proc[v].requeue = Nobody
        BY <3>4, <3>7 DEF Take, IInv, RecordFollows
      <4>3. OnlyLostSearchesAreRequeued'
        BY <3>7, <3>8 DEF OnlyLostSearchesAreRequeued
      <4> QED BY <3>7, <4>1, <4>2, <4>3 DEF IInv, RedisOK, RecordedLossIsRemembered
    <3> QED BY <3>1, <3>2, <3>3, <3>9, <3>10, <3>11 DEF IInv
  <2> QED BY <2>1, <2>2
<1>2. ASSUME Execute(w) PROVE IInv'
  <2> USE <1>2, WorkerAssumption
  <2>1. lock = w
    BY DEF Execute, IInv, LiveHoldsLease
  <2> DEFINE p == [proc[w] EXCEPT !.phase = "running"]
  <2>2. ProcessesOK'
    <3>1. p \in Process /\ (p.job # Nobody <=> p.phase \in Holding)
      <4>1. proc[w] \in Process /\ (proc[w].job # Nobody <=> proc[w].phase \in Holding)
        BY DEF IInv, ProcessesOK
      <4> QED BY <4>1 DEF Execute, Process
    <3>2. proc' = [proc EXCEPT ![w] = p] /\ call' = call
      BY <2>1, Charged DEF Execute, IInv
    <3>3. spent' \in [DOMAIN Bounds -> Nat] /\ session' \in BOOLEAN
      BY <2>1, Charged DEF Execute, IInv, ProcessesOK
    <3> HIDE DEF p
    <3> QED BY <3>1, <3>2, <3>3, OneProcess DEF IInv
  <2>3. RedisOK' /\ Unspent'
    BY <2>1, <2>2, Charged DEF Execute, IInv, RedisOK, ProcessesOK, Unspent, Process
  <2>4. LiveHoldsLease'
    BY <2>1, <2>2, Charged
    DEF Execute, IInv, ProcessesOK, Unspent, Process, LiveHoldsLease
  <2>5. RecordFollows'
    BY <2>1, <2>2, Charged
    DEF Execute, IInv, ProcessesOK, Unspent, Process, LiveHoldsLease,
        RecordFollows
  <2>6. NoteFollows'
    BY <2>1, <2>2, Charged
    DEF Execute, IInv, ProcessesOK, Unspent, Process, LiveHoldsLease,
        NoteFollows
  <2>7. RecordedLossIsRemembered' /\ OnlyLostSearchesAreRequeued'
    BY <2>1, <2>2, Charged
    DEF Execute, IInv, RedisOK, ProcessesOK, Unspent, Process, LiveHoldsLease,
           RecordFollows, RecordedLossIsRemembered, OnlyLostSearchesAreRequeued
  <2> QED BY <2>2, <2>3, <2>4, <2>5, <2>6, <2>7 DEF IInv
<1>3. ASSUME NEW result \in {"finished", "failed"}, Ends(w, result) PROVE IInv'
  <2> USE <1>3, WorkerAssumption
  <2> DEFINE p == [proc[w] EXCEPT !.phase = "idle", !.job = Nobody]
  <2>1. ProcessesOK'
    <3>1. p \in Process /\ (p.job # Nobody <=> p.phase \in Holding)
      <4>1. proc[w] \in Process /\ (proc[w].job # Nobody <=> proc[w].phase \in Holding)
        BY DEF IInv, ProcessesOK
      <4> QED BY <4>1 DEF Ends, Process
    <3>2. proc' = [proc EXCEPT ![w] = p] /\ call' = call
      BY Charged DEF Ends, IInv
    <3>3. spent' \in [DOMAIN Bounds -> Nat] /\ session' \in BOOLEAN
      BY Charged DEF Ends, IInv, ProcessesOK
    <3> HIDE DEF p
    <3> QED BY <3>1, <3>2, <3>3, OneProcess DEF IInv
  <2>2. RedisOK' /\ Unspent'
    BY <2>1, Charged DEF Ends, IInv, RedisOK, ProcessesOK, Unspent, Process
  <2>3. LiveHoldsLease'
    BY <2>1, Charged DEF Ends, IInv, ProcessesOK, Unspent, Process, LiveHoldsLease
  <2>4. RecordFollows'
    BY <2>1, Charged
    DEF Ends, IInv, ProcessesOK, Unspent, Process, LiveHoldsLease, RecordFollows
  <2>5. NoteFollows'
    BY <2>1, Charged
    DEF Ends, IInv, ProcessesOK, Unspent, Process, LiveHoldsLease, NoteFollows
  <2>6. RecordedLossIsRemembered' /\ OnlyLostSearchesAreRequeued'
    BY <2>1, Charged
    DEF Ends, IInv, RedisOK, ProcessesOK, Unspent, Process, LiveHoldsLease,
           RecordFollows, RecordedLossIsRemembered, OnlyLostSearchesAreRequeued
  <2> QED BY <2>1, <2>2, <2>3, <2>4, <2>5, <2>6 DEF IInv
<1>4. ASSUME SessionLost(w) PROVE IInv'
  <2> USE <1>4, WorkerAssumption
  <2> DEFINE p == [proc[w] EXCEPT !.phase = "unwinding", !.requeue = proc[w].job,
                                       !.asked = TRUE, !.login = TRUE]
  <2>1. ProcessesOK'
    <3>1. p \in Process /\ (p.job # Nobody <=> p.phase \in Holding)
      <4>1. proc[w] \in Process /\ (proc[w].job # Nobody <=> proc[w].phase \in Holding)
        BY DEF IInv, ProcessesOK
      <4> QED BY <4>1 DEF SessionLost, Process
    <3>2. proc' = [proc EXCEPT ![w] = p] /\ call' = call
      BY Charged DEF SessionLost, IInv
    <3>3. spent' \in [DOMAIN Bounds -> Nat] /\ session' \in BOOLEAN
      BY Charged DEF SessionLost, IInv, ProcessesOK
    <3> HIDE DEF p
    <3> QED BY <3>1, <3>2, <3>3, OneProcess DEF IInv
  <2>2. RedisOK' /\ Unspent'
    BY <2>1, Charged DEF SessionLost, IInv, RedisOK, ProcessesOK, Unspent, Process
  <2>3. LiveHoldsLease'
    BY <2>1, Charged
    DEF SessionLost, IInv, ProcessesOK, Unspent, Process, LiveHoldsLease
  <2>4. RecordFollows'
    BY <2>1, Charged
    DEF SessionLost, IInv, ProcessesOK, Unspent, Process, LiveHoldsLease,
        RecordFollows
  <2>5. NoteFollows'
    BY <2>1, Charged
    DEF SessionLost, IInv, ProcessesOK, Unspent, Process, LiveHoldsLease,
        NoteFollows
  <2>6. RecordedLossIsRemembered' /\ OnlyLostSearchesAreRequeued'
    BY <2>1, Charged
    DEF SessionLost, IInv, RedisOK, ProcessesOK, Unspent, Process,
        LiveHoldsLease,
           RecordFollows, RecordedLossIsRemembered, OnlyLostSearchesAreRequeued
  <2> QED BY <2>1, <2>2, <2>3, <2>4, <2>5, <2>6 DEF IInv
<1>5. ASSUME RecordFailure(w) PROVE IInv'
  <2> USE <1>5, WorkerAssumption
  <2> DEFINE p == [proc[w] EXCEPT !.phase = "stopping", !.job = Nobody]
  <2>1. ProcessesOK'
    <3>1. p \in Process /\ (p.job # Nobody <=> p.phase \in Holding)
      <4>1. proc[w] \in Process /\ (proc[w].job # Nobody <=> proc[w].phase \in Holding)
        BY DEF IInv, ProcessesOK
      <4> QED BY <4>1 DEF RecordFailure, Process
    <3>2. proc' = [proc EXCEPT ![w] = p] /\ call' = call
      BY Charged DEF RecordFailure, IInv
    <3>3. spent' \in [DOMAIN Bounds -> Nat] /\ session' \in BOOLEAN
      BY Charged DEF RecordFailure, IInv, ProcessesOK
    <3> HIDE DEF p
    <3> QED BY <3>1, <3>2, <3>3, OneProcess DEF IInv
  <2>2. RedisOK' /\ Unspent'
    BY <2>1, Charged DEF RecordFailure, IInv, RedisOK, ProcessesOK, Unspent, Process
  <2>3. LiveHoldsLease'
    BY <2>1, Charged
    DEF RecordFailure, IInv, ProcessesOK, Unspent, Process, LiveHoldsLease
  <2>4. RecordFollows'
    BY <2>1, Charged
    DEF RecordFailure, IInv, ProcessesOK, Unspent, Process, LiveHoldsLease,
        RecordFollows
  <2>5. NoteFollows'
    BY <2>1, Charged
    DEF RecordFailure, IInv, ProcessesOK, Unspent, Process, LiveHoldsLease,
        NoteFollows
  <2>6. RecordedLossIsRemembered' /\ OnlyLostSearchesAreRequeued'
    BY <2>1, Charged
    DEF RecordFailure, IInv, RedisOK, ProcessesOK, Unspent, Process,
        LiveHoldsLease,
           RecordFollows, RecordedLossIsRemembered, OnlyLostSearchesAreRequeued
  <2> QED BY <2>1, <2>2, <2>3, <2>4, <2>5, <2>6 DEF IInv
<1> QED BY <1>1, <1>2, <1>3, <1>4, <1>5 DEF Works

\* The job goes back to the queue and the note is out before the browser closes.
LEMMA StopsHolds ==
  ASSUME IInv, Steady, NEW w \in Workers, Stops(w) PROVE IInv'
<1>1. ASSUME WorkReturns(w) PROVE IInv'
  BY <1>1, WorkerAssumption
  DEF WorkReturns, IInv, RedisOK, ProcessesOK, Unspent, Process, LiveHoldsLease,
      RecordFollows, NoteFollows, RecordedLossIsRemembered,
      OnlyLostSearchesAreRequeued
<1>2. ASSUME Requeue(w) PROVE IInv'
  <2> DEFINE j == proc[w].requeue
             p == [proc[w] EXCEPT !.requeue = Nobody]
  <2>1. /\ proc' = [proc EXCEPT ![w] = p]
        /\ RequeueAtFront(j)
        /\ UNCHANGED <<records, lock, call, session, spent>>
    BY <1>2, Charged DEF Requeue, IInv
  <2>2. proc[w] \in Process /\ j \in Jobs /\ pending = j /\ At(w, "stopping")
    BY <1>2 DEF Requeue, IInv, ProcessesOK, Process, RecordFollows
  <2>3. \A v \in Workers \ {w} : proc[v].phase \notin Live /\ proc'[v] = proc[v]
    BY <2>1, <2>2, Alone DEF IInv, ProcessesOK
  <2>4. proc'[w] = p /\ p.phase = "stopping" /\ p.job = Nobody /\ p.requeue = Nobody
         /\ p.login = proc[w].login /\ p \in Process
    BY <2>1, <2>2, WorkerAssumption DEF IInv, ProcessesOK, Process
  <2> HIDE DEF p
  <2>5. ProcessesOK'
    BY <2>1, <2>4, OneProcess DEF IInv, ProcessesOK
  <2>6. \/ status[j] \in Failed /\ status' = [status EXCEPT ![j] = "queued"] /\ lost' = lost
        \/ status[j] \notin Failed /\ UNCHANGED <<status, lost>>
    <3> HIDE DEF RequeueAtFront, jobs, records, Failed
    <3> QED BY <2>1, Requeued
  <2>7. \A v \in Workers : proc[v].requeue \in {Nobody, j}
    BY <2>3 DEF IInv, RecordFollows
  <2> HIDE DEF j
  <2>8. RedisOK' /\ Unspent'
    BY <2>1, <2>2, <2>6 DEF IInv, RedisOK, Unspent
  <2>9. LiveHoldsLease' /\ NoteFollows'
    BY <2>1, <2>2, <2>3, <2>4 DEF IInv, LiveHoldsLease, NoteFollows
  <2>10. \A v \in Workers : proc'[v].requeue = Nobody
    BY <2>3, <2>4 DEF IInv, RecordFollows
  <2>11. RecordFollows'
    BY <2>1, <2>3, <2>4, <2>10 DEF IInv, RecordFollows
  <2>12. RecordedLossIsRemembered'
    BY <2>2, <2>6, <2>7, WorkerAssumption
    DEF IInv, RedisOK, RecordedLossIsRemembered
  <2>13. OnlyLostSearchesAreRequeued'
    BY <2>1, <2>2, <2>6, <2>10, WorkerAssumption
    DEF IInv, RedisOK, OnlyLostSearchesAreRequeued
  <2> QED BY <2>5, <2>8, <2>9, <2>11, <2>12, <2>13 DEF IInv
<1>3. ASSUME Publish(w) PROVE IInv'
  BY <1>3, WorkerAssumption
  DEF Publish, IInv, RedisOK, ProcessesOK, Unspent, Process, LiveHoldsLease,
      RecordFollows, NoteFollows, RecordedLossIsRemembered,
      OnlyLostSearchesAreRequeued
<1>4. ASSUME BrowserCloses(w) PROVE IInv'
  BY <1>4, WorkerAssumption
  DEF BrowserCloses, IInv, RedisOK, ProcessesOK, Unspent, Process, LiveHoldsLease,
      RecordFollows, NoteFollows, RecordedLossIsRemembered,
      OnlyLostSearchesAreRequeued
<1>5. ASSUME ReleaseReads(w) PROVE IInv'
  BY <1>5, WorkerAssumption
  DEF ReleaseReads, IInv, RedisOK, ProcessesOK, Unspent, Process, LiveHoldsLease,
      RecordFollows, NoteFollows, RecordedLossIsRemembered,
      OnlyLostSearchesAreRequeued
<1>6. ASSUME ReleaseDeletes(w) PROVE IInv'
  BY <1>6, WorkerAssumption
  DEF ReleaseDeletes, IInv, RedisOK, ProcessesOK, Unspent, Process,
      LiveHoldsLease, RecordFollows, NoteFollows, RecordedLossIsRemembered,
      OnlyLostSearchesAreRequeued
<1> QED BY <1>1, <1>2, <1>3, <1>4, <1>5, <1>6 DEF Stops

\* Only the holder is live, so a heartbeat finds its own token.
LEMMA HeartbeatHolds ==
  ASSUME IInv, Steady, NEW w \in Workers, Heartbeat(w) PROVE IInv'
BY WorkerAssumption
DEF Heartbeat, IInv, RedisOK, ProcessesOK, Unspent, Process, LiveHoldsLease,
    RecordFollows, NoteFollows, RecordedLossIsRemembered,
    OnlyLostSearchesAreRequeued

\* Every step.
LEMMA StepHolds == ASSUME IInv, Steady, [Next]_vars PROVE IInv'
<1>1. CASE Environment
  BY <1>1, EnvironmentHolds
<1>2. ASSUME NEW c \in Clients, Enqueue(c) PROVE IInv'
  BY <1>2, EnqueueHolds
<1>3. ASSUME NEW w \in Workers, Starts(w) PROVE IInv'
  BY <1>3, StartsHolds
<1>4. ASSUME NEW w \in Workers, Works(w) PROVE IInv'
  BY <1>4, WorksHolds
<1>5. ASSUME NEW w \in Workers, Stops(w) PROVE IInv'
  BY <1>5, StopsHolds
<1>6. ASSUME NEW w \in Workers, Heartbeat(w) PROVE IInv'
  BY <1>6, HeartbeatHolds
<1>7. CASE UNCHANGED vars
  BY <1>7
  DEF vars, IInv, RedisOK, ProcessesOK, Unspent, LiveHoldsLease, RecordFollows,
         NoteFollows, RecordedLossIsRemembered, OnlyLostSearchesAreRequeued
<1> QED BY <1>1, <1>2, <1>3, <1>4, <1>5, <1>6, <1>7 DEF Next

-----------------------------------------------------------------------------
(* Types, whatever lapses or fails.                                          *)

\* A job is taken out of the queue at one place.
LEMMA RemoveFirstTyped ==
  ASSUME NEW S, NEW s \in Seq(S), NEW e PROVE RemoveFirst(s, e) \in Seq(S)
<1>1. CASE \E i \in 1 .. Len(s) : s[i] = e
  <2> DEFINE places == {i \in 1 .. Len(s) : s[i] = e}
             k == SelectInSeq(s, LAMBDA v : v = e)
  <2>1. k \in 1 .. Len(s)
    <3>1. places \in SUBSET Nat /\ places # {} BY <1>1
    <3>2. PICK n \in places : \A m \in places : ~(<<m, n>> \in OpToRel(<, Nat))
      BY <3>1, NatLessThanWellFounded, WFMin
    <3>3. ASSUME NEW m \in places PROVE n <= m
      <4>1. m \in Nat /\ n \in Nat BY <3>1
      <4>2. m < n => <<m, n>> \in OpToRel(<, Nat) BY <4>1 DEF OpToRel
      <4>3. ~(m < n) BY <3>2, <4>2, Zenon
      <4> QED BY <4>1, <4>3
    <3>4. k = Min(places) BY <3>1 DEF SelectInSeq
    <3>5. Min(places) \in places BY <3>3 DEF Min
    <3> QED BY <3>4, <3>5
  <2>2. RemoveFirst(s, e) = SubSeq(s, 1, k - 1) \o SubSeq(s, k + 1, Len(s))
    BY <1>1 DEF RemoveFirst, RemoveAt
  <2> HIDE DEF k
  <2>3. SubSeq(s, 1, k - 1) \in Seq(S) /\ SubSeq(s, k + 1, Len(s)) \in Seq(S)
    BY <2>1, SubSeqProperties
  <2> QED BY <2>2, <2>3
<1>2. CASE ~ \E i \in 1 .. Len(s) : s[i] = e BY <1>2 DEF RemoveFirst
<1> QED BY <1>1, <1>2

LEMMA SpentTyped ==
  ASSUME ProcessesOK, NEW kind \in DOMAIN Bounds, Spend(kind) \/ UNCHANGED spent
  PROVE  spent' \in [DOMAIN Bounds -> Nat]
BY DEF ProcessesOK

LEMMA RequeueTyped ==
  ASSUME TypeOK, NEW j \in Jobs \cup {Nobody}, RequeueAtFront(j) \/ UNCHANGED jobs,
         j # Nobody
  PROVE  queue' \in Seq(Jobs) /\ status' \in [Jobs -> Status] /\ lost' \subseteq Jobs
<1> USE DEF TypeOK, RedisOK
<1>1. CASE RequeueAtFront(j) /\ status[j] \in Failed
  <2>1. queue' = <<j>> \o queue /\ j \in Jobs /\ lost' = lost
        /\ status' = [status EXCEPT ![j] = "queued"]
    BY <1>1
  <2> QED BY <2>1
<1>2. CASE (RequeueAtFront(j) /\ status[j] \notin Failed) \/ UNCHANGED jobs BY <1>2
<1> QED BY <1>1, <1>2

LEMMA EnqueueTyped == ASSUME TypeOK, NEW c \in Clients, Enqueue(c) PROVE TypeOK'
<1> USE WorkerAssumption DEF TypeOK, RedisOK, ProcessesOK, Process
<1>1. ASSUME NEW j \in Jobs, EnqueueLooksUp(c, j) PROVE TypeOK'
  BY <1>1 DEF EnqueueLooksUp
<1>2. ASSUME EnqueueDeletes(c) PROVE TypeOK'
  <2>1. call[c].job \in Jobs BY <1>2 DEF EnqueueDeletes
  <2>2. queue' \in Seq(Jobs)
    <3>1. queue \in Seq(Jobs) /\ queue' = RemoveFirst(queue, call[c].job)
      BY <1>2 DEF EnqueueDeletes
    <3> QED BY <3>1, RemoveFirstTyped
  <2>3. RedisOK' /\ ProcessesOK' BY <1>2, <2>1 DEF EnqueueDeletes
  <2> QED BY <2>2, <2>3
<1>3. ASSUME EnqueuePushes(c) PROVE TypeOK'
  BY <1>3 DEF EnqueuePushes
<1> QED BY <1>1, <1>2, <1>3 DEF Enqueue

LEMMA ProcOf ==
  ASSUME TypeOK, NEW w \in Workers
  PROVE  proc[w] \in Process /\ (proc[w].job # Nobody <=> proc[w].phase \in Holding)
BY DEF TypeOK, ProcessesOK

LEMMA EnvironmentTyped == ASSUME TypeOK, Environment PROVE TypeOK'
<1> USE WorkerAssumption
<1>0. queue \in Seq(Jobs) /\ RedisOK /\ ProcessesOK BY DEF TypeOK
<1> USE <1>0
<1>1. ASSUME LeaseExpires PROVE TypeOK'
  BY <1>1 DEF LeaseExpires, RedisOK, ProcessesOK, Process, TypeOK
<1>2. ASSUME LeaseStarves PROVE TypeOK'
  BY <1>2 DEF LeaseStarves, RedisOK, ProcessesOK, Process, TypeOK
<1>3. ASSUME SessionEnds PROVE TypeOK'
  BY <1>3 DEF SessionEnds, RedisOK, ProcessesOK, Process, TypeOK
<1>4. ASSUME NEW j \in Jobs, ResultExpires(j) PROVE TypeOK'
  BY <1>4 DEF ResultExpires, RedisOK, ProcessesOK, Process, TypeOK
<1>5. ASSUME NEW j \in Jobs, Abandon(j) PROVE TypeOK'
  BY <1>5 DEF Abandon, RedisOK, ProcessesOK, Process, TypeOK
<1>6. ASSUME NEW w \in Workers, Login(w) PROVE TypeOK'
  <2> DEFINE p == [proc[w] EXCEPT !.phase = "starting"]
  <2>1. p \in Process /\ (p.job # Nobody <=> p.phase \in Holding)
    BY <1>6, ProcOf DEF Login, Process, RedisOK
  <2>2. proc' = [proc EXCEPT ![w] = p] /\ call' = call /\ session' \in BOOLEAN
       /\ spent' \in [DOMAIN Bounds -> Nat]
    BY <1>6, SpentTyped DEF Login, ProcessesOK
  <2>3. ProcessesOK'
    <3> HIDE DEF p
    <3> QED BY <2>1, <2>2, OneProcess
  <2>4. queue' \in Seq(Jobs) /\ RedisOK'
    BY <1>6, <2>1 DEF Login, RedisOK, ProcessesOK, Process
  <2> QED BY <2>3, <2>4 DEF TypeOK
<1>7. ASSUME NEW w \in Workers, AskToStop(w) PROVE TypeOK'
  <2> DEFINE p == [proc[w] EXCEPT !.asked = TRUE]
  <2>1. p \in Process /\ (p.job # Nobody <=> p.phase \in Holding)
    BY <1>7, ProcOf DEF AskToStop, Process, RedisOK
  <2>2. proc' = [proc EXCEPT ![w] = p] /\ call' = call /\ session' \in BOOLEAN
       /\ spent' \in [DOMAIN Bounds -> Nat]
    BY <1>7, SpentTyped DEF AskToStop, ProcessesOK
  <2>3. ProcessesOK'
    <3> HIDE DEF p
    <3> QED BY <2>1, <2>2, OneProcess
  <2>4. queue' \in Seq(Jobs) /\ RedisOK'
    BY <1>7, <2>1 DEF AskToStop, RedisOK, ProcessesOK, Process
  <2> QED BY <2>3, <2>4 DEF TypeOK
<1>8. ASSUME NEW w \in Workers, Die(w) PROVE TypeOK'
  BY <1>8 DEF Die, RedisOK, ProcessesOK, Process, TypeOK
<1> QED BY <1>1, <1>2, <1>3, <1>4, <1>5, <1>6, <1>7, <1>8 DEF Environment

LEMMA StartsTyped == ASSUME TypeOK, NEW w \in Workers, Starts(w) PROVE TypeOK'
<1> USE WorkerAssumption
<1>0. queue \in Seq(Jobs) /\ RedisOK /\ ProcessesOK BY DEF TypeOK
<1> USE <1>0
<1>1. ASSUME Acquire(w) PROVE TypeOK'
  <2> DEFINE p == [proc[w] EXCEPT !.phase = "starting"]
  <2>1. p \in Process /\ (p.job # Nobody <=> p.phase \in Holding)
    BY <1>1, ProcOf DEF Acquire, Process, RedisOK
  <2>2. proc' = [proc EXCEPT ![w] = p] /\ call' = call /\ session' \in BOOLEAN
       /\ spent' \in [DOMAIN Bounds -> Nat]
    BY <1>1, SpentTyped DEF Acquire, ProcessesOK
  <2>3. ProcessesOK'
    <3> HIDE DEF p
    <3> QED BY <2>1, <2>2, OneProcess
  <2>4. queue' \in Seq(Jobs) /\ RedisOK'
    BY <1>1, <2>1 DEF Acquire, RedisOK, ProcessesOK, Process
  <2> QED BY <2>3, <2>4 DEF TypeOK
<1>2. ASSUME Authenticate(w) PROVE TypeOK'
  <2> DEFINE p == [proc[w] EXCEPT !.phase = "ready"]
  <2>1. p \in Process /\ (p.job # Nobody <=> p.phase \in Holding)
    BY <1>2, ProcOf DEF Authenticate, Process, RedisOK
  <2>2. proc' = [proc EXCEPT ![w] = p] /\ call' = call /\ session' \in BOOLEAN
       /\ spent' \in [DOMAIN Bounds -> Nat]
    BY <1>2, SpentTyped DEF Authenticate, ProcessesOK
  <2>3. ProcessesOK'
    <3> HIDE DEF p
    <3> QED BY <2>1, <2>2, OneProcess
  <2>4. queue' \in Seq(Jobs) /\ RedisOK'
    BY <1>2, <2>1 DEF Authenticate, RedisOK, ProcessesOK, Process
  <2> QED BY <2>3, <2>4 DEF TypeOK
<1>3. ASSUME SessionMissing(w) PROVE TypeOK'
  <2> DEFINE p == [proc[w] EXCEPT !.phase = "closing", !.login = TRUE]
  <2>1. p \in Process /\ (p.job # Nobody <=> p.phase \in Holding)
    BY <1>3, ProcOf DEF SessionMissing, Process, RedisOK
  <2>2. proc' = [proc EXCEPT ![w] = p] /\ call' = call /\ session' \in BOOLEAN
       /\ spent' \in [DOMAIN Bounds -> Nat]
    BY <1>3, SpentTyped DEF SessionMissing, ProcessesOK
  <2>3. ProcessesOK'
    <3> HIDE DEF p
    <3> QED BY <2>1, <2>2, OneProcess
  <2>4. queue' \in Seq(Jobs) /\ RedisOK'
    BY <1>3, <2>1 DEF SessionMissing, RedisOK, ProcessesOK, Process
  <2> QED BY <2>3, <2>4 DEF TypeOK
<1>4. ASSUME StartGivenUp(w) PROVE TypeOK'
  <2> DEFINE p == [proc[w] EXCEPT !.phase = "closing"]
  <2>1. p \in Process /\ (p.job # Nobody <=> p.phase \in Holding)
    BY <1>4, ProcOf DEF StartGivenUp, Process, RedisOK
  <2>2. proc' = [proc EXCEPT ![w] = p] /\ call' = call /\ session' \in BOOLEAN
       /\ spent' \in [DOMAIN Bounds -> Nat]
    BY <1>4, SpentTyped DEF StartGivenUp, ProcessesOK
  <2>3. ProcessesOK'
    <3> HIDE DEF p
    <3> QED BY <2>1, <2>2, OneProcess
  <2>4. queue' \in Seq(Jobs) /\ RedisOK'
    BY <1>4, <2>1 DEF StartGivenUp, RedisOK, ProcessesOK, Process
  <2> QED BY <2>3, <2>4 DEF TypeOK
<1>5. ASSUME Drain(w) PROVE TypeOK'
  <2> DEFINE p == [proc[w] EXCEPT !.phase = "idle"]
  <2>1. p \in Process /\ (p.job # Nobody <=> p.phase \in Holding)
    BY <1>5, ProcOf DEF Drain, Process, RedisOK
  <2>2. proc' = [proc EXCEPT ![w] = p] /\ call' = call /\ session' \in BOOLEAN
       /\ spent' \in [DOMAIN Bounds -> Nat]
    BY <1>5, SpentTyped DEF Drain, ProcessesOK
  <2>3. ProcessesOK'
    <3> HIDE DEF p
    <3> QED BY <2>1, <2>2, OneProcess
  <2>5. queue' \in Seq(Jobs) /\ status' \in [Jobs -> Status] /\ lost' \subseteq Jobs
    <3>1. pending \in Jobs \cup {Nobody} BY ProcOf DEF RedisOK, Process
    <3>2. CASE pending = Nobody BY <1>5, <3>2 DEF Drain, RedisOK
    <3>3. CASE pending # Nobody
      BY <1>5, <3>1, <3>3, RequeueTyped DEF Drain
    <3> QED BY <3>2, <3>3
  <2>4. queue' \in Seq(Jobs) /\ RedisOK'
    BY <1>5, <2>1, <2>5 DEF Drain, RedisOK, ProcessesOK, Process
  <2> QED BY <2>3, <2>4 DEF TypeOK
<1>6. ASSUME DrainFails(w) PROVE TypeOK'
  <2> DEFINE p == [proc[w] EXCEPT !.phase = "idle"]
  <2>1. p \in Process /\ (p.job # Nobody <=> p.phase \in Holding)
    BY <1>6, ProcOf DEF DrainFails, Process, RedisOK
  <2>2. proc' = [proc EXCEPT ![w] = p] /\ call' = call /\ session' \in BOOLEAN
       /\ spent' \in [DOMAIN Bounds -> Nat]
    BY <1>6, SpentTyped DEF DrainFails, ProcessesOK
  <2>3. ProcessesOK'
    <3> HIDE DEF p
    <3> QED BY <2>1, <2>2, OneProcess
  <2>5. queue' \in Seq(Jobs) /\ status' \in [Jobs -> Status] /\ lost' \subseteq Jobs
    <3>1. pending \in Jobs \cup {Nobody} BY ProcOf DEF RedisOK, Process
    <3>2. CASE pending = Nobody BY <1>6, <3>2 DEF DrainFails, RedisOK
    <3>3. CASE pending # Nobody
      BY <1>6, <3>1, <3>3, RequeueTyped DEF DrainFails
    <3> QED BY <3>2, <3>3
  <2>4. queue' \in Seq(Jobs) /\ RedisOK'
    BY <1>6, <2>1, <2>5 DEF DrainFails, RedisOK, ProcessesOK, Process
  <2> QED BY <2>3, <2>4 DEF TypeOK
<1> QED BY <1>1, <1>2, <1>3, <1>4, <1>5, <1>6 DEF Starts

LEMMA WorksTyped == ASSUME TypeOK, NEW w \in Workers, Works(w) PROVE TypeOK'
<1> USE WorkerAssumption
<1>0. queue \in Seq(Jobs) /\ RedisOK /\ ProcessesOK BY DEF TypeOK
<1> USE <1>0
<1>1. ASSUME NEW j \in Jobs, Take(w, j) PROVE TypeOK'
  <2>1. CASE status[j] = "none"
    <3> DEFINE p == proc[w]
    <3>1. p \in Process /\ (p.job # Nobody <=> p.phase \in Holding)
      BY <1>1, <2>1, ProcOf DEF Take, Process, RedisOK
    <3>2. proc' = [proc EXCEPT ![w] = p] /\ call' = call /\ session' \in BOOLEAN
         /\ spent' \in [DOMAIN Bounds -> Nat]
      BY <1>1, <2>1, SpentTyped DEF Take, ProcessesOK
    <3>3. ProcessesOK'
      <4> HIDE DEF p
      <4> QED BY <3>1, <3>2, OneProcess
    <3>4. queue' \in Seq(Jobs) /\ RedisOK'
      BY <1>1, <2>1, <3>1 DEF Take, RedisOK, ProcessesOK, Process
    <3> QED BY <3>3, <3>4 DEF TypeOK
  <2>2. CASE status[j] # "none"
    <3> DEFINE p == [proc[w] EXCEPT !.phase = "taken", !.job = j]
    <3>1. p \in Process /\ (p.job # Nobody <=> p.phase \in Holding)
      BY <1>1, <2>2, ProcOf DEF Take, Process, RedisOK
    <3>2. proc' = [proc EXCEPT ![w] = p] /\ call' = call /\ session' \in BOOLEAN
         /\ spent' \in [DOMAIN Bounds -> Nat]
      BY <1>1, <2>2, SpentTyped DEF Take, ProcessesOK
    <3>3. ProcessesOK'
      <4> HIDE DEF p
      <4> QED BY <3>1, <3>2, OneProcess
    <3>5. queue' \in Seq(Jobs)
      <4>1. queue # <<>> /\ queue' = Tail(queue) BY <1>1 DEF Take
      <4> QED BY <4>1, HeadTailProperties
    <3>6. status' = [status EXCEPT ![j] = "started"] /\ lost' = lost \ {j}
          /\ UNCHANGED <<pending, note, lock>>
      BY <1>1, <2>2 DEF Take
    <3>7. RedisOK' BY <3>6 DEF RedisOK
    <3> QED BY <3>3, <3>5, <3>7 DEF TypeOK
  <2> QED BY <2>1, <2>2
<1>2. ASSUME Execute(w) PROVE TypeOK'
  <2>1. CASE lock \in {w, Nobody}
    <3> DEFINE p == [proc[w] EXCEPT !.phase = "running"]
    <3>1. p \in Process /\ (p.job # Nobody <=> p.phase \in Holding)
      BY <1>2, <2>1, ProcOf DEF Execute, Process, RedisOK
    <3>2. proc' = [proc EXCEPT ![w] = p] /\ call' = call /\ session' \in BOOLEAN
         /\ spent' \in [DOMAIN Bounds -> Nat]
      BY <1>2, <2>1, SpentTyped DEF Execute, ProcessesOK
    <3>3. ProcessesOK'
      <4> HIDE DEF p
      <4> QED BY <3>1, <3>2, OneProcess
    <3>4. queue' \in Seq(Jobs) /\ RedisOK'
      BY <1>2, <2>1, <3>1 DEF Execute, RedisOK, ProcessesOK, Process
    <3> QED BY <3>3, <3>4 DEF TypeOK
  <2>2. CASE lock \notin {w, Nobody}
    <3> DEFINE p == [proc[w] EXCEPT !.phase = "stopping", !.job = Nobody]
    <3>1. p \in Process /\ (p.job # Nobody <=> p.phase \in Holding)
      BY <1>2, <2>2, ProcOf DEF Execute, Process, RedisOK
    <3>2. proc' = [proc EXCEPT ![w] = p] /\ call' = call /\ session' \in BOOLEAN
         /\ spent' \in [DOMAIN Bounds -> Nat]
      BY <1>2, <2>2, SpentTyped DEF Execute, ProcessesOK
    <3>3. ProcessesOK'
      <4> HIDE DEF p
      <4> QED BY <3>1, <3>2, OneProcess
    <3>4. queue' \in Seq(Jobs) /\ RedisOK'
      BY <1>2, <2>2, <3>1 DEF Execute, RedisOK, ProcessesOK, Process
    <3> QED BY <3>3, <3>4 DEF TypeOK
  <2> QED BY <2>1, <2>2
<1>3. ASSUME NEW result \in {"finished", "failed"}, Ends(w, result) PROVE TypeOK'
  <2> DEFINE p == [proc[w] EXCEPT !.phase = "idle", !.job = Nobody]
  <2>1. p \in Process /\ (p.job # Nobody <=> p.phase \in Holding)
    BY <1>3, ProcOf DEF Ends, Process, RedisOK
  <2>2. proc' = [proc EXCEPT ![w] = p] /\ call' = call /\ session' \in BOOLEAN
       /\ spent' \in [DOMAIN Bounds -> Nat]
    BY <1>3, SpentTyped DEF Ends, ProcessesOK
  <2>3. ProcessesOK'
    <3> HIDE DEF p
    <3> QED BY <2>1, <2>2, OneProcess
  <2>4. queue' \in Seq(Jobs) /\ RedisOK'
    BY <1>3, <2>1 DEF Ends, RedisOK, ProcessesOK, Process
  <2> QED BY <2>3, <2>4 DEF TypeOK
<1>4. ASSUME SessionLost(w) PROVE TypeOK'
  <2> DEFINE p == [proc[w] EXCEPT !.phase = "unwinding", !.requeue = proc[w].job,
                                !.asked = TRUE, !.login = TRUE]
  <2>1. p \in Process /\ (p.job # Nobody <=> p.phase \in Holding)
    BY <1>4, ProcOf DEF SessionLost, Process, RedisOK
  <2>2. proc' = [proc EXCEPT ![w] = p] /\ call' = call /\ session' \in BOOLEAN
       /\ spent' \in [DOMAIN Bounds -> Nat]
    BY <1>4, SpentTyped DEF SessionLost, ProcessesOK
  <2>3. ProcessesOK'
    <3> HIDE DEF p
    <3> QED BY <2>1, <2>2, OneProcess
  <2>4. queue' \in Seq(Jobs) /\ RedisOK'
    BY <1>4, <2>1 DEF SessionLost, RedisOK, ProcessesOK, Process
  <2> QED BY <2>3, <2>4 DEF TypeOK
<1>5. ASSUME RecordFailure(w) PROVE TypeOK'
  <2> DEFINE p == [proc[w] EXCEPT !.phase = "stopping", !.job = Nobody]
  <2>1. p \in Process /\ (p.job # Nobody <=> p.phase \in Holding)
    BY <1>5, ProcOf DEF RecordFailure, Process, RedisOK
  <2>2. proc' = [proc EXCEPT ![w] = p] /\ call' = call /\ session' \in BOOLEAN
       /\ spent' \in [DOMAIN Bounds -> Nat]
    BY <1>5, SpentTyped DEF RecordFailure, ProcessesOK
  <2>3. ProcessesOK'
    <3> HIDE DEF p
    <3> QED BY <2>1, <2>2, OneProcess
  <2>4. queue' \in Seq(Jobs) /\ RedisOK'
    BY <1>5, <2>1 DEF RecordFailure, RedisOK, ProcessesOK, Process
  <2> QED BY <2>3, <2>4 DEF TypeOK
<1> QED BY <1>1, <1>2, <1>3, <1>4, <1>5 DEF Works

LEMMA StopsTyped == ASSUME TypeOK, NEW w \in Workers, Stops(w) PROVE TypeOK'
<1> USE WorkerAssumption
<1>0. queue \in Seq(Jobs) /\ RedisOK /\ ProcessesOK BY DEF TypeOK
<1> USE <1>0
<1>1. ASSUME WorkReturns(w) PROVE TypeOK'
  <2> DEFINE p == [proc[w] EXCEPT !.phase = "stopping"]
  <2>1. p \in Process /\ (p.job # Nobody <=> p.phase \in Holding)
    BY <1>1, ProcOf DEF WorkReturns, Process, RedisOK
  <2>2. proc' = [proc EXCEPT ![w] = p] /\ call' = call /\ session' \in BOOLEAN
       /\ spent' \in [DOMAIN Bounds -> Nat]
    BY <1>1, SpentTyped DEF WorkReturns, ProcessesOK
  <2>3. ProcessesOK'
    <3> HIDE DEF p
    <3> QED BY <2>1, <2>2, OneProcess
  <2>4. queue' \in Seq(Jobs) /\ RedisOK'
    BY <1>1, <2>1 DEF WorkReturns, RedisOK, ProcessesOK, Process
  <2> QED BY <2>3, <2>4 DEF TypeOK
<1>2. ASSUME Requeue(w) PROVE TypeOK'
  <2> DEFINE p == [proc[w] EXCEPT !.requeue = Nobody]
  <2>1. p \in Process /\ (p.job # Nobody <=> p.phase \in Holding)
    BY <1>2, ProcOf DEF Requeue, Process, RedisOK
  <2>2. proc' = [proc EXCEPT ![w] = p] /\ call' = call /\ session' \in BOOLEAN
       /\ spent' \in [DOMAIN Bounds -> Nat]
    BY <1>2, SpentTyped DEF Requeue, ProcessesOK
  <2>3. ProcessesOK'
    <3> HIDE DEF p
    <3> QED BY <2>1, <2>2, OneProcess
  <2>5. queue' \in Seq(Jobs) /\ status' \in [Jobs -> Status] /\ lost' \subseteq Jobs
    <3>1. proc[w].requeue \in Jobs \cup {Nobody} BY ProcOf DEF RedisOK, Process
    <3>2. CASE proc[w].requeue = Nobody BY <1>2, <3>2 DEF Requeue, RedisOK
    <3>3. CASE proc[w].requeue # Nobody
      BY <1>2, <3>1, <3>3, RequeueTyped DEF Requeue
    <3> QED BY <3>2, <3>3
  <2>4. queue' \in Seq(Jobs) /\ RedisOK'
    BY <1>2, <2>1, <2>5 DEF Requeue, RedisOK, ProcessesOK, Process
  <2> QED BY <2>3, <2>4 DEF TypeOK
<1>3. ASSUME Publish(w) PROVE TypeOK'
  <2> DEFINE p == [proc[w] EXCEPT !.phase = "closing"]
  <2>1. p \in Process /\ (p.job # Nobody <=> p.phase \in Holding)
    BY <1>3, ProcOf DEF Publish, Process, RedisOK
  <2>2. proc' = [proc EXCEPT ![w] = p] /\ call' = call /\ session' \in BOOLEAN
       /\ spent' \in [DOMAIN Bounds -> Nat]
    BY <1>3, SpentTyped DEF Publish, ProcessesOK
  <2>3. ProcessesOK'
    <3> HIDE DEF p
    <3> QED BY <2>1, <2>2, OneProcess
  <2>4. queue' \in Seq(Jobs) /\ RedisOK'
    BY <1>3, <2>1 DEF Publish, RedisOK, ProcessesOK, Process
  <2> QED BY <2>3, <2>4 DEF TypeOK
<1>4. ASSUME BrowserCloses(w) PROVE TypeOK'
  <2> DEFINE p == [proc[w] EXCEPT !.phase = "releasing"]
  <2>1. p \in Process /\ (p.job # Nobody <=> p.phase \in Holding)
    BY <1>4, ProcOf DEF BrowserCloses, Process, RedisOK
  <2>2. proc' = [proc EXCEPT ![w] = p] /\ call' = call /\ session' \in BOOLEAN
       /\ spent' \in [DOMAIN Bounds -> Nat]
    BY <1>4, SpentTyped DEF BrowserCloses, ProcessesOK
  <2>3. ProcessesOK'
    <3> HIDE DEF p
    <3> QED BY <2>1, <2>2, OneProcess
  <2>4. queue' \in Seq(Jobs) /\ RedisOK'
    BY <1>4, <2>1 DEF BrowserCloses, RedisOK, ProcessesOK, Process
  <2> QED BY <2>3, <2>4 DEF TypeOK
<1>5. ASSUME ReleaseReads(w) PROVE TypeOK'
  <2>1. CASE lock = w
    <3> DEFINE p == [proc[w] EXCEPT !.phase = "deleting"]
    <3>1. p \in Process /\ (p.job # Nobody <=> p.phase \in Holding)
      BY <1>5, <2>1, ProcOf DEF ReleaseReads, Process, RedisOK
    <3>2. proc' = [proc EXCEPT ![w] = p] /\ call' = call /\ session' \in BOOLEAN
         /\ spent' \in [DOMAIN Bounds -> Nat]
      BY <1>5, <2>1, SpentTyped DEF ReleaseReads, ProcessesOK
    <3>3. ProcessesOK'
      <4> HIDE DEF p
      <4> QED BY <3>1, <3>2, OneProcess
    <3>4. queue' \in Seq(Jobs) /\ RedisOK'
      BY <1>5, <2>1, <3>1 DEF ReleaseReads, RedisOK, ProcessesOK, Process
    <3> QED BY <3>3, <3>4 DEF TypeOK
  <2>2. CASE lock # w
    <3> DEFINE p == Stopped(IF proc[w].login THEN "parked" ELSE "down")
    <3>1. p \in Process /\ (p.job # Nobody <=> p.phase \in Holding)
      BY <1>5, <2>2, ProcOf DEF ReleaseReads, Process, RedisOK
    <3>2. proc' = [proc EXCEPT ![w] = p] /\ call' = call /\ session' \in BOOLEAN
         /\ spent' \in [DOMAIN Bounds -> Nat]
      BY <1>5, <2>2, SpentTyped DEF ReleaseReads, ProcessesOK
    <3>3. ProcessesOK'
      <4> HIDE DEF p
      <4> QED BY <3>1, <3>2, OneProcess
    <3>4. queue' \in Seq(Jobs) /\ RedisOK'
      BY <1>5, <2>2, <3>1 DEF ReleaseReads, RedisOK, ProcessesOK, Process
    <3> QED BY <3>3, <3>4 DEF TypeOK
  <2> QED BY <2>1, <2>2
<1>6. ASSUME ReleaseDeletes(w) PROVE TypeOK'
  BY <1>6 DEF ReleaseDeletes, RedisOK, ProcessesOK, Process, TypeOK
<1> QED BY <1>1, <1>2, <1>3, <1>4, <1>5, <1>6 DEF Stops

LEMMA HeartbeatTyped == ASSUME TypeOK, NEW w \in Workers, Heartbeat(w) PROVE TypeOK'
<1> USE WorkerAssumption
<1>0. queue \in Seq(Jobs) /\ RedisOK /\ ProcessesOK BY DEF TypeOK
<1> USE <1>0
<1>1. ASSUME Heartbeat(w) PROVE TypeOK'
  <2>1. CASE lock = Nobody
    <3> DEFINE p == proc[w]
    <3>1. p \in Process /\ (p.job # Nobody <=> p.phase \in Holding)
      BY <1>1, <2>1, ProcOf DEF Heartbeat, Process, RedisOK
    <3>2. proc' = [proc EXCEPT ![w] = p] /\ call' = call /\ session' \in BOOLEAN
         /\ spent' \in [DOMAIN Bounds -> Nat]
      BY <1>1, <2>1, SpentTyped DEF Heartbeat, ProcessesOK
    <3>3. ProcessesOK'
      <4> HIDE DEF p
      <4> QED BY <3>1, <3>2, OneProcess
    <3>4. queue' \in Seq(Jobs) /\ RedisOK'
      BY <1>1, <2>1, <3>1 DEF Heartbeat, RedisOK, ProcessesOK, Process
    <3> QED BY <3>3, <3>4 DEF TypeOK
  <2>2. CASE lock # Nobody
    <3> DEFINE p == [proc[w] EXCEPT !.asked = TRUE]
    <3>1. p \in Process /\ (p.job # Nobody <=> p.phase \in Holding)
      BY <1>1, <2>2, ProcOf DEF Heartbeat, Process, RedisOK
    <3>2. proc' = [proc EXCEPT ![w] = p] /\ call' = call /\ session' \in BOOLEAN
         /\ spent' \in [DOMAIN Bounds -> Nat]
      BY <1>1, <2>2, SpentTyped DEF Heartbeat, ProcessesOK
    <3>3. ProcessesOK'
      <4> HIDE DEF p
      <4> QED BY <3>1, <3>2, OneProcess
    <3>4. queue' \in Seq(Jobs) /\ RedisOK'
      BY <1>1, <2>2, <3>1 DEF Heartbeat, RedisOK, ProcessesOK, Process
    <3> QED BY <3>3, <3>4 DEF TypeOK
  <2> QED BY <2>1, <2>2
<1> QED BY <1>1

LEMMA TypeStep == TypeOK /\ [Next]_vars => TypeOK'
<1> SUFFICES ASSUME TypeOK, [Next]_vars PROVE TypeOK' OBVIOUS
<1>1. CASE UNCHANGED vars
  BY <1>1 DEF vars, TypeOK, RedisOK, ProcessesOK
<1> QED
  BY <1>1, HeartbeatTyped, EnqueueTyped, EnvironmentTyped, StartsTyped, WorksTyped, StopsTyped
  DEF Next

\* Types, and a process holds a job in exactly the phases that need one: for every
\* lapse of the lease, failed call, death and duplicate on the queue.
THEOREM TypeCorrect == Spec => []TypeOK
<1>1. Init => TypeOK
  BY InitHolds DEF Init, IInv, TypeOK
<1> QED BY <1>1, TypeStep, PTL DEF Spec

-----------------------------------------------------------------------------
\* The inductive invariant, for every steady behaviour.
LEMMA Invariance == ASSUME Steady PROVE Spec => []IInv
<1>1. IInv /\ [Next]_vars => IInv'
  BY StepHolds
<1> QED BY <1>1, InitHolds, PTL DEF Spec

\* What one browser rests on: a lease that never lapsed under its holder.
LeaseInv == TypeOK /\ spent.stalls = 0 /\ LiveHoldsLease

LEMMA LeaseStep ==
  ASSUME MaxStalls = 0, LeaseInv, [Next]_vars PROVE LeaseInv'
<1> USE DEF LeaseInv, LiveHoldsLease
<1>1. TypeOK'
  BY TypeStep
<1>2. lock \in Workers \cup {Nobody} /\ proc \in [Workers -> Process]
      /\ spent \in [DOMAIN Bounds -> Nat] /\ Nobody \notin Workers
  BY WorkerAssumption DEF TypeOK, RedisOK, ProcessesOK
<1>3. ~Spend("stalls") /\ (\A kind \in {"deaths", "blips", "visits"} : Spend(kind) => spent'.stalls = 0)
  BY <1>2
<1>4. CASE UNCHANGED <<lock, proc, spent>>
  BY <1>1, <1>4
<1>5. ASSUME NEW c \in Clients, Enqueue(c) PROVE LeaseInv'
  BY <1>4, <1>5 DEF Enqueue, EnqueueLooksUp, EnqueueDeletes, EnqueuePushes
<1>6. CASE Environment
  BY <1>1, <1>2, <1>3, <1>6
  DEF Environment, LeaseExpires, LeaseStarves, SessionEnds, ResultExpires, Abandon, Login,
      AskToStop, Die, Process
<1>7. ASSUME NEW w \in Workers, Starts(w) PROVE LeaseInv'
  BY <1>1, <1>2, <1>3, <1>7
  DEF Starts, Acquire, Authenticate, SessionMissing, StartGivenUp, Drain, DrainFails, Process
<1>8. ASSUME NEW w \in Workers, Works(w) PROVE LeaseInv'
  BY <1>1, <1>2, <1>3, <1>8
  DEF Works, Take, Execute, Ends, SessionLost, RecordFailure, Process
<1>9. ASSUME NEW w \in Workers, Stops(w) PROVE LeaseInv'
  BY <1>1, <1>2, <1>3, <1>9
  DEF Stops, WorkReturns, Requeue, Publish, BrowserCloses, ReleaseReads, ReleaseDeletes, Process
<1>10. ASSUME NEW w \in Workers, Heartbeat(w) PROVE LeaseInv'
  BY <1>1, <1>2, <1>10 DEF Heartbeat, Process
<1> QED BY <1>4, <1>5, <1>6, <1>7, <1>8, <1>9, <1>10 DEF Next, vars

\* One browser at a time: whatever processes start, stop and die, and whichever
\* Redis calls fail, two never drive the shared WebCargo profile, unless a lease
\* lapses under its holder (WorkerLock and run_worker's finally clause).
THEOREM OneBrowserAtATime == ASSUME MaxStalls = 0 PROVE Spec => []OneBrowser
<1>1. Init => LeaseInv
  BY InitHolds DEF Init, IInv, TypeOK, LeaseInv, Unspent
<1>2. LeaseInv /\ [Next]_vars => LeaseInv'
  BY LeaseStep
<1>3. LeaseInv => OneBrowser
  BY Alone DEF LeaseInv, OneBrowser, TypeOK
<1> QED BY <1>1, <1>2, <1>3, PTL DEF Spec

\* A search the worker recorded as failed for want of a session is remembered
\* until it is back on the queue (_on_job_exception, _drain_pending_requeue).
THEOREM LossRemembered == ASSUME Steady PROVE Spec => []RecordedLossIsRemembered
<1>1. IInv => RecordedLossIsRemembered
  BY DEF IInv
<1> QED BY <1>1, Invariance, PTL

\* The recovery never runs a search again that failed on its own account.
THEOREM OnlyLostRequeued == ASSUME Steady PROVE Spec => []OnlyLostSearchesAreRequeued
<1>1. IInv => OnlyLostSearchesAreRequeued
  BY DEF IInv
<1> QED BY <1>1, Invariance, PTL

\* What the note rests on: calls that publish it or clear it do not fail.
NoteInv == TypeOK /\ spent.blips = 0 /\ NoteFollows

\* A worker that goes on working needs no note.
LEMMA WorkerNeedsNoNote ==
  ASSUME proc \in [Workers -> Process], NoteFollows, NEW w \in Workers, NEW p \in Process,
         proc' = [proc EXCEPT ![w] = p], p.phase \notin {"parked"} \cup Leaving,
         p.login => p.phase \in Requeueing
  PROVE  NoteFollows'
BY DEF NoteFollows

LEMMA NoteStep ==
  ASSUME MaxBlips = 0, NoteInv, [Next]_vars PROVE NoteInv'
<1> USE DEF NoteInv, NoteFollows
<1>1. TypeOK'
  BY TypeStep
<1>2. proc \in [Workers -> Process] /\ spent \in [DOMAIN Bounds -> Nat] /\ note \in BOOLEAN
  BY DEF TypeOK, RedisOK, ProcessesOK
<1>3. ~Spend("blips") /\ (\A kind \in {"deaths", "stalls", "visits"} : Spend(kind) => spent'.blips = 0)
  BY <1>2
<1>4. CASE UNCHANGED <<note, proc, spent>>
  BY <1>1, <1>4
<1>5. ASSUME NEW c \in Clients, Enqueue(c) PROVE NoteInv'
  BY <1>4, <1>5 DEF Enqueue, EnqueueLooksUp, EnqueueDeletes, EnqueuePushes
<1>6. CASE Environment
  BY <1>1, <1>2, <1>3, <1>6
  DEF Environment, LeaseExpires, LeaseStarves, SessionEnds, ResultExpires, Abandon, Login,
      AskToStop, Die, Process
<1>7. ASSUME NEW w \in Workers, Starts(w) PROVE NoteInv'
  <2>1. CASE Acquire(w) \/ StartGivenUp(w)
    BY <1>1, <1>2, <1>3, <2>1 DEF Acquire, StartGivenUp, Process
  <2>2. CASE Authenticate(w)
    BY <1>1, <1>2, <1>3, <2>2 DEF Authenticate, Process
  <2>3. CASE SessionMissing(w)
    BY <1>1, <1>2, <1>3, <2>3 DEF SessionMissing, Process
  <2>4. CASE Drain(w) \/ DrainFails(w)
    BY <1>1, <1>2, <1>3, <2>4 DEF Drain, DrainFails, Process
  <2> QED BY <1>7, <2>1, <2>2, <2>3, <2>4 DEF Starts
<1>8. ASSUME NEW w \in Workers, Works(w) PROVE NoteInv'
  <2>1. ASSUME NEW j \in Jobs, Take(w, j) PROVE NoteInv'
    <3>1. CASE status[j] = "none"
      BY <1>1, <1>4, <2>1, <3>1 DEF Take
    <3>2. CASE status[j] # "none"
      <4> DEFINE p == [proc[w] EXCEPT !.phase = "taken", !.job = j]
      <4>1. proc' = [proc EXCEPT ![w] = p] /\ spent' = spent /\ At(w, "idle")
        BY <2>1, <3>2 DEF Take
      <4>2. p \in Process /\ p.phase = "taken" /\ ~p.login
        BY <1>2, <4>1 DEF Process
      <4> HIDE DEF p
      <4> QED BY <1>1, <1>2, <4>1, <4>2, WorkerNeedsNoNote
    <3> QED BY <3>1, <3>2
  <2>2. CASE Execute(w)
    <3>1. At(w, "taken") /\ ~proc[w].login /\ proc[w] \in Process /\ spent' = spent
      BY <1>2, <2>2 DEF Execute
    <3>2. CASE lock \in {w, Nobody}
      <4> DEFINE p == [proc[w] EXCEPT !.phase = "running"]
      <4>1. proc' = [proc EXCEPT ![w] = p]
        BY <2>2, <3>2 DEF Execute
      <4>2. p \in Process /\ p.phase = "running" /\ ~p.login
        BY <3>1 DEF Process
      <4> HIDE DEF p
      <4> QED BY <1>1, <1>2, <3>1, <4>1, <4>2, WorkerNeedsNoNote
    <3>3. CASE lock \notin {w, Nobody}
      <4> DEFINE p == [proc[w] EXCEPT !.phase = "stopping", !.job = Nobody]
      <4>1. proc' = [proc EXCEPT ![w] = p]
        BY <2>2, <3>3 DEF Execute
      <4>2. p \in Process /\ p.phase = "stopping" /\ ~p.login
        BY <3>1 DEF Process
      <4> HIDE DEF p
      <4> QED BY <1>1, <1>2, <3>1, <4>1, <4>2, WorkerNeedsNoNote
    <3> QED BY <3>2, <3>3
  <2>3. ASSUME NEW result \in {"finished", "failed"}, Ends(w, result) PROVE NoteInv'
    BY <1>1, <1>2, <1>3, <2>3 DEF Ends, Process
  <2>4. CASE SessionLost(w)
    BY <1>1, <1>2, <1>3, <2>4 DEF SessionLost, Process
  <2>5. CASE RecordFailure(w)
    BY <1>1, <1>2, <1>3, <2>5 DEF RecordFailure, Process
  <2> QED BY <1>8, <2>1, <2>2, <2>3, <2>4, <2>5 DEF Works
<1>9. ASSUME NEW w \in Workers, Stops(w) PROVE NoteInv'
  BY <1>1, <1>2, <1>3, <1>9
  DEF Stops, WorkReturns, Requeue, Publish, BrowserCloses, ReleaseReads, ReleaseDeletes, Process
<1>10. ASSUME NEW w \in Workers, Heartbeat(w) PROVE NoteInv'
  BY <1>1, <1>2, <1>10 DEF Heartbeat, Process
<1> QED BY <1>4, <1>5, <1>6, <1>7, <1>8, <1>9, <1>10 DEF Next, vars

\* When every worker waits for a sign-in, the note says so, whatever lapses and
\* dies (publish_worker_needs_login, clear_worker_status).
THEOREM SignInAskedFor == ASSUME MaxBlips = 0 PROVE Spec => []SignInIsAskedFor
<1>1. Init => NoteInv
  BY InitHolds DEF Init, IInv, TypeOK, NoteInv, Unspent
<1>2. NoteInv /\ [Next]_vars => NoteInv'
  BY NoteStep
<1>3. NoteInv => SignInIsAskedFor
  BY DEF NoteInv, NoteFollows, SignInIsAskedFor
<1> QED BY <1>1, <1>2, <1>3, PTL DEF Spec
=============================================================================
