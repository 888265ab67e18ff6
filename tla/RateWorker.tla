----------------------------- MODULE RateWorker -----------------------------
(***************************************************************************)
(* The rate-search queue and the worker processes that serve it:            *)
(* interface/jobs/queue.py and interface/worker/main.py.                     *)
(*                                                                          *)
(* A job is named by the digest of its request, so a search asked for twice *)
(* is one job.  A worker owns a Redis lease, a browser, and at most one job *)
(* at a time; the steps between which it can die, or lose the lease, are    *)
(* actions.  A refresh that finds the worker's own token only lengthens the *)
(* lease, which lapses when an action says so.  RQ itself (the queue, the    *)
(* failed registry, warm shutdown) is external, as main.py relies on it.     *)
(***************************************************************************)
EXTENDS SequencesExt

CONSTANTS Workers,    \* process slots, each with a token of its own
          Jobs,       \* job ids (RateSearchJobRequest.idempotency_key)
          Clients,    \* callers of enqueue_rate_search: the desk, the HTTP API
          Nobody,     \* no worker, no job
          MaxQueue,   \* bound: entries in the queue before another is pushed
          MaxStalls,  \* bound: leases that lapse under a live worker
          MaxDeaths,  \* bound: processes killed
          MaxBlips,   \* bound: best-effort Redis calls that fail
          MaxVisits   \* bound: stops asked for, starts with WebCargo unreachable

ASSUME WorkerAssumption ==
    /\ Workers # {} /\ Nobody \notin Workers \cup Jobs
    /\ {MaxQueue, MaxStalls, MaxDeaths, MaxBlips, MaxVisits} \subseteq Nat

VARIABLES
    status,   \* job -> its state in Redis, "none" when Redis has no such job
    queue,    \* ids waiting, the next one first
    lost,     \* history: the jobs whose last run lost the WebCargo session
    pending,  \* the pending-requeue record
    note,     \* the published "needs_login" note
    lock,     \* whose token the lease holds
    proc,     \* worker -> its process
    call,     \* client -> the enqueue it is in the middle of
    session,  \* whether the shared profile is signed in to WebCargo
    spent     \* how much of each bound is used

jobs == <<status, queue, lost>>
records == <<pending, note>>
vars == <<jobs, records, lock, proc, call, session, spent>>

\* "failed": recorded by the worker that ran it; "abandoned": by RQ's clean-up,
\* its worker being gone. A client is shown FAILED for both.
Failed == {"failed", "abandoned"}
Status == {"none", "queued", "started", "finished"} \cup Failed

\* No process is down or parked (exit 78: only a person starts it again).
Holding == {"taken", "running", "unwinding"}
Beating == {"starting", "ready", "idle", "stopping"} \cup Holding
Driving == Beating \cup {"closing"}
Live == Driving \cup {"releasing", "deleting"}

\* phase, the job taken, session_lost["requeue"], whether it is told to stop,
\* and session_lost["needs_login"].
Stopped(phase) ==
    [phase |-> phase, job |-> Nobody, requeue |-> Nobody, asked |-> FALSE, login |-> FALSE]

At(w, phase) == proc[w].phase = phase
Put(w, p) == proc' = [proc EXCEPT ![w] = p]
Goto(w, phase) == proc' = [proc EXCEPT ![w].phase = phase]

Waiting == [job |-> Nobody, step |-> "none"]

Bounds == [stalls |-> MaxStalls, deaths |-> MaxDeaths, blips |-> MaxBlips, visits |-> MaxVisits]
Spend(kind) == spent[kind] < Bounds[kind] /\ spent' = [spent EXCEPT ![kind] = @ + 1]

Init ==
    /\ status = [j \in Jobs |-> "none"] /\ queue = <<>> /\ lost = {}
    /\ pending = Nobody /\ note = FALSE /\ lock = Nobody
    /\ proc = [w \in Workers |-> Stopped("down")]
    /\ call = [c \in Clients |-> Waiting]
    /\ session = TRUE
    /\ spent = [kind \in DOMAIN Bounds |-> 0]

Mark(j, s) == status' = [status EXCEPT ![j] = s]

-----------------------------------------------------------------------------
(* enqueue_rate_search, one Redis command at a time.                         *)

\* The job is looked up; a live or finished one is joined, and that is all.
EnqueueLooksUp(c, j) ==
    /\ call[c] = Waiting
    /\ status[j] \in {"none"} \cup Failed
    /\ call' = [call EXCEPT ![c] =
          [job |-> j, step |-> IF status[j] = "none" THEN "push" ELSE "delete"]]
    /\ UNCHANGED <<jobs, records, lock, proc, session, spent>>

\* A failed run is deleted, from the registry and, at one place, the queue as well.
EnqueueDeletes(c) ==
    LET j == call[c].job IN
    /\ call[c].step = "delete"
    /\ call' = [call EXCEPT ![c].step = "push"]
    /\ Mark(j, "none") /\ queue' = RemoveFirst(queue, j)
    /\ UNCHANGED <<lost, records, lock, proc, session, spent>>

EnqueuePushes(c) ==
    /\ call[c].step = "push" /\ Len(queue) < MaxQueue
    /\ call' = [call EXCEPT ![c] = Waiting]
    /\ Mark(call[c].job, "queued") /\ queue' = Append(queue, call[c].job)
    /\ UNCHANGED <<lost, records, lock, proc, session, spent>>

\* What Redis keeps of a finished or failed job outlives its TTL.
ResultExpires(j) ==
    /\ status[j] \in {"finished"} \cup Failed
    /\ Mark(j, "none")
    /\ UNCHANGED <<queue, lost, records, lock, proc, call, session, spent>>

\* RQ's clean-up: a started job whose worker is gone is recorded as failed.
Abandon(j) ==
    /\ status[j] = "started"
    /\ \A w \in Workers : proc[w].job # j
    /\ \E w \in Workers : At(w, "idle")
    /\ Mark(j, "abandoned")
    /\ UNCHANGED <<queue, lost, records, lock, proc, call, session, spent>>

\* FailedJobRegistry.requeue(at_front=True): an error unless the job is there.
RequeueAtFront(j) ==
    IF status[j] \in Failed
    THEN Mark(j, "queued") /\ queue' = <<j>> \o queue /\ UNCHANGED lost
    ELSE UNCHANGED jobs

-----------------------------------------------------------------------------
(* The single-worker lease.                                                   *)

\* Mutant: a plain SET, so a second worker does not refuse.
MutAcquire(w) ==
    /\ At(w, "down")
    /\ lock' = w
    /\ Goto(w, "starting")
    /\ UNCHANGED <<jobs, records, call, session, spent>>

\* SET NX: a process that is refused the lease exits at once.
Acquire(w) ==
    /\ At(w, "down") /\ lock = Nobody
    /\ lock' = w
    /\ Goto(w, "starting")
    /\ UNCHANGED <<jobs, records, call, session, spent>>

\* A person starts a parked worker with --login and signs in.
Login(w) ==
    /\ At(w, "parked") /\ lock = Nobody
    /\ lock' = w
    /\ session' = TRUE
    /\ Goto(w, "starting")
    /\ UNCHANGED <<jobs, records, call, spent>>

\* The heartbeat: a lapsed lease is taken back with the same token, another
\* worker's token stops this one, warmly.
Heartbeat(w) ==
    /\ proc[w].phase \in Beating /\ lock # w
    /\ IF lock = Nobody
       THEN lock' = w /\ UNCHANGED proc
       ELSE proc' = [proc EXCEPT ![w].asked = TRUE] /\ UNCHANGED lock
    /\ UNCHANGED <<jobs, records, call, session, spent>>

\* Mutant: the lease is set without an expiry.
MutLeaseExpires == UNCHANGED vars

\* A dead holder's lease lapses.
LeaseExpires ==
    /\ lock # Nobody /\ proc[lock].phase \notin Live
    /\ lock' = Nobody
    /\ UNCHANGED <<jobs, records, proc, call, session, spent>>

\* A live holder's does only if for a whole TTL it cannot be refreshed: an
\* outage, a suspended host, a browser that will not close.
LeaseStarves ==
    /\ lock # Nobody /\ proc[lock].phase \in Live /\ Spend("stalls")
    /\ lock' = Nobody
    /\ UNCHANGED <<jobs, records, proc, call, session>>

-----------------------------------------------------------------------------
(* run_worker, from the lease to the queue.                                   *)

\* The session is live: the note is cleared, the pending record is read next.
Authenticate(w) ==
    /\ At(w, "starting") /\ session
    /\ \/ note' = FALSE /\ UNCHANGED spent
       \/ UNCHANGED note /\ Spend("blips")
    /\ Goto(w, "ready")
    /\ UNCHANGED <<jobs, pending, lock, call, session>>

\* WebCargo shows its login page: publish, leave with exit code 78.
SessionMissing(w) ==
    /\ At(w, "starting") /\ ~session
    /\ \/ note' = TRUE /\ UNCHANGED spent
       \/ UNCHANGED note /\ Spend("blips")
    /\ Put(w, [proc[w] EXCEPT !.phase = "closing", !.login = TRUE])
    /\ UNCHANGED <<jobs, pending, lock, call, session>>

\* WebCargo cannot be reached (exit 75), or the stop comes before work().
StartGivenUp(w) ==
    /\ \/ At(w, "starting") /\ Spend("visits")
       \/ proc[w].phase \in {"starting", "ready"} /\ proc[w].asked /\ UNCHANGED spent
    /\ Goto(w, "closing")
    /\ UNCHANGED <<jobs, records, lock, call, session>>

\* Mutant: the record is kept once it is handled.
MutDrain(w) ==
    /\ At(w, "ready")
    /\ Goto(w, "idle")
    /\ IF pending = Nobody THEN UNCHANGED jobs ELSE RequeueAtFront(pending)
    /\ UNCHANGED <<records, lock, call, session, spent>>

\* _drain_pending_requeue, before any job is taken.
Drain(w) ==
    /\ At(w, "ready")
    /\ Goto(w, "idle")
    /\ IF pending = Nobody THEN UNCHANGED jobs ELSE RequeueAtFront(pending)
    /\ pending' = Nobody
    /\ UNCHANGED <<note, lock, call, session, spent>>

\* Redis fails it: the record stays, the job requeued or not.
DrainFails(w) ==
    /\ At(w, "ready") /\ pending # Nobody /\ Spend("blips")
    /\ Goto(w, "idle")
    /\ RequeueAtFront(pending) \/ UNCHANGED jobs
    /\ UNCHANGED <<records, lock, call, session>>

-----------------------------------------------------------------------------
(* SimpleWorker.work, one job at a time.                                      *)

\* The next id is popped; one whose job is gone is dropped.
Take(w, j) ==
    /\ At(w, "idle") /\ ~proc[w].asked
    /\ queue # <<>> /\ j = Head(queue)
    /\ queue' = Tail(queue)
    /\ IF status[j] = "none"
       THEN UNCHANGED <<status, lost, proc>>
       ELSE /\ Mark(j, "started") /\ lost' = lost \ {j}
            /\ Put(w, [proc[w] EXCEPT !.phase = "taken", !.job = j])
    /\ UNCHANGED <<records, lock, call, session, spent>>

\* execute_job refreshes the lease first; another holder ends the loop.
Execute(w) ==
    /\ At(w, "taken")
    /\ IF lock \in {w, Nobody}
       THEN lock' = w /\ Goto(w, "running")
       ELSE Put(w, [proc[w] EXCEPT !.phase = "stopping", !.job = Nobody]) /\ UNCHANGED lock
    /\ UNCHANGED <<jobs, records, call, session, spent>>

\* Mutant: the worker forgets to let go of the job it has finished.
MutEnds(w, result) ==
    /\ At(w, "running")
    /\ Mark(proc[w].job, result)
    /\ Goto(w, "idle")
    /\ UNCHANGED <<queue, lost, records, lock, call, session, spent>>

\* The search ends with rates, or with a failure of its own.
Ends(w, result) ==
    /\ At(w, "running")
    /\ result = "finished" => session
    /\ Mark(proc[w].job, result)
    /\ Put(w, [proc[w] EXCEPT !.phase = "idle", !.job = Nobody])
    /\ UNCHANGED <<queue, lost, records, lock, call, session, spent>>

\* Mutant: the job is remembered in the process only.
MutSessionLost(w) ==
    /\ At(w, "running") /\ ~session
    /\ lost' = lost \cup {proc[w].job}
    /\ Put(w, [proc[w] EXCEPT !.phase = "unwinding", !.requeue = proc[w].job,
                              !.asked = TRUE, !.login = TRUE])
    /\ UNCHANGED <<status, queue, records, lock, call, session, spent>>

\* The handler of WebCargoSessionLost remembers the job here and in Redis.
SessionLost(w) ==
    /\ At(w, "running") /\ ~session
    /\ \/ pending' = proc[w].job /\ UNCHANGED spent
       \/ UNCHANGED pending /\ Spend("blips")
    /\ lost' = lost \cup {proc[w].job}
    /\ Put(w, [proc[w] EXCEPT !.phase = "unwinding", !.requeue = proc[w].job,
                              !.asked = TRUE, !.login = TRUE])
    /\ UNCHANGED <<status, queue, note, lock, call, session>>

\* RQ records the failure after the handler, whatever that did.
RecordFailure(w) ==
    /\ At(w, "unwinding")
    /\ Mark(proc[w].job, "failed")
    /\ Put(w, [proc[w] EXCEPT !.phase = "stopping", !.job = Nobody])
    /\ UNCHANGED <<queue, lost, records, lock, call, session, spent>>

-----------------------------------------------------------------------------
(* Stopping: warmly, so a job that is running is finished first.              *)

\* SIGTERM of a redeploy, or the operator's.
AskToStop(w) ==
    /\ proc[w].phase \in Beating /\ ~proc[w].asked /\ Spend("visits")
    /\ proc' = [proc EXCEPT ![w].asked = TRUE]
    /\ UNCHANGED <<jobs, records, lock, call, session>>

WorkReturns(w) ==
    /\ At(w, "idle") /\ proc[w].asked
    /\ Goto(w, "stopping")
    /\ UNCHANGED <<jobs, records, lock, call, session, spent>>

\* After work(): the job whose session was lost goes back to the front.
Requeue(w) ==
    /\ At(w, "stopping") /\ proc[w].requeue # Nobody
    /\ \/ RequeueAtFront(proc[w].requeue) /\ UNCHANGED spent
       \/ UNCHANGED jobs /\ Spend("blips")
    /\ proc' = [proc EXCEPT ![w].requeue = Nobody]
    /\ UNCHANGED <<records, lock, call, session>>

\* Mutant: a session lost in a job is not published.
MutPublish(w) ==
    /\ At(w, "stopping") /\ proc[w].requeue = Nobody
    /\ Goto(w, "closing")
    /\ UNCHANGED <<jobs, records, lock, call, session, spent>>

\* The note is published; the heartbeat stops, the browser begins to close.
Publish(w) ==
    /\ At(w, "stopping") /\ proc[w].requeue = Nobody
    /\ \/ note' = (note \/ proc[w].login) /\ UNCHANGED spent
       \/ proc[w].login /\ UNCHANGED note /\ Spend("blips")
    /\ Goto(w, "closing")
    /\ UNCHANGED <<jobs, pending, lock, call, session>>

BrowserCloses(w) ==
    /\ At(w, "closing")
    /\ Goto(w, "releasing")
    /\ UNCHANGED <<jobs, records, lock, call, session, spent>>

Exit(w) == Put(w, Stopped(IF proc[w].login THEN "parked" ELSE "down"))

\* WorkerLock.release reads the token, then deletes the key.
ReleaseReads(w) ==
    /\ At(w, "releasing")
    /\ IF lock = w THEN Goto(w, "deleting") ELSE Exit(w)
    /\ UNCHANGED <<jobs, records, lock, call, session, spent>>

ReleaseDeletes(w) ==
    /\ At(w, "deleting")
    /\ lock' = Nobody
    /\ Exit(w)
    /\ UNCHANGED <<jobs, records, call, session, spent>>

\* A hard death anywhere; the lease and the records stay as they are.
Die(w) ==
    /\ proc[w].phase \in Live /\ Spend("deaths")
    /\ Put(w, Stopped("down"))
    /\ UNCHANGED <<jobs, records, lock, call, session>>

\* WebCargo ends the session of the shared profile.
SessionEnds ==
    /\ session /\ session' = FALSE
    /\ UNCHANGED <<jobs, records, lock, proc, call, spent>>

-----------------------------------------------------------------------------
Enqueue(c) ==
    \/ \E j \in Jobs : EnqueueLooksUp(c, j)
    \/ EnqueueDeletes(c)
    \/ EnqueuePushes(c)

Starts(w) ==
    \/ Acquire(w)
    \/ Authenticate(w)
    \/ SessionMissing(w)
    \/ StartGivenUp(w)
    \/ Drain(w)
    \/ DrainFails(w)

Works(w) ==
    \/ \E j \in Jobs : Take(w, j)
    \/ Execute(w)
    \/ \E result \in {"finished", "failed"} : Ends(w, result)
    \/ SessionLost(w)
    \/ RecordFailure(w)

Stops(w) ==
    \/ WorkReturns(w)
    \/ Requeue(w)
    \/ Publish(w)
    \/ BrowserCloses(w)
    \/ ReleaseReads(w)
    \/ ReleaseDeletes(w)

Environment ==
    \/ LeaseExpires
    \/ LeaseStarves
    \/ SessionEnds
    \/ \E j \in Jobs : ResultExpires(j) \/ Abandon(j)
    \/ \E w \in Workers : Login(w) \/ AskToStop(w) \/ Die(w)

Next ==
    \/ Environment
    \/ \E c \in Clients : Enqueue(c)
    \/ \E w \in Workers : Starts(w) \/ Works(w) \/ Stops(w) \/ Heartbeat(w)

Spec == Init /\ [][Next]_vars

\* A process that is not parked is restarted (Restart=always), keeps taking its
\* steps, and its search ends by job_timeout; RQ cleans up between two jobs, however
\* many there are (hence SF); an expired lease is gone. Nothing is assumed of
\* callers, of the operator or of WebCargo.
Fairness ==
    /\ \A w \in Workers :
          /\ WF_vars(Starts(w)) /\ WF_vars(Works(w)) /\ WF_vars(Stops(w))
          /\ WF_vars(Heartbeat(w))
    /\ \A j \in Jobs : SF_vars(Abandon(j))
    /\ WF_vars(LeaseExpires)

FairSpec == Spec /\ Fairness
-----------------------------------------------------------------------------
(* Properties.                                                               *)

Process ==
    [phase : {"down", "parked"} \cup Live, job : Jobs \cup {Nobody},
     requeue : Jobs \cup {Nobody}, asked : BOOLEAN, login : BOOLEAN]

RedisOK ==
    /\ status \in [Jobs -> Status] /\ lost \subseteq Jobs
    /\ pending \in Jobs \cup {Nobody} /\ note \in BOOLEAN
    /\ lock \in Workers \cup {Nobody}

ProcessesOK ==
    /\ proc \in [Workers -> Process]
    /\ \A w \in Workers : proc[w].job # Nobody <=> proc[w].phase \in Holding
    /\ call \in [Clients -> [job : Jobs \cup {Nobody}, step : {"none", "delete", "push"}]]
    /\ \A c \in Clients : call[c].step # "none" => call[c].job # Nobody
    /\ session \in BOOLEAN
    /\ spent \in [DOMAIN Bounds -> Nat]

\* Types; and a process holds a job in exactly the phases that need one.
TypeOK == queue \in Seq(Jobs) /\ RedisOK /\ ProcessesOK

\* The one-browser-worker guarantee: through every order of starts, stops and
\* deaths, one process at a time drives the shared WebCargo profile.
OneBrowser ==
    \A v, w \in Workers :
        proc[v].phase \in Driving /\ proc[w].phase \in Driving => v = w

\* A job the worker recorded as failed because the session was lost is on its
\* way back to the queue, even if that worker dies before it can do it.
RecordedLossIsRemembered ==
    \A j \in lost :
        status[j] = "failed" =>
            pending = j \/ \E w \in Workers : proc[w].requeue = j

\* A job that failed on its own account is not run again by the recovery: what
\* the records name has failed for want of a session, or has not failed.
OnlyLostSearchesAreRequeued ==
    \A j \in Jobs :
        status[j] = "failed" /\ (pending = j \/ \E w \in Workers : proc[w].requeue = j)
            => j \in lost

\* With every worker parked for want of a sign-in, the dashboard says so.
SignInIsAskedFor ==
    (\A w \in Workers : At(w, "parked")) => note

\* No search waits for ever: it is answered, or some worker waits for a person
\* to sign in. A lease nobody refreshes does not wedge the queue.
NoSearchHangs ==
    \A j \in Jobs :
        status[j] \in {"queued", "started"} ~>
            \/ status[j] \notin {"queued", "started"}
            \/ \E w \in Workers : At(w, "parked")

(* Claims of the code's own comments that it does not live up to.            *)

\* "even a hard death before the normal after-work() requeue cannot strand the
\* job permanently FAILED".
LostSearchIsNeverStranded ==
    \A j \in lost :
        status[j] \in Failed =>
            pending = j \/ \E w \in Workers : proc[w].requeue = j

=============================================================================
