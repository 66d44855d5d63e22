---------------------------- MODULE JobExecution ----------------------------
(***************************************************************************)
(* How one job of queue_job gets executed: the row of the job in the table *)
(* queue_job, its row in queue_job_lock, the runner that marks jobs as     *)
(* enqueued and asks for them over HTTP (jobrunner/runner.py), and the     *)
(* Odoo workers that serve those requests (controllers/main.py).           *)
(*                                                                         *)
(* All of them share only the database.  A worker runs in REPEATABLE READ: *)
(* it may write the row of its job only if nobody wrote it since its       *)
(* snapshot.  The runner's connection is in autocommit (READ COMMITTED).   *)
(* "SKIP LOCKED" never waits; a plain UPDATE waits for the row lock.       *)
(*                                                                         *)
(* Dependencies between jobs are in JobDependencies; channels, which decide *)
(* which pending job runs next, are in Channels.                           *)
(***************************************************************************)
EXTENDS Integers

CONSTANTS
  Jobs,         \* the jobs, identified by their uuid
  Workers,      \* HTTP threads or processes that can perform a job
  AllowCommit,  \* jobs whose function may commit on its own ("allow_commit")
  MaxRetries,   \* max_retries of every job; 0 means retry for ever
  Conflicts,    \* whether PostgreSQL may abort a performing worker (40001...)
  MaxFaults,    \* bound: deaths, conflicts, lost requests, ignored retries
  MaxClicks,    \* bound: actions of users on jobs
  MaxRequests,  \* bound: HTTP requests under way for one job
  RetryCap      \* bound: a job retried more often is not enqueued again

Nobody == "nobody"
Runner == "runner"

ASSUME ConstantsAssumption ==
  /\ Nobody \notin Workers /\ Runner \notin Workers
  /\ AllowCommit \subseteq Jobs
  /\ MaxRetries \in Nat
  /\ Conflicts \in BOOLEAN
  /\ MaxFaults \in Nat /\ MaxClicks \in Nat
  /\ MaxRequests \in Nat \ {0} /\ RetryCap \in Nat

VARIABLES
  \* committed columns of the row of the job
  state,        \* state
  retry,        \* retry, as stored
  aged,         \* date_enqueued lies more than 10 seconds back
  lockRow,      \* the jobs that have a row in queue_job_lock
  \* locks held by open transactions
  rowLock,      \* who holds the row of the job
  lockedBy,     \* who holds the row of queue_job_lock
  \* the runner's process
  seen,         \* what its channels think of the job
  notified,     \* jobs with an unread notification
  found,        \* dead jobs found by a requeue statement not yet committed
  \* the network and the workers
  requests,     \* HTTP requests under way, per job
  pc,           \* where each worker is in RunJobController.runjob
  on,           \* the job it is on
  attempt,      \* Job.retry in its memory
  stale,        \* the row of its job was written since its snapshot
  \* history and bounds
  effects,      \* times the job's work was committed since it was asked for
  faults, clicks

rowVars    == <<state, retry, aged, lockRow>>
lockVars   == <<rowLock, lockedBy>>
runnerVars == <<seen, notified, found>>
workerVars == <<pc, on, attempt>>
boundVars  == <<faults, clicks>>
vars == <<rowVars, lockVars, runnerVars, requests, workerVars, stale, effects,
          boundVars>>

States == {"pending", "enqueued", "started", "done", "cancelled", "failed"}
Phases == {"idle", "acquiring", "started", "performing", "ran", "rollback"}

\* Phases in which a worker holds the lock of its job.
Holding == {"performing", "ran", "rollback"}

\* job.py Job.__init__, stored by the process that delayed the job; the
\* notification of the INSERT has not been read.
Init ==
  /\ state = [j \in Jobs |-> "pending"]
  /\ retry = [j \in Jobs |-> 0]
  /\ aged = [j \in Jobs |-> FALSE]
  /\ lockRow = {}
  /\ rowLock = [j \in Jobs |-> Nobody]
  /\ lockedBy = [j \in Jobs |-> Nobody]
  /\ seen = [j \in Jobs |-> "none"]
  /\ notified = Jobs
  /\ found = {}
  /\ requests = [j \in Jobs |-> 0]
  /\ pc = [w \in Workers |-> "idle"]
  /\ on = [w \in Workers |-> Nobody]
  /\ attempt = [w \in Workers |-> 0]
  /\ stale = [w \in Workers |-> FALSE]
  /\ effects = [j \in Jobs |-> 0]
  /\ faults = 0 /\ clicks = 0

-----------------------------------------------------------------------------
(* Helpers                                                                 *)

\* A committed write of rows by `who`: the trigger notifies the runner, and
\* the snapshots other workers hold of these rows are out of date.
Write(js, who) ==
  /\ notified' = notified \cup js
  /\ stale' = [w \in Workers |->
       /\ w # who
       /\ stale[w] \/ (pc[w] \in {"performing", "ran"} /\ on[w] \in js)]

\* The handler of worker w is over.
Leave(w) ==
  /\ pc' = [pc EXCEPT ![w] = "idle"]
  /\ on' = [on EXCEPT ![w] = Nobody]
  /\ attempt' = [attempt EXCEPT ![w] = 0]

Fault == faults < MaxFaults /\ faults' = faults + 1

\* channels.py ChannelManager.notify, for one job in isolation
ViewOf(s) ==
  CASE s = "pending" -> "pending"
    [] s \in {"enqueued", "started"} -> "running"
    [] OTHER -> "none"

Exhausted(r) == MaxRetries # 0 /\ r >= MaxRetries

-----------------------------------------------------------------------------
(* The runner                                                              *)

\* MUTANT: the channel forgets that it handed the job out.
EnqueueUnremembered(j) ==
  /\ found = {} /\ seen[j] = "pending"
  /\ rowLock[j] = Nobody
  /\ requests[j] < MaxRequests /\ retry[j] <= RetryCap
  /\ state' = [state EXCEPT ![j] = "enqueued"]
  /\ aged' = [aged EXCEPT ![j] = FALSE]
  /\ requests' = [requests EXCEPT ![j] = @ + 1]
  /\ Write({j}, Runner)
  /\ UNCHANGED <<retry, lockRow, lockVars, seen, found, workerVars, effects, boundVars>>

\* runner.py run_jobs: UPDATE ... WHERE uuid = x, whatever the state is, then
\* a fire-and-forget GET.  Capacity and eta only delay it.
Enqueue(j) ==
  /\ found = {} /\ seen[j] = "pending"
  /\ rowLock[j] = Nobody
  /\ requests[j] < MaxRequests /\ retry[j] <= RetryCap
  /\ seen' = [seen EXCEPT ![j] = "running"]
  /\ state' = [state EXCEPT ![j] = "enqueued"]
  /\ aged' = [aged EXCEPT ![j] = FALSE]
  /\ requests' = [requests EXCEPT ![j] = @ + 1]
  /\ Write({j}, Runner)
  /\ UNCHANGED <<retry, lockRow, lockVars, found, workerVars, effects, boundVars>>

\* runner.py process_notifications: the row is read again.
ProcessNotification(j) ==
  /\ found = {} /\ j \in notified
  /\ notified' = notified \ {j}
  /\ seen' = [seen EXCEPT ![j] = ViewOf(state[j])]
  /\ UNCHANGED <<rowVars, lockVars, found, requests, workerVars, stale, effects,
                 boundVars>>

\* runner.py _query_requeue_dead_jobs, the WHERE clause under the snapshot of
\* the statement
DeadJobs == {j \in Jobs :
  /\ state[j] \in {"enqueued", "started"}
  /\ aged[j]
  /\ j \in lockRow => lockedBy[j] = Nobody}

\* The statement has locked the lock rows it saw, and the rows of the jobs
\* nobody else had locked; it waits for the others.
RequeueScan ==
  /\ found = {} /\ DeadJobs # {}
  /\ found' = DeadJobs
  /\ lockedBy' = [j \in Jobs |->
       IF j \in DeadJobs /\ j \in lockRow THEN Runner ELSE lockedBy[j]]
  /\ rowLock' = [j \in Jobs |->
       IF j \in DeadJobs /\ rowLock[j] = Nobody THEN Runner ELSE rowLock[j]]
  /\ UNCHANGED <<rowVars, seen, notified, requests, workerVars, stale, effects,
                 boundVars>>

Release(held, js) ==
  held' = [j \in Jobs |-> IF j \in js /\ held[j] = Runner THEN Nobody ELSE held[j]]

\* The columns the statement sets, from the values they had.
RequeuedState(j) ==
  IF MaxRetries # 0 /\ retry[j] > MaxRetries THEN "failed" ELSE "pending"
RequeuedRetry(j) ==
  IF state[j] = "started" THEN retry[j] + 1 ELSE retry[j]

\* The rows it waited for are evaluated again in their new version; the
\* absence of a lock row is not (same snapshot).
RequeueApply ==
  LET dead == {j \in found : state[j] \in {"enqueued", "started"} /\ aged[j]} IN
  /\ found # {}
  /\ \A j \in found : rowLock[j] \in {Nobody, Runner}
  /\ state' = [j \in Jobs |-> IF j \in dead THEN RequeuedState(j) ELSE state[j]]
  /\ retry' = [j \in Jobs |-> IF j \in dead THEN RequeuedRetry(j) ELSE retry[j]]
  /\ Release(rowLock, found) /\ Release(lockedBy, found)
  /\ found' = {}
  /\ Write(dead, Runner)
  /\ UNCHANGED <<aged, lockRow, seen, requests, workerVars, effects, boundVars>>

\* MUTANT: the runner starts without reading the jobs that are not done.
RunnerRestartBlank ==
  /\ Fault
  /\ Release(rowLock, Jobs) /\ Release(lockedBy, Jobs)
  /\ found' = {}
  /\ notified' = {}
  /\ seen' = [j \in Jobs |-> "none"]
  /\ UNCHANGED <<rowVars, requests, workerVars, stale, effects, clicks>>

\* runner.py run, close_databases, initialize_databases: the connection is
\* lost with its locks and notifications; LISTEN comes before the SELECT.
RunnerRestart ==
  /\ Fault
  /\ Release(rowLock, Jobs) /\ Release(lockedBy, Jobs)
  /\ found' = {}
  /\ notified' = {}
  /\ seen' = [j \in Jobs |-> ViewOf(state[j])]
  /\ UNCHANGED <<rowVars, requests, workerVars, stale, effects, clicks>>

-----------------------------------------------------------------------------
(* The network and the clock                                               *)

\* runner.py _async_http_get: errors are logged and forgotten.
LoseRequest(j) ==
  /\ Fault
  /\ requests[j] > 0
  /\ requests' = [requests EXCEPT ![j] = @ - 1]
  /\ UNCHANGED <<rowVars, lockVars, runnerVars, workerVars, stale, effects, clicks>>

Age(j) ==
  /\ state[j] \in {"enqueued", "started"} /\ ~aged[j]
  /\ aged' = [aged EXCEPT ![j] = TRUE]
  /\ UNCHANGED <<state, retry, lockRow, lockVars, runnerVars, requests,
                 workerVars, stale, effects, boundVars>>

-----------------------------------------------------------------------------
(* A worker serving /queue_job/runjob                                      *)

\* MUTANT: the state of the job is not looked at.
AcquirableInAnyState(j) == rowLock[j] = Nobody

Acquirable(j) == state[j] = "enqueued" /\ rowLock[j] = Nobody

\* main.py _acquire_job: SELECT ... state = ENQUEUED FOR NO KEY UPDATE SKIP
\* LOCKED, then Job.load
AcquireRow(w, j) ==
  /\ pc[w] = "idle" /\ requests[j] > 0
  /\ Acquirable(j)
  /\ requests' = [requests EXCEPT ![j] = @ - 1]
  /\ rowLock' = [rowLock EXCEPT ![j] = w]
  /\ pc' = [pc EXCEPT ![w] = "acquiring"]
  /\ on' = [on EXCEPT ![w] = j]
  /\ attempt' = [attempt EXCEPT ![w] = retry[j]]
  /\ UNCHANGED <<rowVars, lockedBy, runnerVars, stale, effects, boundVars>>

\* ... and the request that finds no such row is over.
RefuseRequest(j) ==
  /\ requests[j] > 0 /\ ~Acquirable(j)
  /\ requests' = [requests EXCEPT ![j] = @ - 1]
  /\ UNCHANGED <<rowVars, lockVars, runnerVars, workerVars, stale, effects,
                 boundVars>>

\* Job.set_started with add_lock_record, store, commit
CommitStarted(w) ==
  LET j == on[w] IN
  /\ pc[w] = "acquiring"
  /\ state' = [state EXCEPT ![j] = "started"]
  /\ lockRow' = lockRow \cup {j}
  /\ rowLock' = [rowLock EXCEPT ![j] = Nobody]
  /\ pc' = [pc EXCEPT ![w] = "started"]
  /\ Write({j}, w)
  /\ UNCHANGED <<retry, aged, lockedBy, seen, found, requests, on, attempt,
                 effects, boundVars>>

\* MUTANT: the SELECT of the lock row does not lock it.
LockableUnlocked(j) == state[j] = "started" /\ j \in lockRow

\* Job.lock: SELECT the lock row of the job if it is STARTED, SKIP LOCKED
Lockable(j) == state[j] = "started" /\ j \in lockRow /\ lockedBy[j] = Nobody

\* MUTANT: perform counts the attempt only after the call of the function.
LockJobUncounted(w) ==
  LET j == on[w] IN
  /\ pc[w] = "started" /\ Lockable(j)
  /\ lockedBy' = [lockedBy EXCEPT ![j] = w]
  /\ pc' = [pc EXCEPT ![w] = "performing"]
  /\ stale' = [stale EXCEPT ![w] = FALSE]
  /\ UNCHANGED <<rowVars, rowLock, runnerVars, requests, on, attempt, effects, boundVars>>

\* This opens the transaction the job is performed in: its snapshot is fresh.
\* Job.perform then starts with retry += 1.
LockJob(w) ==
  LET j == on[w] IN
  /\ pc[w] = "started" /\ Lockable(j)
  /\ lockedBy' = [lockedBy EXCEPT ![j] = w]
  /\ pc' = [pc EXCEPT ![w] = "performing"]
  /\ attempt' = [attempt EXCEPT ![w] = @ + 1]
  /\ stale' = [stale EXCEPT ![w] = FALSE]
  /\ UNCHANGED <<rowVars, rowLock, runnerVars, requests, on, effects, boundVars>>

\* "was requested to run job, but it could not be locked": the row stays as
\* it is, STARTED if nobody changed it.
AbandonJob(w) ==
  /\ pc[w] = "started" /\ ~Lockable(on[w])
  /\ Leave(w)
  /\ UNCHANGED <<rowVars, lockVars, runnerVars, requests, stale, effects,
                 boundVars>>

\* Job.perform returns: an "allow_commit" function has committed its work
\* from its own cursor, the others are still in the transaction of the lock.
RunBody(w) ==
  /\ pc[w] = "performing"
  /\ pc' = [pc EXCEPT ![w] = "ran"]
  /\ effects' = IF on[w] \in AllowCommit
                THEN [effects EXCEPT ![on[w]] = @ + 1] ELSE effects
  /\ UNCHANGED <<rowVars, lockVars, runnerVars, requests, on, attempt, stale,
                 boundVars>>

\* MUTANT: the transaction of the job is READ COMMITTED.
MarkDoneReadCommitted(w) ==
  LET j == on[w] IN
  /\ pc[w] = "ran" /\ rowLock[j] = Nobody
  /\ state' = [state EXCEPT ![j] = "done"]
  /\ retry' = [retry EXCEPT ![j] = attempt[w]]
  /\ lockedBy' = [lockedBy EXCEPT ![j] = Nobody]
  /\ effects' = IF j \in AllowCommit THEN effects
                ELSE [effects EXCEPT ![j] = @ + 1]
  /\ Leave(w)
  /\ Write({j}, w)
  /\ UNCHANGED <<aged, lockRow, rowLock, seen, found, requests, boundVars>>

\* main.py _try_perform_job: set_done, store, commit.  The commit ends the
\* transaction and with it the lock; a stale snapshot makes it fail instead.
MarkDone(w) ==
  LET j == on[w] IN
  /\ pc[w] = "ran" /\ ~stale[w] /\ rowLock[j] = Nobody
  /\ state' = [state EXCEPT ![j] = "done"]
  /\ retry' = [retry EXCEPT ![j] = attempt[w]]
  /\ lockedBy' = [lockedBy EXCEPT ![j] = Nobody]
  /\ effects' = IF j \in AllowCommit THEN effects
                ELSE [effects EXCEPT ![j] = @ + 1]
  /\ Leave(w)
  /\ Write({j}, w)
  /\ UNCHANGED <<aged, lockRow, rowLock, seen, found, requests, boundVars>>

\* The row is written from another cursor (in_temporary_env), which commits
\* while the transaction that holds the lock is still open.
WriteOutcome(w, s, r) ==
  LET j == on[w] IN
  /\ rowLock[j] = Nobody
  /\ state' = [state EXCEPT ![j] = s]
  /\ retry' = [retry EXCEPT ![j] = r]
  /\ pc' = [pc EXCEPT ![w] = "rollback"]
  /\ Write({j}, w)
  /\ UNCHANGED <<aged, lockRow, lockVars, seen, found, requests, on, attempt,
                 effects, clicks>>

\* Job.perform raised RetryableJobError with retries left: retry_postpone
RetryLater(w) ==
  /\ pc[w] = "performing" /\ ~Exhausted(attempt[w])
  /\ WriteOutcome(w, "pending", attempt[w])
  /\ UNCHANGED faults

\* RetryableJobError(ignore_retry=True): the attempt does not count
RetryIgnored(w) ==
  /\ Fault
  /\ pc[w] = "performing"
  /\ WriteOutcome(w, "pending", attempt[w] - 1)

\* An OperationalError that PostgreSQL asks to retry, raised by the job or by
\* the commit: it becomes a RetryableJobError outside of Job.perform.
SerializationFailure(w) ==
  /\ \/ pc[w] = "ran" /\ stale[w] /\ UNCHANGED faults
     \/ pc[w] \in {"performing", "ran"} /\ Conflicts /\ Fault
  /\ WriteOutcome(w, "pending", attempt[w])

\* Any other exception, FailedJobError of exhausted retries included:
\* set_failed, store, on_fail
FailJob(w) ==
  /\ pc[w] = "performing"
  /\ WriteOutcome(w, "failed", attempt[w])
  /\ UNCHANGED faults

\* The handler returns or raises: the cursor rolls back and frees the lock.
Rollback(w) ==
  /\ pc[w] = "rollback"
  /\ lockedBy' = [lockedBy EXCEPT ![on[w]] = Nobody]
  /\ Leave(w)
  /\ UNCHANGED <<rowVars, rowLock, runnerVars, requests, stale, effects,
                 boundVars>>

\* The worker is killed, or an exception leaves the error handlers: its
\* transactions are rolled back and its locks released.
WorkerDies(w) ==
  /\ Fault
  /\ pc[w] # "idle"
  /\ rowLock' = [j \in Jobs |-> IF rowLock[j] = w THEN Nobody ELSE rowLock[j]]
  /\ lockedBy' = [j \in Jobs |-> IF lockedBy[j] = w THEN Nobody ELSE lockedBy[j]]
  /\ Leave(w)
  /\ stale' = [stale EXCEPT ![w] = FALSE]
  /\ UNCHANGED <<rowVars, runnerVars, requests, effects, clicks>>

-----------------------------------------------------------------------------
(* Users: buttons of the form, wizards on a selection                      *)

ChangeState(j, from, to) ==
  /\ clicks < MaxClicks /\ clicks' = clicks + 1
  /\ state[j] \in from /\ rowLock[j] = Nobody
  /\ state' = [state EXCEPT ![j] = to]
  /\ Write({j}, Nobody)
  /\ UNCHANGED <<aged, lockRow, lockVars, seen, found, requests, workerVars, faults>>

\* models/queue_job.py button_done
ButtonDone(j) ==
  /\ ChangeState(j, {"pending", "enqueued", "failed"}, "done")
  /\ UNCHANGED <<retry, effects>>

\* models/queue_job.py button_cancelled
ButtonCancelled(j) ==
  /\ ChangeState(j, {"pending", "enqueued", "failed"}, "cancelled")
  /\ UNCHANGED <<retry, effects>>

\* models/queue_job.py requeue: the job is asked for once more
Requeue(j) ==
  /\ ChangeState(j, {"failed", "done", "cancelled"}, "pending")
  /\ retry' = [retry EXCEPT ![j] = 0]
  /\ effects' = [effects EXCEPT ![j] = 0]

-----------------------------------------------------------------------------

WorkerStep(w) ==
  \/ CommitStarted(w) \/ LockJob(w) \/ AbandonJob(w)
  \/ RunBody(w) \/ MarkDone(w)
  \/ RetryLater(w) \/ RetryIgnored(w) \/ SerializationFailure(w) \/ FailJob(w)
  \/ Rollback(w)

ServeRequest(j) == RefuseRequest(j) \/ \E w \in Workers : AcquireRow(w, j)

UserStep(j) == ButtonDone(j) \/ ButtonCancelled(j) \/ Requeue(j)

Next ==
  \/ RequeueScan \/ RequeueApply \/ RunnerRestart
  \/ \E j \in Jobs :
       \/ Enqueue(j) \/ ProcessNotification(j)
       \/ LoseRequest(j) \/ Age(j) \/ ServeRequest(j) \/ UserStep(j)
  \/ \E w \in Workers : WorkerStep(w) \/ WorkerDies(w)

\* The loop of the runner never skips a step, time passes, a request that is
\* not lost is served and a job function returns or raises.
\* PromptServer is about the load of the server, not about the code: it is not
\* so overloaded that each and every request for a job is served later than
\* the 10 seconds after which the runner takes the job for dead.
Fairness ==
  /\ WF_vars(RequeueScan) /\ WF_vars(RequeueApply)
  /\ \A j \in Jobs :
       /\ WF_vars(ProcessNotification(j)) /\ WF_vars(Enqueue(j))
       /\ WF_vars(Age(j)) /\ WF_vars(ServeRequest(j))
  /\ \A w \in Workers : WF_vars(WorkerStep(w))

PromptServer == \A j \in Jobs : SF_vars(\E w \in Workers : AcquireRow(w, j))

Spec == Init /\ [][Next]_vars
FairSpec == Spec /\ Fairness

-----------------------------------------------------------------------------
(* Properties                                                              *)

TypeOK ==
  /\ state \in [Jobs -> States]
  /\ retry \in [Jobs -> Nat]
  /\ aged \in [Jobs -> BOOLEAN]
  /\ lockRow \subseteq Jobs
  /\ rowLock \in [Jobs -> Workers \cup {Nobody, Runner}]
  /\ lockedBy \in [Jobs -> Workers \cup {Nobody, Runner}]
  /\ seen \in [Jobs -> {"none", "pending", "running"}]
  /\ notified \subseteq Jobs
  /\ found \subseteq Jobs
  /\ requests \in [Jobs -> Nat]
  /\ pc \in [Workers -> Phases]
  /\ on \in [Workers -> Jobs \cup {Nobody}]
  /\ attempt \in [Workers -> Nat]
  /\ stale \in [Workers -> BOOLEAN]
  /\ effects \in [Jobs -> Nat]
  /\ faults \in Nat /\ clicks \in Nat

\* Two workers never perform the same job at the same time, however many
\* requests, requeues of dead jobs and restarts there were: the point of the
\* table queue_job_lock.
OneExecution ==
  \A v, w \in Workers :
    v # w /\ pc[v] \in Holding /\ pc[w] \in Holding => on[v] # on[w]

\* The work of a job and its state DONE are committed together: a job whose
\* work is in the database is done, and nothing but a user's requeue makes it
\* run again.  This is why commits are forbidden in a job function.
WorkIsDoneOnce ==
  \A j \in Jobs \ AllowCommit :
    effects[j] > 0 => effects[j] = 1 /\ state[j] = "done"

\* The runner never takes for pending a job that was handed to a worker: its
\* memory may lag behind the table, but only on the safe side.
NoSecondHandout ==
  \A j \in Jobs : seen[j] = "pending" => state[j] \notin {"enqueued", "started"}

\* The worker, if any, that holds the lock of the job.
Performer(j) == IF lockedBy[j] \in Workers THEN lockedBy[j] ELSE Nobody

\* JobContract describes the jobs that do not commit on their own.
Contract == INSTANCE JobContract WITH
  Jobs <- Jobs \ AllowCommit,
  performer <- [j \in Jobs \ AllowCommit |-> Performer(j)],
  committed <- {j \in Jobs \ AllowCommit : effects[j] > 0}

\* What the caller of with_delay() was promised holds of all the machinery of
\* rows, locks, notifications and requests: every step of it either is a step
\* of the contract or changes nothing the contract speaks of.
ImplementsContract == Contract!Spec

\* Once faults and users have come to an end, every pending job is executed
\* to an end: none is forgotten between the table, the runner and the workers.
EveryJobSettles ==
  PromptServer => \A j \in Jobs :
    state[j] = "pending" ~> state[j] \in {"done", "failed", "cancelled"}

=============================================================================
