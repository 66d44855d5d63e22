--------------------------- MODULE JobDependencies --------------------------
(***************************************************************************)
(* Graphs of jobs: a job waits for the jobs it depends on, the last of     *)
(* them to be done releases it, a cancelled one takes it along             *)
(* (queue_job/job.py, models/queue_job.py, controllers/main.py).           *)
(*                                                                         *)
(* Nothing but the transactions of PostgreSQL orders the workers and users *)
(* that touch a graph.  A transaction reads its snapshot; it can commit    *)
(* only if none of the rows it writes was written since, and otherwise it  *)
(* fails.  What it has read but not written is not checked.                *)
(*                                                                         *)
(* How one job is executed is in JobExecution; "running" is STARTED.  The  *)
(* runner hands out what it has read to be pending, whatever the row says  *)
(* by then (jobrunner/runner.py).                                          *)
(***************************************************************************)
EXTENDS Integers, FiniteSets

CONSTANTS
  Jobs,        \* the jobs of one graph (same graph_uuid)
  Graphs,      \* the graphs delay() may have stored: [j |-> the jobs j depends on]
  Users,       \* sessions of users that press buttons
  UserOps,     \* which buttons: subset of {"done", "cancelled", "pending"}
  MaxEvents    \* bound: buttons pressed, workers that die, jobs deleted

ASSUME DependenciesAssumption ==
  /\ IsFiniteSet(Jobs)
  /\ Graphs \subseteq [Jobs -> SUBSET Jobs]
  /\ Jobs \cap Users = {}
  /\ UserOps \subseteq {"done", "cancelled", "pending"}
  /\ MaxEvents \in Nat

VARIABLES
  parents,   \* dependencies of each job (Job.depends_on), as stored
  state,     \* committed state of each job; "gone" once deleted
  sawOpen,   \* Job.depends_on, cached when j started, had a job not done
  seen,      \* jobs the runner takes for pending
  finished,  \* jobs done whose worker has not yet looked at the dependents
  op,        \* the open transaction of each actor: what it does ...
  target,    \* ... to which job,
  snap,      \* the snapshot it reads,
  missed,    \* and the rows others have written since
  everDone,  \* history: jobs that were done at some time
  reopened,  \* history: jobs that were done or cancelled, and open again: a user asked
             \* for them, or the runner had not read that they were closed
  events     \* events so far

txVars    == <<op, target, snap, missed>>
historyVars == <<everDone, reopened>>
vars == <<parents, state, sawOpen, seen, finished, txVars, historyVars, events>>

States == {"wait", "pending", "enqueued", "running", "failed", "done", "cancelled", "gone"}

\* A worker is named after the job it has finished.
Actors == Jobs \cup Users

Children(j) == {c \in Jobs : j \in parents[c]}

\* Job.add_depends: a job with parents waits.
Init ==
  /\ parents \in Graphs
  /\ state = [j \in Jobs |-> IF parents[j] = {} THEN "pending" ELSE "wait"]
  /\ sawOpen = [j \in Jobs |-> FALSE]
  /\ seen = {} /\ finished = {}
  /\ op = [a \in Actors |-> "none"]
  /\ target = [a \in Actors |-> "none"]
  /\ snap = [a \in Actors |-> state]
  /\ missed = [a \in Actors |-> {}]
  /\ everDone = {} /\ reopened = {}
  /\ events = 0

-----------------------------------------------------------------------------
(* Reads, in a given version s of the table                                *)

\* A deleted job counts for nothing.
ParentsDone(s, j) == \A p \in parents[j] : s[p] \in {"done", "gone"}

\* MUTANT: one dependency done is enough.
ReleasedByAny(s, j) == {c \in Children(j) : s[c] = "wait"}

\* job.py enqueue_waiting: the dependents of j that wait and have no dependency
\* that is not done
Released(s, j) == {c \in Children(j) : s[c] = "wait" /\ ParentsDone(s, c)}

\* job.py cancel_dependent_jobs: the jobs waiting on j, those waiting on them...
WaitingOn(s, js) == {c \in UNION {Children(j) : j \in js} : s[c] = "wait"}
Cascade(s, j) ==
  LET level[n \in 0 .. Cardinality(Jobs)] ==
        IF n = 0 THEN WaitingOn(s, {j}) ELSE WaitingOn(s, level[n - 1])
  IN  UNION {level[n] : n \in 0 .. Cardinality(Jobs)}

\* MUTANT: the dependencies are not looked at.
AskedAgainBlindly(open) == "pending"

\* job.py set_pending
AskedAgain(open) == IF open THEN "wait" ELSE "pending"

Event == events < MaxEvents /\ events' = events + 1

Overwrite(s, js, value) == [j \in Jobs |-> IF j \in js THEN value ELSE s[j]]

-----------------------------------------------------------------------------
(* Transactions                                                            *)

\* Actor a opens a transaction: its first query takes the snapshot.
Begin(a, what, j) ==
  /\ op' = [op EXCEPT ![a] = what]
  /\ target' = [target EXCEPT ![a] = j]
  /\ snap' = [snap EXCEPT ![a] = state]
  /\ missed' = [missed EXCEPT ![a] = {}]

\* Rows js have been written by a commit: open transactions miss it.
Missed(js) ==
  missed' = [a \in Actors |-> IF op[a] = "none" THEN {} ELSE missed[a] \cup js]

\* A transaction of one statement, or one that reads nothing else: row j
Write(j, value) ==
  /\ state' = [state EXCEPT ![j] = value]
  /\ Missed({j})
  /\ UNCHANGED <<op, target, snap>>

\* Transaction a ends, having written the rows js and made the table s.
End(a, js, s) ==
  /\ op' = [op EXCEPT ![a] = "none"]
  /\ state' = s
  /\ missed' = [b \in Actors |->
       IF b = a \/ op[b] = "none" THEN {} ELSE missed[b] \cup js]
  /\ snap' = [snap EXCEPT ![a] = [j \in Jobs |-> "gone"]]
  /\ target' = [target EXCEPT ![a] = "none"]

-----------------------------------------------------------------------------
(* Workers                                                                 *)

\* runner.py process_notifications: the row as it is, not as it was; the channels pass over
\* a job that waits and forget one that is neither pending nor under way.
Read(j) ==
  /\ state[j] # "wait"
  /\ seen' = IF state[j] = "pending" THEN seen \cup {j} ELSE seen \ {j}
  /\ UNCHANGED <<state, sawOpen, finished, txVars, historyVars, events>>

\* runner.py set_job_enqueued: an UPDATE that does not look at the state
Enqueue(j) ==
  /\ j \in seen /\ state[j] # "gone"
  /\ seen' = seen \ {j}
  /\ Write(j, "enqueued")
  /\ reopened' = IF state[j] \in {"done", "cancelled"} THEN reopened \cup {j} ELSE reopened
  /\ UNCHANGED <<sawOpen, finished, everDone, events>>

\* A worker starts the job; storing it reads the jobs it depends on, which are
\* then kept in memory (Job.depends_on).
Start(j) ==
  /\ state[j] = "enqueued"
  /\ Write(j, "running")
  /\ sawOpen' = [sawOpen EXCEPT ![j] = ~ParentsDone(state, j)]
  /\ UNCHANGED <<seen, finished, historyVars, events>>

\* main.py _try_perform_job: the job is done, that much is committed; a job
\* without dependents is over.
Finish(j) ==
  /\ state[j] = "running"
  /\ Write(j, "done")
  /\ finished' = IF Children(j) = {} THEN finished ELSE finished \cup {j}
  /\ everDone' = everDone \cup {j}
  /\ UNCHANGED <<sawOpen, seen, reopened, events>>

\* main.py retry_postpone: set_pending, with the dependencies in memory
Postpone(j) ==
  /\ state[j] = "running"
  /\ Write(j, AskedAgain(sawOpen[j]))
  /\ UNCHANGED <<sawOpen, seen, finished, historyVars, events>>

Fail(j) ==
  /\ state[j] = "running"
  /\ Write(j, "failed")
  /\ UNCHANGED <<sawOpen, seen, finished, historyVars, events>>

\* The request is lost, or the worker dies while it performs the job; the runner sets it to
\* pending, or to failed when that was once too often (runner.py requeue_dead_jobs).
DieRunning(j) ==
  /\ Event
  /\ state[j] \in {"enqueued", "running"}
  /\ \E value \in {"pending", "failed"} : Write(j, value)
  /\ UNCHANGED <<sawOpen, seen, finished, historyVars>>

\* MUTANT: a worker that finds another one releasing leaves it to that one.
BeginReleaseUnlessBusy(j) ==
  /\ j \in finished
  /\ finished' = finished \ {j}
  /\ IF \E p \in Jobs : op[p] = "release" THEN UNCHANGED txVars
                                        ELSE Begin(j, "release", j)
  /\ UNCHANGED <<state, sawOpen, seen, historyVars, events>>

\* main.py _enqueue_dependent_jobs: a new transaction
BeginRelease(j) ==
  /\ j \in finished
  /\ finished' = finished \ {j}
  /\ Begin(j, "release", j)
  /\ UNCHANGED <<state, sawOpen, seen, historyVars, events>>

\* enqueue_waiting, flushed at the end of the savepoint, committed with the
\* request
CommitRelease(j) ==
  LET js == Released(snap[j], j) IN
  /\ op[j] = "release"
  /\ js \cap missed[j] = {}
  /\ End(j, js, Overwrite(state, js, "pending"))
  /\ UNCHANGED <<sawOpen, seen, finished, historyVars, events>>

\* ... or one of the rows was written meanwhile.  The savepoint is retried
\* with the same snapshot, so it fails each of the six times; then the request
\* is run again and finds a job that is not enqueued any more.
FailRelease(j) ==
  /\ op[j] = "release"
  /\ Released(snap[j], j) \cap missed[j] # {}
  /\ End(j, {}, state)
  /\ UNCHANGED <<sawOpen, seen, finished, historyVars, events>>

\* The worker dies after the commit of the job and before that of the release.
DieFinished(j) ==
  /\ Event
  /\ j \in finished \/ op[j] = "release"
  /\ finished' = finished \ {j}
  /\ End(j, {}, state)
  /\ UNCHANGED <<sawOpen, seen, historyVars>>

-----------------------------------------------------------------------------
(* Users and the autovacuum                                                *)

\* button_done, button_cancelled and requeue: the states they apply to
From(what) ==
  CASE what \in {"done", "cancelled"} -> {"wait", "pending", "enqueued", "failed"}
    [] what = "pending" -> {"failed", "done", "cancelled"}

\* A user presses a button.
Click(u, what, j) ==
  /\ Event
  /\ op[u] = "none"
  /\ state[j] \in From(what)
  /\ Begin(u, what, j)
  /\ UNCHANGED <<state, sawOpen, seen, finished, historyVars>>

\* MUTANT: button_done releases all dependents.
WrittenReleasingAll(what, s, j) ==
  CASE what = "done" ->
         [c \in {j} \cup WaitingOn(s, {j}) |-> IF c = j THEN "done" ELSE "pending"]
    [] what = "cancelled" -> [c \in {j} \cup Cascade(s, j) |-> "cancelled"]
    [] what = "pending" -> [c \in {j} |-> AskedAgain(~ParentsDone(s, j))]

\* models/queue_job.py _change_job_state, in the version of the table the
\* transaction reads: what it writes where
Written(what, s, j) ==
  CASE what = "done" ->
         LET done == [s EXCEPT ![j] = "done"] IN
         [c \in {j} \cup Released(done, j) |->
            IF c = j THEN "done" ELSE "pending"]
    [] what = "cancelled" -> [c \in {j} \cup Cascade(s, j) |-> "cancelled"]
    [] what = "pending" -> [c \in {j} |-> AskedAgain(~ParentsDone(s, j))]

CommitClick(u) ==
  LET j == target[u]
      w == Written(op[u], snap[u], j)
  IN
  /\ op[u] # "none"
  /\ DOMAIN w \cap missed[u] = {}
  /\ End(u, DOMAIN w, [c \in Jobs |-> IF c \in DOMAIN w THEN w[c] ELSE state[c]])
  /\ everDone' = IF op[u] = "done" THEN everDone \cup {j} ELSE everDone
  /\ reopened' = IF op[u] = "pending" THEN reopened \cup {j} ELSE reopened
  /\ UNCHANGED <<sawOpen, seen, finished, events>>

\* A conflict: Odoo runs the whole request again, from the check of the state.
RetryClick(u) ==
  LET j == target[u] IN
  /\ op[u] # "none"
  /\ DOMAIN Written(op[u], snap[u], j) \cap missed[u] # {}
  /\ IF state[j] \in From(op[u]) THEN Begin(u, op[u], j) /\ UNCHANGED state
                                 ELSE End(u, {}, state)
  /\ UNCHANGED <<sawOpen, seen, finished, historyVars, events>>

\* models/queue_job.py _gc_old_jobs
Delete(j) ==
  /\ Event
  /\ state[j] \in {"done", "cancelled"}
  /\ Write(j, "gone")
  /\ UNCHANGED <<sawOpen, seen, finished, historyVars>>

-----------------------------------------------------------------------------

Release(j) == BeginRelease(j) \/ CommitRelease(j) \/ FailRelease(j)

\* Nothing changes the dependencies of a job once it is stored.
Next ==
  /\ UNCHANGED parents
  /\ \/ \E j \in Jobs :
          \/ Read(j) \/ Enqueue(j) \/ Start(j) \/ Finish(j) \/ Postpone(j) \/ Fail(j)
          \/ Release(j) \/ DieRunning(j) \/ DieFinished(j) \/ Delete(j)
     \/ \E u \in Users :
          \/ \E what \in UserOps, j \in Jobs : Click(u, what, j)
          \/ CommitClick(u) \/ RetryClick(u)

Spec == Init /\ [][Next]_vars

-----------------------------------------------------------------------------
(* Properties                                                              *)

\* Nothing stands between job j and its execution but somebody setting it to
\* pending.
Ready(j) ==
  state[j] = "wait" /\ \A p \in parents[j] : state[p] \in {"done", "gone"}

\* Somebody still is going to release the job, or may do so.
Attended(j) ==
  \/ \E p \in parents[j] : p \in finished \/ op[p] # "none"
  \/ \E u \in Users : op[u] # "none"

\* USAGE.md:95-101: a job waits "until their parent job is successful [...] the
\* dependency is resolved and the graph will continue to be processed".  When
\* the last parent is done somebody still is going to release the job.
NoJobStranded == \A j \in Jobs : Ready(j) => Attended(j)

\* Who releases j may release another job as well, one that somebody else can
\* release at the same time.
Overlaps(j) ==
  \E p \in parents[j] : \E c \in Children(p) \ {j} :
    parents[c] # {p} /\ c \notin parents[j] /\ j \notin parents[c]

\* However the workers of a graph race, they leave no job behind as long as no
\* user touches the graph and none of them dies: only jobs that overlap, see the
\* run DepsConflict, may be.
NoneStrandedByWorkers ==
  events = 0 => \A j \in Jobs : Ready(j) /\ ~Overlaps(j) => Attended(j)

\* A job waits for all its dependencies, not only for the first one: it is
\* performed only after each of them was done, whatever happened in between;
\* only a deleted one is forgotten.
RunsAfterParents ==
  \A j \in Jobs : state[j] = "running" =>
    \A p \in parents[j] : p \in everDone \/ state[p] = "gone"

\* job.py:570: "A dependent job can no longer run once one of its dependencies
\* is cancelled, whatever the state of the others", and whoever touches the
\* graph meanwhile, until one of the two is opened again: by a user, or by the runner,
\* which has not read yet that it was closed.
NothingRunsUnderCancelled ==
  \A j \in Jobs, p \in Jobs :
    p \in parents[j] /\ state[p] = "cancelled" /\ state[j] \in {"pending", "enqueued", "running"}
      => reopened \cap {p, j} # {}

\* A waiting job is released, or handed out, only at a time when its dependencies are done; a
\* dependency that was done and is open again does not stop it.
ReleasedWhenDone ==
  [][\A j \in Jobs : state[j] = "wait" /\ state'[j] \in {"pending", "enqueued"} =>
       \A p \in parents[j] \ reopened : state'[p] \in {"done", "gone"}]_vars
=============================================================================
