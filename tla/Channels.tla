------------------------------ MODULE Channels ------------------------------
(***************************************************************************)
(* Which pending job runs next: the tree of channels kept by the runner    *)
(* (jobrunner/channels.py) and the loop that feeds it with notifications,  *)
(* sweeps it and goes to sleep until the next alarm (jobrunner/runner.py). *)
(*                                                                         *)
(* A job waits in the queue of its own channel.  A channel with capacity   *)
(* marks it as running and passes it to the queue of its parent; the jobs  *)
(* that pass the root are enqueued in the table.  The channels learn what  *)
(* becomes of them by reading their rows again when they are notified.     *)
(*                                                                         *)
(* The life of a row is reduced to what the channels tell apart: "running" *)
(* is ENQUEUED or STARTED, "ended" is DONE, CANCELLED or deleted.  How the *)
(* workers change rows is in JobExecution, what "wait" is for is in        *)
(* JobDependencies.                                                        *)
(***************************************************************************)
EXTENDS Integers, FiniteSets, FiniteSetsExt

CONSTANTS
  Tree,         \* the channels
  Root,         \* the root channel
  ParentOf,     \* the parent of each of the others
  Capacity,     \* capacity per channel; 0 (or absent in the code): unlimited
  Sequential,   \* the channels configured as sequential
  Throttle,     \* seconds between two jobs of a channel; 0: none
  Paused,       \* the channels that are paused
  Jobs,
  ChannelOf,    \* the channel of each job
  Rank,         \* the order by (priority, date_created, seq)
  Etas,         \* the eta jobs are created with; 0 (None in the code): none
  Delay,        \* seconds by which a retry is postponed
  Dependents,   \* jobs that depend on other jobs
  MaxTime,      \* bound: the clock
  LazyTime,     \* bound: the clock in behaviours in which it only runs to an alarm
  MaxEvents     \* bound: failures, retries, actions of users, restarts of the runner

ASSUME ChannelsAssumption ==
  /\ Root \in Tree /\ IsFiniteSet(Tree) /\ IsFiniteSet(Jobs)
  /\ ParentOf \in [Tree \ {Root} -> Tree]
  /\ \E depth \in [Tree -> 0 .. Cardinality(Tree)] :   \* dots in the name
       \A c \in Tree \ {Root} : depth[ParentOf[c]] < depth[c]
  /\ Capacity \in [Tree -> Nat] /\ Throttle \in [Tree -> Nat]
  /\ Sequential \subseteq Tree /\ Paused \subseteq Tree
  /\ \A c \in Sequential : Capacity[c] = 1   \* Channel.configure
  /\ ChannelOf \in [Jobs -> Tree]
  /\ Rank \in [Jobs -> Nat]
  /\ \A i, j \in Jobs : Rank[i] = Rank[j] => i = j
  /\ Etas \subseteq Nat /\ Delay \in Nat \ {0}
  /\ Dependents \subseteq Jobs
  /\ {MaxTime, LazyTime, MaxEvents} \subseteq Nat

VARIABLES
  \* the table queue_job
  state, eta,
  notified,    \* jobs whose row was written since the runner last read it
  \* the ChannelManager
  queued, running, failed,   \* the jobs in each channel
  seenEta,     \* ChannelJob.eta; 0 once it is past
  pauseUntil,  \* per channel, the end of the throttle delay; 0: none
  \* the loop of the runner
  phase,       \* "read" notifications, "run" jobs, "wait"
  alarm,       \* the time wait_notification wakes up at; 0: none
  now, events,
  lazy         \* how the clock runs in this behaviour

rowVars     == <<state, eta>>
channelVars == <<queued, running, failed, seenEta, pauseUntil>>
loopVars    == <<phase, alarm>>
boundVars   == <<events, lazy>>
vars == <<rowVars, notified, channelVars, loopVars, now, boundVars>>

States == {"wait", "pending", "running", "failed", "ended"}

Children(c) == {d \in Tree \ {Root} : ParentOf[d] = c}

\* A channel and those it is a child of, up to the root.
PathOf ==
  LET path[c \in Tree] == {c} \cup IF c = Root THEN {} ELSE path[ParentOf[c]]
  IN  [c \in Tree |-> path[c]]

Path(c) == PathOf[c]

-----------------------------------------------------------------------------
(* Channel.set_done, set_pending, set_running, set_failed, remove: the     *)
(* three sets of every channel as a record                                 *)

Placed == [queued |-> queued, running |-> running, failed |-> failed]

Drop(sets, cs, j) == [c \in Tree |-> IF c \in cs THEN sets[c] \ {j} ELSE sets[c]]
Put(sets, cs, j)  == [c \in Tree |-> IF c \in cs THEN sets[c] \cup {j} ELSE sets[c]]

\* MUTANT: the job stays in the parent channels.
RemoveOwn(p, j) ==
  LET own == {ChannelOf[j]} IN
  [queued |-> Drop(p.queued, own, j), running |-> Drop(p.running, own, j),
   failed |-> Drop(p.failed, own, j)]

Remove(p, j) ==
  LET path == Path(ChannelOf[j]) IN
  [queued |-> Drop(p.queued, path, j), running |-> Drop(p.running, path, j),
   failed |-> Drop(p.failed, path, j)]

SetPending(p, j) ==
  LET own == ChannelOf[j] IN
  IF j \in p.queued[own] THEN p
  ELSE [Remove(p, j) EXCEPT !.queued = Put(@, {own}, j)]

\* MUTANT: a job that runs is taken out of its own channel only.
SetRunningOwn(p, j) ==
  LET own == {ChannelOf[j]} IN
  [queued |-> Drop(p.queued, own, j), running |-> Put(p.running, own, j),
   failed |-> Drop(p.failed, own, j)]

\* It goes up until a channel in which the job is running already.
SetRunning(p, j) ==
  LET up == {c \in Path(ChannelOf[j]) :
               \A d \in Path(ChannelOf[j]) : c \in Path(d) => j \notin p.running[d]}
  IN  [queued |-> Drop(p.queued, up, j), running |-> Put(p.running, up, j),
       failed |-> Drop(p.failed, up, j)]

SetFailed(p, j) ==
  LET own == ChannelOf[j] IN
  IF j \in p.failed[own] THEN p
  ELSE [Remove(p, j) EXCEPT !.failed = Put(@, {own}, j)]

\* ChannelManager.notify: a job whose eta has changed is a new ChannelJob.
\* Nothing is done about a job that waits for its dependencies.
Notify(p, j) ==
  LET q == IF seenEta[j] # eta[j] THEN Remove(p, j) ELSE p IN
  CASE state[j] = "pending" -> SetPending(q, j)
    [] state[j] = "running" -> SetRunning(q, j)
    [] state[j] = "failed"  -> SetFailed(q, j)
    [] state[j] = "ended"   -> Remove(q, j)
    [] state[j] = "wait"    -> q

Place(p) == queued' = p.queued /\ running' = p.running /\ failed' = p.failed

\* What a manager without jobs makes of the rows s that are not done
Rebuilt(s) ==
  LET at(value, c, whole) ==
        {j \in Jobs : s[j] = value /\ c \in (IF whole THEN Path(ChannelOf[j])
                                                      ELSE {ChannelOf[j]})}
  IN  [queued  |-> [c \in Tree |-> at("pending", c, FALSE)],
       running |-> [c \in Tree |-> at("running", c, TRUE)],
       failed  |-> [c \in Tree |-> at("failed", c, FALSE)]]

-----------------------------------------------------------------------------
(* Channel.has_capacity, get_jobs_to_run, get_wakeup_time                  *)

HasCapacity(c) ==
  /\ c \notin Paused
  /\ c \in Sequential => failed[c] = {}
  /\ Capacity[c] = 0 \/ Cardinality(running[c]) < Capacity[c]

\* MUTANT: one job too many.
RoomForOneMore(c) ==
  IF Throttle[c] # 0 THEN 1
  ELSE IF Capacity[c] = 0 THEN Cardinality(Jobs)
  ELSE Capacity[c] - Cardinality(running[c]) + 1

\* How many jobs a channel with capacity takes in one sweep.
Room(c) ==
  IF Throttle[c] # 0 THEN 1
  ELSE IF Capacity[c] = 0 THEN Cardinality(Jobs)
  ELSE Capacity[c] - Cardinality(running[c])

IsThrottled(c) == Throttle[c] # 0 /\ pauseUntil[c] # 0 /\ now < pauseUntil[c]

\* The channels whose queue a sweep pops.
Open(c) == HasCapacity(c) /\ ~IsThrottled(c)

Due(js) == {j \in js : seenEta[j] <= now}
First(js, n) == {j \in js : Cardinality({i \in js : Rank[i] < Rank[j]}) < n}

\* MUTANT: a sequential channel does not wait for an eta.
BlockedByNothing(js) == FALSE

\* ChannelQueue.pop of a sequential channel: the first of the jobs with an eta
\* to come goes before all the jobs without.
BlockedByEta(js) ==
  \E head \in js \ Due(js) :
    /\ \A j \in js \ Due(js) :
         \/ seenEta[head] < seenEta[j]
         \/ seenEta[head] = seenEta[j] /\ Rank[head] <= Rank[j]
    /\ \A j \in Due(js) : Rank[head] < Rank[j]

\* The jobs that leave a channel when js are in its queue
Taken(c, js) ==
  IF ~Open(c) \/ (c \in Sequential /\ BlockedByEta(js)) THEN {}
  ELSE First(Due(js), Room(c))

\* The queues once the children have passed on their jobs, for all channels:
\* a job taken by a child competes in its parent's queue in the same sweep.
Full ==
  LET full[c \in Tree] ==
        queued[c] \cup UNION {Taken(d, full[d]) : d \in Children(c)}
  IN  full

HandedOut == Taken(Root, Full[Root])

\* MUTANT: the subchannels are not asked.
WakeupTimesOwn ==
  LET times[c \in Tree] ==
        IF ~HasCapacity(c) THEN {}
        ELSE IF pauseUntil[c] # 0 THEN {pauseUntil[c]}
        ELSE {seenEta[j] : j \in {i \in queued[c] : seenEta[i] # 0}}
  IN  times[Root]

\* The times get_wakeup_time takes the minimum of
WakeupTimes ==
  LET times[c \in Tree] ==
        IF ~HasCapacity(c) THEN {}
        ELSE IF pauseUntil[c] # 0 THEN {pauseUntil[c]}
        ELSE {seenEta[j] : j \in {i \in queued[c] : seenEta[i] # 0}}
             \cup UNION {times[d] : d \in Children(c)}
  IN  times[Root]

-----------------------------------------------------------------------------
(* The loop of the runner                                                  *)

Init ==
  /\ state = [j \in Jobs |-> IF j \in Dependents THEN "wait" ELSE "pending"]
  /\ eta \in [Jobs -> Etas]
  /\ notified = {}
  /\ queued = Rebuilt(state).queued
  /\ running = Rebuilt(state).running
  /\ failed = Rebuilt(state).failed
  /\ seenEta = eta
  /\ pauseUntil = [c \in Tree |-> 0]
  /\ phase = "read" /\ alarm = 0
  /\ now = 1 /\ events = 0 /\ lazy \in BOOLEAN

\* runner.py process_notifications, one notification
ReadNotification(j) ==
  /\ phase = "read" /\ j \in notified
  /\ Place(Notify(Placed, j))
  /\ seenEta' = [seenEta EXCEPT ![j] = eta[j]]
  /\ notified' = notified \ {j}
  /\ UNCHANGED <<rowVars, pauseUntil, loopVars, now, boundVars>>

NoMoreNotifications ==
  /\ phase = "read" /\ notified = {}
  /\ phase' = "run"
  /\ UNCHANGED <<rowVars, notified, channelVars, alarm, now, boundVars>>

\* The channels after a sweep
Swept ==
  LET full  == Full
      taken == [c \in Tree |-> Taken(c, full[c])]
  IN
  /\ running' = [c \in Tree |-> running[c] \cup taken[c]]
  /\ queued' = [c \in Tree |-> full[c] \ taken[c]]
  /\ seenEta' = [j \in Jobs |->
       IF \E c \in Tree : Open(c) /\ j \in Due(full[c]) THEN 0 ELSE seenEta[j]]
  /\ pauseUntil' = [c \in Tree |->
       IF Throttle[c] = 0 \/ IsThrottled(c) THEN pauseUntil[c]
       ELSE IF taken[c] # {} THEN now + Throttle[c] ELSE 0]
  /\ UNCHANGED failed

Enqueue(js) ==
  /\ state' = [j \in Jobs |-> IF j \in js THEN "running" ELSE state[j]]
  /\ notified' = notified \cup js

\* runner.py run_jobs: UPDATE ... WHERE uuid = x for each job the root yields
RunJobs ==
  /\ phase = "run"
  /\ Swept
  /\ Enqueue(HandedOut)
  /\ phase' = "wait"
  /\ alarm' = -1
  /\ UNCHANGED <<eta, now, boundVars>>

\* runner.py wait_notification: the alarm is set (-1: not yet), and rings.
SetAlarm ==
  /\ phase = "wait" /\ alarm = -1
  /\ IF notified # {} THEN phase' = "read" /\ alarm' = 0
     ELSE /\ alarm' = IF WakeupTimes = {} THEN 0 ELSE Min(WakeupTimes)
          /\ UNCHANGED phase
  /\ UNCHANGED <<rowVars, notified, channelVars, now, boundVars>>

\* The timeout of 60 seconds used when there is no alarm is left out: it is
\* there "just to be safe".
WakeUp ==
  /\ phase = "wait" /\ alarm # -1
  /\ notified # {} \/ (alarm # 0 /\ alarm <= now)
  /\ phase' = "read" /\ alarm' = 0
  /\ UNCHANGED <<rowVars, notified, channelVars, now, boundVars>>

Event == events < MaxEvents /\ events' = events + 1

\* The connection is lost, maybe after some of the jobs of a sweep were
\* enqueued: run, close_databases, initialize_databases.  The delays of
\* throttled channels survive unless the process was restarted.
Restart ==
  /\ Event
  /\ \E n \in 0 .. IF phase = "run" THEN Cardinality(HandedOut) ELSE 0 :
       LET js == First(HandedOut, n) IN
       state' = [j \in Jobs |-> IF j \in js THEN "running" ELSE state[j]]
  /\ Place(Rebuilt(state'))
  /\ seenEta' = eta
  /\ notified' = {}
  /\ pauseUntil' \in {pauseUntil, [c \in Tree |-> 0]}
  /\ phase' = "read" /\ alarm' = 0
  /\ UNCHANGED <<eta, now, lazy>>

-----------------------------------------------------------------------------
(* What others do to the rows, and the clock                               *)

\* A write of row j; the trigger queue_job_notify fires.
Row(j, s) ==
  /\ state' = [state EXCEPT ![j] = s]
  /\ notified' = notified \cup {j}
  /\ UNCHANGED <<channelVars, loopVars, now, lazy>>

\* A worker ends the job.
End(j) == state[j] = "running" /\ Row(j, "ended") /\ UNCHANGED <<eta, events>>

\* ... fails, or dies and is requeued, its eta unchanged,
FailOrDie(j) ==
  /\ Event /\ state[j] = "running"
  /\ Row(j, "failed") \/ Row(j, "pending")
  /\ UNCHANGED eta

\* A job that is asked for again waits if it has dependencies that are not done (any more)
\* (job.py set_pending).
AskAgain(j) == Row(j, "pending") \/ (j \in Dependents /\ Row(j, "wait"))

\* ... or postpones it (job.py postpone): its new eta takes it out of the channels, though
\* it may wait now.
Postpone(j) ==
  /\ Event /\ state[j] = "running"
  /\ AskAgain(j)
  /\ eta' = [eta EXCEPT ![j] = now + Delay]

\* Users end a job that has not started, ask for one again.
EndByUser(j) ==
  /\ Event /\ state[j] \in {"wait", "pending", "failed"}
  /\ Row(j, "ended") /\ UNCHANGED eta

Requeue(j) ==
  /\ Event /\ state[j] \in {"failed", "ended"}
  /\ AskAgain(j)
  /\ UNCHANGED eta

\* The dependencies are done.
ReleaseJob(j) ==
  /\ state[j] = "wait" /\ Row(j, "pending") /\ UNCHANGED <<eta, events>>

Tick ==
  /\ IF lazy THEN now < LazyTime /\ phase = "wait" /\ alarm > now ELSE now < MaxTime
  /\ now' = now + 1
  /\ UNCHANGED <<rowVars, notified, channelVars, loopVars, boundVars>>

Loop == (\E j \in Jobs : ReadNotification(j)) \/ NoMoreNotifications
        \/ RunJobs \/ SetAlarm \/ WakeUp

Next ==
  \/ Loop \/ Restart \/ Tick
  \/ \E j \in Jobs : \/ End(j) \/ FailOrDie(j) \/ Postpone(j)
                     \/ EndByUser(j) \/ Requeue(j) \/ ReleaseJob(j)

Spec == Init /\ [][Next]_vars

\* The loop goes on, time passes, and no job runs for ever.
FairSpec == Spec /\ WF_vars(Loop) /\ WF_vars(Tick) /\ \A j \in Jobs : WF_vars(End(j))

-----------------------------------------------------------------------------
(* Properties                                                              *)

Below(c) == {j \in Jobs : c \in Path(ChannelOf[j])}

\* However late the runner reads the rows and however often it restarts, the
\* table never has more jobs enqueued or started in a channel and its
\* subchannels than the capacity of the channel.
CapacityHeld ==
  \A c \in Tree : Capacity[c] # 0 =>
    Cardinality({j \in Below(c) : state[j] = "running"}) <= Capacity[c]

\* Channels are joined like pipes: a job that has left a channel is in exactly
\* one place further down, and nowhere upstream of its own channel.  Once the runner
\* has read the last notification of a job, the job is where its row says: a pending
\* job is on its way, a running one takes capacity all the way down, a failed one is
\* remembered, one that has ended is nowhere.
FlowConserved ==
  /\ \A c \in Tree, j \in Jobs :
       /\ j \in queued[c] \cup running[c] \cup failed[c] => j \in Below(c)
       /\ Cardinality({s \in {<<"q", queued>>, <<"r", running>>, <<"f", failed>>} :
                         j \in s[2][c]}) <= 1
       /\ c # Root /\ c \in Path(ChannelOf[j]) =>
            (j \in running[c]) = (j \in queued[ParentOf[c]] \cup running[ParentOf[c]])
  /\ \A j \in {i \in Jobs \ notified : state[i] # "wait"} :
       LET own == ChannelOf[j] IN
       /\ state[j] = "running" <=> j \in running[Root]
       /\ state[j] = "pending" <=> \E c \in Path(own) : j \in queued[c]
       /\ state[j] = "failed" <=> j \in failed[own]

\* No lost wakeup: a runner that waits for nothing has nothing to hand out.
\* runner.py:470 relies on it: the wait could be without a timeout.
SleepsOnlyWhenIdle ==
  phase = "wait" /\ alarm # -1 /\ notified = {} /\ HandedOut # {}
    => alarm # 0 /\ alarm <= now

\* channels.py:345-347: in a sequential queue "the job with eta has higher
\* priority than the job without eta; since it's a sequential queue we wait
\* until eta".  No job starts after one that has failed, or overtakes one that is due
\* or is the first to be due: one that is overtaken waits for its eta behind another
\* that comes after the job that starts.
SequentialInOrder ==
  [][\A c \in Sequential : phase = "run" /\ phase' = "wait" =>
       \A j \in running'[c] \ running[c] :
         /\ failed'[c] = {}
         /\ \A i \in queued'[c] : Rank[i] < Rank[j] =>
              \E k \in queued'[c] :
                Rank[j] < Rank[k] /\ seenEta'[k] # 0 /\ seenEta'[k] < seenEta'[i]]_vars

\* What a channel and those above it never have room for: nothing starts in a sequential
\* channel after a job that failed, nor in the place of a job that ran when it was last read,
\* and waits for its dependencies since it was asked for again (notify passes over it).
Blocked(c) ==
  \/ c \in Sequential /\ failed[c] # {}
  \/ \E i \in running[c] : state[i] = "wait"

\* Every pending job gets its turn, be it low in priority, throttled, waiting
\* for its eta or stuck behind other channels, unless its channel is paused or
\* a channel on its way is blocked.  (Behaviours with the fine clock end with their time.)
EveryJobGetsItsTurn ==
  \A j \in {i \in Jobs : Path(ChannelOf[i]) \cap Paused = {}} :
    lazy /\ state[j] = "pending" ~>
      state[j] # "pending" \/ \E c \in Path(ChannelOf[j]) : Blocked(c)
=============================================================================
