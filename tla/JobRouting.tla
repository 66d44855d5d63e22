------------------------------ MODULE JobRouting ------------------------------
(***************************************************************************)
(* Which channel a job goes through, how long its retries wait and when it  *)
(* is deleted (queue_job).  Channels and job functions are records that     *)
(* users edit; what a function says is cached under its name; a job stores  *)
(* the name of its channel; the runner has channels of its own, from the    *)
(* configuration of the server, and finds one for any name; the autovacuum  *)
(* reads the records of channels again.                                     *)
(*                                                                          *)
(* A name of a channel is the sequence of its labels.  A pattern of retries *)
(* maps counts of tries to an interval <<least, most>> of waiting times.    *)
(***************************************************************************)
EXTENDS Integers, SequencesExt

CONSTANTS
  Channels,      \* records of channels that may exist besides "root"
  Labels,        \* labels of names of channels
  Functions,     \* names of job functions
  Patterns,      \* patterns of retries
  Uuids,         \* uuids of jobs
  Configs,       \* configurations of the server: sequences of entries
  MaxTime,       \* bound: days
  MaxChanges,    \* bound: what users do
  StaleRenames   \* TRUE: users rename channels that cached functions use

\* Labels of names
Names == Labels \cup {"root"}

\* What users enter: intervals of waiting times have a least and a most (randint), and
\* counts are numbers; a record of a channel is not the root's.
ASSUME RoutingAssumption ==
  /\ "root" \notin Channels
  /\ IsFiniteSet(Uuids)
  /\ \A pattern \in Patterns :
       /\ DOMAIN pattern \subseteq Nat
       /\ \A n \in DOMAIN pattern : pattern[n] \in Nat \X Nat /\ pattern[n][1] <= pattern[n][2]
  /\ Configs \subseteq Seq([name : Seq(Names), capacity : Nat, options : SUBSET STRING])

VARIABLES
  channels,   \* queue.job.channel
  functions,  \* queue.job.function
  cached,     \* what the cache of job_config holds
  jobs,       \* queue.job; asked, since and reopened are there for the properties only
  config,     \* the configuration in use
  manager,    \* channels of the runner: their options by full name
  taken,      \* the jobs that the runner takes for pending
  today, changes

routingVars == <<channels, functions, cached, jobs, config, manager, taken, today, changes>>

None == 0
RETRY_INTERVAL == 10 * 60
DefaultConfig == [channel |-> <<"root">>, pattern |-> <<>>]
Unlimited == [capacity |-> None, options |-> {}]

-----------------------------------------------------------------------------
(* Channels of the runner                                                   *)

Ancestors(name) == Prefixes(name) \ {<<>>}
FullName(name) ==
  IF name = <<>> \/ name[1] # "root" THEN <<"root">> \o name ELSE name

\* _get_channel_by_name: where a channel is, once it is created if it was missing.
\* Below the longest name that is known all labels are added again.
Place(known, name, fallback) ==
  LET full == FullName(name)
      bases == {p \in Ancestors(full) : p \in DOMAIN known}
      base == CHOOSE p \in bases : \A q \in bases : Len(q) <= Len(p)
  IN  IF full \in DOMAIN known \/ ~fallback \/ base = <<"root">> THEN full
      ELSE base \o Tail(full)

\* MUTANT: parents that are configured are created again.
CreatedAgain(known, place) ==
  [p \in DOMAIN known \cup Ancestors(place) |->
     IF p \in DOMAIN known \ Ancestors(place) THEN known[p] ELSE Unlimited]

\* Missing channels are created without limits.
Created(known, place) ==
  [p \in DOMAIN known \cup Ancestors(place) |-> IF p \in DOMAIN known THEN known[p] ELSE Unlimited]

\* parse_simple_config: without capacity there are no options and it is 1.
Parsed(entry) ==
  [capacity |-> IF entry.capacity = None THEN 1 ELSE entry.capacity,
   options |-> IF entry.capacity = None THEN {} ELSE entry.options]

Accepted(entries) ==
  \A n \in DOMAIN entries : "sequential" \in entries[n].options => Parsed(entries[n]).capacity = 1

\* simple_configure: get_channel_from_config for one entry after the other
Configured(entries) ==
  LET known[n \in 0..Len(entries)] ==
        IF n = 0 THEN [p \in {<<"root">>} |-> [capacity |-> 1, options |-> {}]]
        ELSE LET place == Place(known[n - 1], entries[n].name, FALSE)
             IN  [Created(known[n - 1], place) EXCEPT ![place] = Parsed(entries[n])]
  IN  known[Len(entries)]

\* notify, for jobs of channels with these names
Notified(manages, names) ==
  LET known[n \in 0..Len(names)] ==
        IF n = 0 THEN manages
        ELSE Created(known[n - 1], Place(known[n - 1], names[n], TRUE))
  IN  known[Len(names)]

-----------------------------------------------------------------------------
(* Records of channels and functions                                        *)

\* _compute_complete_name: a channel that is saved is called new, and what is below it
\* after it.
NameAfter(c, new, d) ==
  LET old == channels[c].name
      name == channels[d].name
  IN  IF d = c THEN new
      ELSE IF c \in DOMAIN channels /\ IsPrefix(old, name)
           THEN new \o SubSeq(name, Len(old) + 1, Len(name))
           ELSE name

\* UNIQUE(complete_name)
Unique(table) == \A c, d \in DOMAIN table : table[c].name = table[d].name => c = d

ConfigOf(f) ==
  IF f \in DOMAIN functions
  THEN [channel |-> channels[functions[f].channel].name,
        pattern |-> functions[f].pattern]
  ELSE DefaultConfig

\* job_config, which is cached
JobConfig(f) == IF f \in DOMAIN cached THEN cached[f] ELSE ConfigOf(f)
Remembered(f) == [g \in DOMAIN cached \cup {f} |-> JobConfig(g)]

\* _get_retry_seconds: the counts of the pattern in order, until one is not reached
RetrySeconds(pattern, retry, seconds) ==
  LET wait[n \in 0..retry] ==
        IF n \in DOMAIN pattern THEN pattern[n]
        ELSE IF n = 0 THEN <<RETRY_INTERVAL, RETRY_INTERVAL>> ELSE wait[n - 1]
  IN  IF seconds # 0 THEN <<seconds, seconds>> ELSE wait[retry]

-----------------------------------------------------------------------------

InitRouting ==
  /\ channels = [c \in {"root"} |-> [name |-> <<"root">>, interval |-> 2]]
  /\ functions = <<>> /\ cached = <<>> /\ jobs = <<>>
  /\ config \in {entries \in Configs : Accepted(entries)}
  /\ manager = Configured(config)
  /\ taken = {} /\ today = 1 /\ changes = 0

Changes == changes < MaxChanges /\ changes' = changes + 1

\* Functions that say where their jobs go, in the cache
InUse(c) ==
  {f \in DOMAIN functions \cap DOMAIN cached :
     IsPrefix(channels[c].name, channels[functions[f].channel].name)}

\* create and write of queue.job.channel; at installation one that exists is kept.
SaveChannel(c) ==
  /\ Changes
  /\ c \in DOMAIN channels /\ ~StaleRenames => InUse(c) = {}
  /\ \E label \in Labels, parent \in DOMAIN channels, days \in 1..2 :
       LET new == Append(channels[parent].name, label)
           saved == [d \in DOMAIN channels \cup {c} |->
                       [name |-> NameAfter(c, new, d),
                        interval |-> IF d = c THEN days ELSE channels[d].interval]]
       IN  /\ c \in DOMAIN channels => ~IsPrefix(channels[c].name, channels[parent].name)
           /\ Unique(saved)
           /\ channels' = saved
  /\ UNCHANGED <<functions, cached, jobs, config, manager, taken, today>>

\* unlink: a channel with children or functions is kept.
DeleteChannel(c) ==
  /\ Changes
  /\ c \in DOMAIN channels
  /\ \A d \in DOMAIN channels \ {c} : ~IsPrefix(channels[c].name, channels[d].name)
  /\ \A f \in DOMAIN functions : functions[f].channel # c
  /\ channels' = [d \in DOMAIN channels \ {c} |-> channels[d]]
  /\ UNCHANGED <<functions, cached, jobs, config, manager, taken, today>>

\* create and write of queue.job.function
\* MUTANT: the cache is not cleared.
SaveFunctionUncleared(f) ==
  /\ Changes
  /\ \E c \in DOMAIN channels, pattern \in Patterns :
       functions' = [g \in DOMAIN functions \cup {f} |->
                       IF g = f THEN [channel |-> c, pattern |-> pattern] ELSE functions[g]]
  /\ UNCHANGED <<channels, cached, jobs, config, manager, taken, today>>

SaveFunction(f) ==
  /\ Changes
  /\ \E c \in DOMAIN channels, pattern \in Patterns :
       functions' = [g \in DOMAIN functions \cup {f} |->
                       IF g = f THEN [channel |-> c, pattern |-> pattern] ELSE functions[g]]
  /\ cached' = <<>>
  /\ UNCHANGED <<channels, jobs, config, manager, taken, today>>

DeleteFunction(f) ==
  /\ Changes
  /\ f \in DOMAIN functions
  /\ functions' = [g \in DOMAIN functions \ {f} |-> functions[g]]
  /\ cached' = <<>>
  /\ UNCHANGED <<channels, jobs, config, manager, taken, today>>

-----------------------------------------------------------------------------
(* Jobs                                                                     *)

\* The channel a job is given, or that of its function
ChannelFor(given, of) == IF given # <<>> THEN given ELSE of.channel

\* store: the record of a job that is created.  since is the day it was first done or
\* cancelled, reopened whether the runner handed it out all the same, since it was last set
\* to pending by someone who means it.
Stored(given, f) ==
  [state |-> "pending", channel |-> ChannelFor(given, JobConfig(f)),
   done |-> None, cancelled |-> None,
   asked |-> ChannelFor(given, ConfigOf(f)), since |-> None, reopened |-> FALSE]

\* A job is created.
Delay(j, f) ==
  /\ j \notin DOMAIN jobs
  /\ \E given \in {<<>>} \cup {FullName(<<l>>) : l \in Labels} :
       jobs' = [i \in DOMAIN jobs \cup {j} |-> IF i = j THEN Stored(given, f) ELSE jobs[i]]
  /\ cached' = Remembered(f)
  /\ UNCHANGED <<channels, functions, config, manager, taken, today, changes>>

\* The runner reads the row of a job, and may create channels.
ReadRow(j) ==
  /\ j \in DOMAIN jobs
  /\ manager' = Created(manager, Place(manager, jobs[j].channel, TRUE))
  /\ taken' = IF jobs[j].state = "pending" THEN taken \cup {j} ELSE taken \ {j}
  /\ UNCHANGED <<channels, functions, cached, jobs, config, today, changes>>

Finished == {"done", "cancelled"}

\* set_job_enqueued, whatever became of the job since its row was read
HandOut(j) ==
  /\ j \in taken \cap DOMAIN jobs
  /\ taken' = taken \ {j}
  /\ jobs' = [jobs EXCEPT ![j].state = "running",
                          ![j].reopened = @ \/ jobs[j].state \in Finished]
  /\ UNCHANGED <<channels, functions, cached, config, manager, today, changes>>

\* set_done and set_cancelled, of a worker or a button
End(j) ==
  /\ j \in DOMAIN jobs /\ jobs[j].state \notin Finished
  /\ LET ended == [jobs EXCEPT ![j].since = IF @ = None THEN today ELSE @] IN
     \/ jobs' = [ended EXCEPT ![j].state = "done", ![j].done = today]
     \/ jobs' = [ended EXCEPT ![j].state = "cancelled", ![j].cancelled = today]
  /\ UNCHANGED <<channels, functions, cached, config, manager, taken, today, changes>>

\* set_failed, and what the runner does with a job found dead: the dates stay.
FailOrDie(j) ==
  /\ j \in DOMAIN jobs /\ jobs[j].state = "running"
  /\ \E state \in {"failed", "pending"} : jobs' = [jobs EXCEPT ![j].state = state]
  /\ UNCHANGED <<channels, functions, cached, config, manager, taken, today, changes>>

\* set_pending, of the button Requeue or for a retry
\* MUTANT: the date of the cancellation is kept.
RequeueKeepingDate(j) ==
  /\ Changes
  /\ j \in DOMAIN jobs /\ jobs[j].state # "pending"
  /\ jobs' = [jobs EXCEPT ![j].state = "pending", ![j].done = None, ![j].since = None,
                          ![j].reopened = FALSE]
  /\ UNCHANGED <<channels, functions, cached, config, manager, taken, today>>

RequeueJob(j) ==
  /\ Changes
  /\ j \in DOMAIN jobs /\ jobs[j].state # "pending"
  /\ jobs' = [jobs EXCEPT ![j].state = "pending", ![j].done = None, ![j].cancelled = None,
                          ![j].since = None, ![j].reopened = FALSE]
  /\ UNCHANGED <<channels, functions, cached, config, manager, taken, today>>

\* _gc_old_jobs: jobs of no known channel use the interval of root.
Interval(name) ==
  LET named == {c \in DOMAIN channels : channels[c].name = name}
  IN  IF named = {} THEN channels["root"].interval
      ELSE channels[CHOOSE c \in named : TRUE].interval

Old(job) ==
  \E date \in {job.done, job.cancelled} \ {None} : date <= today - Interval(job.channel)

GcOldJobs ==
  /\ \E j \in DOMAIN jobs : Old(jobs[j])
  /\ jobs' = [j \in {i \in DOMAIN jobs : ~Old(jobs[i])} |-> jobs[j]]
  /\ taken' = taken \cap DOMAIN jobs'
  /\ UNCHANGED <<channels, functions, cached, config, manager, today, changes>>

\* The server is started with another configuration: the cache and the channels of the
\* runner are new, which is notified of the jobs that are not finished.
Restart ==
  /\ Changes
  /\ config' \in {entries \in Configs : Accepted(entries)}
  /\ \E order \in SetToSeqs({j \in DOMAIN jobs : jobs[j].state \notin Finished}) :
       manager' = Notified(Configured(config'),
                           [n \in DOMAIN order |-> jobs[order[n]].channel])
  /\ taken' = {j \in DOMAIN jobs : jobs[j].state = "pending"}
  /\ cached' = <<>>
  /\ UNCHANGED <<channels, functions, jobs, today>>

NextDay ==
  /\ today < MaxTime /\ today' = today + 1
  /\ UNCHANGED <<channels, functions, cached, jobs, config, manager, taken, changes>>

NextRouting ==
  \/ \E c \in Channels : SaveChannel(c) \/ DeleteChannel(c)
  \/ \E f \in Functions : SaveFunction(f) \/ DeleteFunction(f)
  \/ \E j \in Uuids : \/ \E f \in Functions : Delay(j, f)
                      \/ ReadRow(j) \/ HandOut(j) \/ End(j) \/ FailOrDie(j) \/ RequeueJob(j)
  \/ GcOldJobs \/ Restart \/ NextDay

SpecRouting == InitRouting /\ [][NextRouting]_routingVars

-----------------------------------------------------------------------------

\* The options that the configuration gives to a full name: the last entry counts.
Entries(full) == {n \in DOMAIN config : FullName(config[n].name) = full}
OptionsOf(full) == Parsed(config[CHOOSE n \in Entries(full) : \A m \in Entries(full) : m <= n])

\* A job passes through the channels that are configured for a beginning of the name
\* its function had for it when it was delayed, with the options of the configuration,
\* and through no other that is configured: whatever the order of the entries, the
\* channels that jobs added meanwhile, and however functions were edited.
LimitsApply ==
  \A j \in DOMAIN jobs :
    LET passed == Ancestors(Place(manager, jobs[j].channel, TRUE))
        meant == Ancestors(FullName(jobs[j].asked))
    IN  \A full \in passed \cup meant : Entries(full) # {} =>
          full \in passed \cap meant /\ manager[full] = OptionsOf(full)

\* The wait before a retry is that of the pattern saved for the function, at the greatest
\* count that is reached; ten minutes when there is none; and there is one to choose.
RetriesWaitAsSaid ==
  \A f \in Functions, retry \in 1..4, seconds \in {0, 5} :
    LET saved == ConfigOf(f).pattern
        reached == {n \in DOMAIN saved : n <= retry}
        wait == RetrySeconds(JobConfig(f).pattern, retry, seconds)
    IN  /\ wait[1] <= wait[2]
        /\ seconds # 0 => wait = <<seconds, seconds>>
        /\ seconds = 0 /\ reached = {} => wait = <<RETRY_INTERVAL, RETRY_INTERVAL>>
        /\ seconds = 0 =>
             \A n \in reached : (\A m \in reached : m <= n) => wait = saved[n]

\* A job is deleted only if it was done or cancelled as many days ago as its channel says,
\* and was not asked for again since.  It may not be finished any more only because the
\* runner had not read that it was when it handed the job out.
OnlyOldJobsGo ==
  [][\A j \in DOMAIN jobs \ DOMAIN jobs' :
       /\ jobs[j].since # None /\ today - jobs[j].since >= Interval(jobs[j].channel)
       /\ jobs[j].state \in Finished \/ jobs[j].reopened]_routingVars
=============================================================================
