\* One job, two workers: every interleaving of a job with late, duplicated and
\* lost requests, dead workers, conflicts, a restart of the runner and a user.
CONSTANTS
  Jobs = {j1}
  Workers = {w1, w2}
  AllowCommit = {}
  MaxRetries = 2
  Conflicts = TRUE
  MaxFaults = 2
  MaxClicks = 2
  MaxRequests = 2
  RetryCap = 5
SPECIFICATION FairSpec
INVARIANTS
  TypeOK
  OneExecution
  WorkIsDoneOnce
  NoSecondHandout
PROPERTIES
  ImplementsContract
  EveryJobSettles
CHECK_DEADLOCK FALSE
