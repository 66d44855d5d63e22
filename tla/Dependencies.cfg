\* Two users press any buttons on three jobs while workers finish.
CONSTANTS
  a = a
  b = b
  c = c
  d = d
  Jobs = {a, b, c}
  Graphs <- ThreeJobs
  Users = {u1, u2}
  UserOps = {"done", "cancelled", "pending"}
  MaxEvents = 2
SPECIFICATION Spec
SYMMETRY Alike
INVARIANTS
  NoneStrandedByWorkers
  RunsAfterParents
  NothingRunsUnderCancelled
PROPERTIES
  ReleasedWhenDone
CHECK_DEADLOCK FALSE
