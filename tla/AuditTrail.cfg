\* Two processes, two records, calls within calls.
CONSTANTS
  Procs = {p, q}
  Recs = {a, b}
  Vals = {v0, v1}
  Falsy = v0
  None = None
  Rules <- SomeRules
  Rewrites = FALSE
  MaxDepth = 2
  MaxCalls = 3
  MaxRequests = 1
  MaxRetries = 1
  MaxEvents = 4
  MaxBefore = 1
SPECIFICATION Spec
SYMMETRY Interchangeable
INVARIANTS
  PatchesFollowRule
  ChangesTold
  RequestsExist
CHECK_DEADLOCK FALSE
