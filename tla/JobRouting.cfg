CONSTANTS
  Channels = {c, d}
  Labels = {"a", "b"}
  Functions = {"f"}
  Patterns <- MCPatterns
  Uuids = {"j"}
  Configs <- MCConfigs
  MaxTime = 3
  MaxChanges = 3
  StaleRenames = FALSE
SPECIFICATION SpecRouting
SYMMETRY AnyChannel
INVARIANTS LimitsApply RetriesWaitAsSaid
PROPERTIES OnlyOldJobsGo
CHECK_DEADLOCK FALSE
