\* Nested channels, one of them sequential, one throttled, one paused, a job with
\* dependencies, a restart of the runner.
CONSTANTS
  root = root
  mid = mid
  leaf = leaf
  held = held
  w = w
  x = x
  y = y
  z = z
  Tree = {root, mid, leaf, held}
  Root = root
  ParentOf <- Nested
  Capacity <- NestedCapacity
  Sequential = {leaf}
  Throttle <- MidThrottle
  Paused = {held}
  Jobs = {w, x, y, z}
  ChannelOf <- NestedChannel
  Rank <- ByName
  Etas = {0}
  Delay = 2
  Dependents = {y}
  MaxTime = 4
  LazyTime = 20
  MaxEvents = 2
SPECIFICATION FairSpec
INVARIANTS
  CapacityHeld
  FlowConserved
  SleepsOnlyWhenIdle
PROPERTIES
  SequentialInOrder
  EveryJobGetsItsTurn
CHECK_DEADLOCK FALSE
