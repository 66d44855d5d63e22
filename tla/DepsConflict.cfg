\* Two parents of one job finish; one of them releases another job as well.
CONSTANTS
  a = a
  b = b
  c = c
  d = d
  Jobs = {a, b, c, d}
  Graphs <- OnlyOverlap
  Users = {}
  UserOps = {}
  MaxEvents = 0
SPECIFICATION Spec
INVARIANTS
  NoJobStranded
CHECK_DEADLOCK FALSE
