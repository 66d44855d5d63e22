\* Two endpoints, four routes on three paths, two processes.
CONSTANTS
  Records = {r1, r2}
  Routes = {a_get, a_post, b, c}
  a_get = a_get
  a_post = a_post
  b = b
  c = c
  PathOf <- Paths
  Threads = {p1, p2}
  Procs = {p1, p2}
  ProcessOf <- Prefork
  NoRow = NoRow
  NoMap = NoMap
  MaxEvents = 3
SPECIFICATION Spec
SYMMETRY AnyRecord
INVARIANTS
  SyncedInLine
PROPERTIES
  NoStaleRoutes
CHECK_DEADLOCK FALSE
