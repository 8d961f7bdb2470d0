SPECIFICATION FairSpec
CONSTANTS
  c1 = c1
  c2 = c2
  k1 = k1
  k2 = k2
  w1 = w1
  g1 = g1
  s1 = s1
  x1 = x1
  NoOne = NoOne
  TimerThread = TimerThread
  Clients = {c1, c2}
  Workers = {k1, k2}
  Objs = {w1, g1, s1, x1}
  Simples = {s1}
  Timers = {x1}
  Periodic = {x1}
  Grouped = {g1, s1, x1}
  Detaching = {w1, g1}
  Long = {w1}
  Priority <- MCPriority
  Max0 = 2
  MaxPending = 1
  Programs <- PoolPrograms
PROPERTIES  Reclaimed
INVARIANTS TypeOK AssertionsHold MembersQuiet WorkHasWorker
CHECK_DEADLOCK FALSE
