SPECIFICATION Spec
CONSTANTS
  a = a
  b = b
  c1 = c1
  s1 = s1
  e1 = e1
  m1 = m1
  k1 = k1
  NoOne = NoOne
  Threads = {a, b, c1}
  Objs = {s1, e1, m1, k1}
  Type <- MCType
  Max <- MCMax
  Manual <- MCManual
  Count0 <- MCCount
  TimerOf <- MCTimerOf
  Programs <- TwicePrograms
  MaxRec = 1
  MaxSuspend = 1
  MaxApc = 1
INVARIANT SignalsOnce
CHECK_DEADLOCK FALSE
