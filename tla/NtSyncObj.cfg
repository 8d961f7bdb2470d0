SPECIFICATION Spec
CONSTANTS
  t1 = t1
  t2 = t2
  t3 = t3
  s1 = s1
  s2 = s2
  s3 = s3
  m1 = m1
  e1 = e1
  e2 = e2
  NoOne = NoOne
  Threads = {t1, t2, t3}
  Objs = {m1, e1, e2}
  Type <- MCType
  Max <- MCMax
  Manual <- MCManual
  Count0 <- MCCount
  Calls <- ObjCalls
  MaxRec = 2
  FastPath = TRUE
  Spin = FALSE
  Signals = FALSE
  Mortal = {}
INVARIANT NoLostWakeup
PROPERTY ImplementsSyncObjects
