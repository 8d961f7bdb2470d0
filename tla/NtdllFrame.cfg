SPECIFICATION Spec
CONSTANTS
  t1 = t1
  t2 = t2
  t3 = t3
  q1 = q1
  q2 = q2
  NoOne = NoOne
  Threads = {t1, t2, t3}
  Buckets = {q1, q2}
  QueueOf <- MCQueueOf
  Ops <- MCOps
  MaxTids = 1
  SpinCount = TRUE
  MaxRec = 2
  MaxWakes = 1
INVARIANT EntryAlive
