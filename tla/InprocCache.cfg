SPECIFICATION Spec
CONSTANTS
  t1 = t1
  t2 = t2
  t3 = t3
  h1 = h1
  h2 = h2
  None = None
  Threads = {t1, t2, t3}
  Handles = {h1, h2}
  Uncached = {h2}
  Things = {x1, x2}
  MaxFds = 5
  Uses <- MCUses
  Closes <- MCCloses
INVARIANTS TypeOK HeldStaysOpen CacheCoherent OneOwner
