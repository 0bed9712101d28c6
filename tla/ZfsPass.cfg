SPECIFICATION FairSpec
CONSTANTS
  k1 = k1  k2 = k2  d1 = d1  v1 = v1  v2 = v2
  b1 = b1  b2 = b2  m1 = m1  c1 = c1  c2 = c2
  None = None
  Keys = {k1}
  Dests = {d1}
  Disks = {v1}
  Builders = {b1, b2}
  Copiers = {m1}
  Collectors = {c1}
  Worlds <- CalmAndRough
INVARIANTS TypeOK ClonesWhole Committed PassCompletes BuildsSucceed
PROPERTIES ForgetsOnlyDestroyed EveryCallReturns
