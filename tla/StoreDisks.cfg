SPECIFICATION Spec
CONSTANTS
  k1 = k1  k2 = k2  d1 = d1  d2 = d2  v1 = v1  v2 = v2
  b1 = b1  b2 = b2  m1 = m1  c1 = c1  c2 = c2
  None = None
  Keys = {k1}
  Dests = {}
  Disks = {v1, v2}
  Builders = {b1}
  Copiers = {m1}
  Collectors = {c1}
  Inodes <- InodeNumbers
  Pool <- NumberPool
  Stem <- OwnStem
  Requests <- StoreOnly
  Linkable = {}
  Clonable = {v1}
  Renames = TRUE
  Journal = TRUE
  Faults = {"crash", "io", "busy"}
INVARIANTS BlobWhole
PROPERTIES MaterializesAsRequested
