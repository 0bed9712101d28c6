SPECIFICATION Spec
CONSTANTS
  k1 = k1  k2 = k2  d1 = d1  d2 = d2  v1 = v1  v2 = v2
  b1 = b1  b2 = b2  m1 = m1  c1 = c1  c2 = c2
  None = None
  Keys = {k1, k2}
  Dests = {d1}
  Disks = {}
  Builders = {b1, b2}
  Copiers = {}
  Collectors = {}
  Inodes <- InodeNumbers
  Pool <- NumberPool
  Stem <- OwnStem
  Requests <- SharedDests
  Linkable = {}
  Clonable = {}
  Renames = TRUE
  Journal = TRUE
  Faults = {"crash"}
INVARIANTS CatalogWholeAtRest
