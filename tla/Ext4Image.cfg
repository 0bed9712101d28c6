CONSTANTS
  BlockSize = 64
  MaxLen = 2
  NameBytes <- MCNameBytes
  NameRank <- MCNameRank
  MaxLinks = 5
  MaxFileSize = 600
  BlocksPerGroup = 40
  InodesPerBlock = 4
  InodesPerGroup = {8, 16}
  Reserve = 2
  Entries <- MCEntries
  MaxEntries <- MCMaxEntries
  Sizes = {1000, 2700, 5200}
  Strict = TRUE
SPECIFICATION Spec
CHECK_DEADLOCK FALSE
INVARIANTS TreeIndexed LinkCountsExact TidyArchives Reproducible
INVARIANTS FilesReadBack RangesReadBack LookupsAgree DirsWellFilled
INVARIANTS BlocksOwnedOnce UsedAreMarked CountsAgree
PROPERTIES ImplementsRootfs
