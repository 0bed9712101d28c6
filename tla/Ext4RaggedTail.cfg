CONSTANTS
  BlockSize = 64
  MaxLen = 2
  NameBytes <- MCNameBytes
  NameRank <- MCNameRank
  MaxLinks = 5
  MaxFileSize = 600
  BlocksPerGroup = 40
  InodesPerBlock = 4
  InodesPerGroup = {8, 16}
  Reserve = 2
  Entries <- MCEntries
  MaxEntries <- MCMaxEntries
  Sizes = {2561}
  Strict = TRUE
SPECIFICATION Spec
CHECK_DEADLOCK FALSE
INVARIANTS GroupsCoverImage
