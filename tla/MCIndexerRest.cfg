SPECIFICATION MCRestSpec
CONSTANTS
  g = g
  a1 = a1
  a2 = a2
  b2 = b2
  b1 = b1
  NULL = NULL
  r1 = r1
  Relays = {r1}
  Blocks = {g, a1, a2, b1, b2}
  MaxHeight = 2
  Prev <- MCPrev
  Chains <- TwoChains
  ConfigGenesis = g
  HasArchive = TRUE
  MaxBlocks = 2
  Backfill = 1
  BatchSize = 1
  ArchiveBatch = 1
  LiveCatchup = 1
  MaxFaults = 1
  MaxRestarts = 1
  CacheMax = 1
  Sought = {0, 1, 2, a1, a2, b1, b2}
INVARIANTS SharedArchiveSound
PROPERTIES FillsAnyway SettlesAnyway
