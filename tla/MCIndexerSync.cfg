SPECIFICATION FairSpec
CONSTANTS
  g = g
  a1 = a1
  a2 = a2
  a3 = a3
  b2 = b2
  b3 = b3
  NULL = NULL
  r1 = r1
  r2 = r2
  Relays = {r1, r2}
  Blocks = {g, a1, a2, a3, b2, b3}
  MaxHeight = 3
  Prev <- MCPrev
  Chains <- ForkChains
  ConfigGenesis = g
  HasArchive = TRUE
  MaxBlocks = 2
  Backfill = 2
  BatchSize = 2
  ArchiveBatch = 2
  LiveCatchup = 1
  MaxFaults = 3
  MaxRestarts = 1
INVARIANTS IndexSound FeedSound ReadyMeansCaughtUp
PROPERTIES NoSilentRewrite Settles ArchiveFills
