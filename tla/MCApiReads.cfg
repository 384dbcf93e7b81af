SPECIFICATION ReadsSpec
CONSTANTS
  b0 = b0
  b1 = b1
  b2 = b2
  b3 = b3
  b4 = b4
  c3 = c3
  t0 = t0
  t1 = t1
  t3 = t3
  t4 = t4
  alice = alice
  bob = bob
  miner = miner
  pool = pool
  nobody = nobody
  NoMiner = nobody
  None = None
  MaxHeight = 4
  MaxBlocks = 3
  MaxBytes = 4
  Window = 3
  PageLimit = 2
  Depth = 2
  CacheMax = 1
  Bits = {1, 4}
  MaxDepth = 2
  MaxSelections = 4
  MaxRoots = 3
  MaxChars = 2
  Aliases = {"a", "b"}
  Levels = 4
  Blocks = {b0, b1, b2, b3, b4, c3}
  Txs = {t0, t1, t3, t4}
  Accounts = {alice, bob}
  Proposers = {miner, pool, nobody}
  HeightOf <- MCHeightOf
  SizeOf <- MCSizeOf
  ProposerOf <- MCProposerOf
  TxOf <- MCTxOf
  AccountsOf <- MCAccountsOf
  TimeOf <- MCTimeOf
  BitsOf <- MCBitsOf
  Chains <- MCChains
  Inputs <- MCInputs
  Queries <- MCQueries
INVARIANTS StoreSound ListsSound WindowsHonest StatsFresh PageRight ParsesExactly FailureIsolated
