SPECIFICATION FairServe
CONSTANTS
  a0 = a0
  a1 = a1
  a2 = a2
  a3 = a3
  b2 = b2
  b3 = b3
  t0 = t0
  t2 = t2
  t3 = t3
  alice = alice
  miner = miner
  pool = pool
  None = None
  MaxHeight = 3
  MaxBlocks = 3
  MaxBytes = 2
  MaxWipes = 1
  Blocks = {a0, a1, a2, a3, b2, b3}
  Txs = {t0, t2, t3}
  Accounts = {alice}
  Proposers = {miner, pool}
  HeightOf <- MCHeightOf
  SizeOf <- MCSizeOf
  ProposerOf <- MCProposerOf
  TxOf <- MCNoTx
  AccountsOf <- MCAccountsOf
  ParentOf <- MCParentOf
INVARIANTS ReplicaSound
PROPERTIES FollowsTip
