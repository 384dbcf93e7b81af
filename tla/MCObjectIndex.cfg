SPECIFICATION Spec
CONSTANTS
  None = None
  g0 = g0
  a1 = a1
  a2 = a2
  a3 = a3
  b2 = b2
  b3 = b3
  c3 = c3
  lock = lock
  claim = claim
  refund = refund
  issue = issue
  htlc = htlc
  token = token
  MaxHeight = 3
  Blocks = {g0, a1, a2, a3, b2, b3, c3}
  Txs = {lock, claim, refund, issue}
  Objects = {htlc, token}
  Statuses = {"locked", "claimed", "refunded", "active"}
  HeightOf <- MCHeightOf
  TxOf <- MCTxOf
  ObjectOf <- MCObjectOf
  StatusOf <- MCStatusOf
INVARIANTS CatalogSound CurrentWhenOrdered
