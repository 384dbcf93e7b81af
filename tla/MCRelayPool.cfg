CONSTANTS
  r1 = r1
  r2 = r2
  g = g
  a = a
  b = b
  x = x
  None = None
  Relays = {r1, r2}
  Blocks = {g, a, b, x}
  Chains <- TheChains
  Starts <- TheStarts
  Configured = None
  ReadHeight = 1
  MaxMoves = 2
SPECIFICATION Spec
CHECK_DEADLOCK FALSE
INVARIANTS PoolSound Paired
PROPERTIES ResultHonest Recovers
