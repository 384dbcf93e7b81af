SPECIFICATION Spec
CONSTANTS
  main = main
  test = test
  Nets = {main, test}
  TopHeight = 2
  Mining = {main}
  PageSize = 2
  MaxCalls = 2
  MaxRoutes = 2
INVARIANTS PageSound CountedOnce
PROPERTIES CatchesUp
