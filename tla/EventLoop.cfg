CONSTANTS
  main = main
  io = io
  w = w
  k1 = k1
  k2 = k2
  k3 = k3
  Base = main
  Pool = {io}
  Others = {w}
  Tasks = {k1, k2}
  Null = Null
SPECIFICATION FairSpec
INVARIANTS
  NoSleepOverWork
  RunInOrder
PROPERTY
  EveryFunctorRuns
CHECK_DEADLOCK FALSE
