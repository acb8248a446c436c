\* Errors and crashes anywhere; one process, so the lock is never contended.
CONSTANTS
  Copies = {c1, c2}
  Founder = c1
  UserOf <- OwnUsers
  Clients = {p}
  Workers = {p}
  Sources = {main}
  Main = main
  Txs = {t}
  Moves = {}
  Values = {u, v}
  MainNames = {u}
  DefaultName = u
  None = none
  Attempts = 2
  MaxOps = 5
  MaxBatch = 1
  MaxFaults = 2
  MaxLapses = 0
SPECIFICATION Spec
CHECK_DEADLOCK FALSE
INVARIANTS TypeOK Converged LagsNeverDiverges
PROPERTY ImplementsChainLog
