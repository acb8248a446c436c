\* Batches of transactions and cash movements, booked on a second source, under an
\* error or a crash.
CONSTANTS
  Copies = {c1, c2}
  Founder = c1
  UserOf <- OwnUsers
  Clients = {p}
  Workers = {p}
  Sources = {main, s}
  Main = main
  Txs = {t1, t2}
  Moves = {m}
  Values = {u, v}
  MainNames = {u}
  DefaultName = u
  None = none
  Attempts = 1
  MaxOps = 5
  MaxBatch = 2
  MaxFaults = 1
  MaxLapses = 0
SPECIFICATION Spec
SYMMETRY TxSymmetry
CHECK_DEADLOCK FALSE
INVARIANTS Converged LagsNeverDiverges
