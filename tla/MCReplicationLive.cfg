\* A client and a worker, one error or crash.
CONSTANTS
  Copies = {c1, c2}
  Founder = c1
  UserOf <- OwnUsers
  Clients = {p}
  Workers = {q}
  Sources = {main}
  Main = main
  Txs = {t}
  Moves = {}
  Values = {u, v}
  MainNames = {u}
  DefaultName = u
  None = none
  Attempts = 2
  MaxOps = 4
  MaxBatch = 1
  MaxFaults = 1
  MaxLapses = 0
SPECIFICATION FairSpec
CHECK_DEADLOCK FALSE
PROPERTY Delivered
