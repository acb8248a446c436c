\* A replica create that crashes before its link is made again.
CONSTANTS
  Copies = {c1, c2}
  Founder = c1
  UserOf <- OwnUsers
  Clients = {p}
  Workers = {p}
  Sources = {main}
  Main = main
  Txs = {t}
  Moves = {}
  Values = {u, v}
  MainNames = {u}
  DefaultName = u
  None = none
  Attempts = 2
  MaxOps = 5
  MaxBatch = 1
  MaxFaults = 1
  MaxLapses = 0
SPECIFICATION Spec
CHECK_DEADLOCK FALSE
INVARIANT ExactlyOnce
