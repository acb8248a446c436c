\* A member leaves, may come back under another copy, and the lock lapses once under its holder.
CONSTANTS
  Copies = {c1, c2, c3}
  Founder = c1
  UserOf <- FounderReturns
  Clients = {p, q}
  Workers = {q}
  Sources = {main}
  Main = main
  Txs = {t}
  Moves = {}
  Values = {u}
  MainNames = {u}
  DefaultName = u
  None = none
  Attempts = 1
  MaxOps = 5
  MaxBatch = 1
  MaxFaults = 0
  MaxLapses = 1
SPECIFICATION Spec
CHECK_DEADLOCK FALSE
INVARIANTS NoLostUpdate OneApplier
PROPERTIES Monotone SeveredStaysOut ForksAreFrozen
