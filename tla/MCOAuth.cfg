\* Two installs of one app, two requests at once, every origin of their families.
CONSTANTS
  i1 = i1
  i2 = i2
  Installs = {i1, i2}
  Tokens = {1, 2, 3, 4}
  Families = {1, 2, 3}
  Requests = {r, s}
  Start <- MCStart
  Home <- MCHome
  Origins = {"own", "shared", "null"}
  Grace = 0
  AccessTtl = 2
  Window = 1
  None = none
SPECIFICATION MCSpec
CHECK_DEADLOCK FALSE
ACTION_CONSTRAINTS WhileGranted OneActs
VIEW Seen
SYMMETRY RequestSymmetry
INVARIANTS TypeOK OneEnd HonestIsServed EnvelopesAreCurrent
PROPERTIES RevokedStaysRevoked OnlyUnusedIsServedLate ReuseEndsTheChain SignOutIsExact
