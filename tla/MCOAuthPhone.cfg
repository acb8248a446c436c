\* An app retries a lost refresh twice after the strict window, and is signed out.
CONSTANTS
  i1 = i1
  i2 = i2
  Installs = {i1, i2}
  Tokens = {1, 2, 3}
  Families = {1, 2}
  Requests = {r, s}
  Start <- MCStart
  Home <- MCHome
  Origins = {"own"}
  Grace = 0
  AccessTtl = 2
  Window = 1
  None = none
SPECIFICATION MCSpec
CHECK_DEADLOCK FALSE
SYMMETRY RequestSymmetry
INVARIANT NeverSignsThePhoneOut
