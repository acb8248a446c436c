\* Two runs at a time over three minutes of two ticks, and one edit of the owner.
CONSTANTS
  Runs = {a, b}
  MaxTime = 6
  Minute = 2
  LockTtl = 2
  Cooldown = 3
  MaxEdits = 1
SPECIFICATION Spec
CHECK_DEADLOCK FALSE
SYMMETRY RunSymmetry
INVARIANTS TypeOK NoDoubleFire StampIsTold
