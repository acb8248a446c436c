\* Two deliveries and three jobs, two of which are of the same delivery, two
\* attempts each and one worker that dies.
CONSTANTS
  Deliveries = {d1, d2}
  Jobs = {j1, j2, j3}
  MaxAttempts = 2
  Threshold = 2
  MaxCrashes = 1
SPECIFICATION Spec
CHECK_DEADLOCK FALSE
SYMMETRY Symmetry
INVARIANTS TypeOK StreakIsDistinct FailureIsCounted
PROPERTY DeliveredStaysDelivered
