\* Two scans, a day late at most, and two requests of the owner over three days.
CONSTANTS
  MaxDay = 3
  Ends = {0, 1}
  Anchors = {1, 2}
  Kinds = {"buy-asset", "cash-deduct"}
  Scans = {s, t}
  Requests = {q, r}
  MaxStall = 1
  MaxErrors = 1
SPECIFICATION Spec
CHECK_DEADLOCK FALSE
CONSTRAINT UnderWay
ACTION_CONSTRAINT RestoresAlone
SYMMETRY Symmetry
INVARIANTS TypeOK AtMostOnce WatermarkIsClaimed
PROPERTIES NoBackfill BookedInForce DroppedIsNotBooked
