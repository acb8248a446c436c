\* Two restores at once and a scan: the rollback of the one takes back a claim that the
\* other one, or a later restore, has relied on.
CONSTANTS
  MaxDay = 2
  Anchors = {1}
  Ends = {0}
  Kinds = {"buy-asset"}
  Scans = {s}
  Requests = {q, r}
  MaxStall = 1
  MaxErrors = 1
SPECIFICATION Spec
CHECK_DEADLOCK FALSE
PROPERTY NoBackfill
