\* The whole life of a group: joins, kicks, departures, dissolution and deletion,
\* under two crashes.
CONSTANTS
  Users = {a, b, c}
  Founder = a
  MaxMembers = 2
  None = none
  LateAccepts = TRUE
  MaxJoins = 3
  MaxCrashes = 2
SPECIFICATION FairSpec
CHECK_DEADLOCK FALSE
INVARIANTS TypeOK OneOwner OwnedAtRest DissolvedIsEmpty WithinCap
PROPERTIES AuthorizedJoins OwnerlessIsRepaired
