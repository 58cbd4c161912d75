SPECIFICATION Spec
CONSTANTS
  Tasks = {t1}
  Fieldmen = {f1}
  Positions = {p1, p2}
  Land = {p1}
  South = {p2}
  Knows <- MCKnows
  Priorities = {a1, a2}
  Requests = {r1, r2}
  Viewers = {v1}
  Processes = {w1, w2}
  BatchSize = 2
  Permits = 1
  MaxConsecutive429 = 2
  None = None
SYMMETRY Symmetry
CHECK_DEADLOCK FALSE
INVARIANTS
  DataTypeOK
  AddressFollowsPosition
  FallbackIsNotCached
  StaleOnlyWhenRaced
