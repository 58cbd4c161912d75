SPECIFICATION Spec
CONSTANTS
  Tasks = {t1}
  Fieldmen = {f1}
  Positions = {p1}
  Land = {p1}
  South = {}
  Knows <- MCKnows
  Priorities = {a1}
  Requests = {r1}
  Viewers = {v1}
  Processes = {w1}
  BatchSize = 1
  Permits = 1
  MaxConsecutive429 = 1
  None = None
CHECK_DEADLOCK FALSE
PROPERTY BreakerStops
