SPECIFICATION Spec
CONSTANTS
  Jobs = {j1}
  Tasks = {t1, t2}
  Fieldmen = {f1}
  Workers = {w1, w2}
  Requests = {r1, r2}
  None = None
SYMMETRY Symmetry
CHECK_DEADLOCK FALSE
INVARIANT FinalizedIsCommitted
