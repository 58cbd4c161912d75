SPECIFICATION Spec
CONSTANTS
  Jobs = {j1, j2}
  Tasks = {t1}
  Fieldmen = {f1}
  Completers = {c1}
  Viewers = {}
  Seen = j1
  None = None
CHECK_DEADLOCK FALSE
PROPERTY RefusalsAreDeserved
