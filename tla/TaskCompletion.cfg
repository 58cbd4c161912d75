\* Two jobs that may plan the same stop, and a reader of any of their views.
SPECIFICATION FairSpec
CONSTANTS
  Jobs = {j1, j2}
  Tasks = {t1}
  Fieldmen = {f1}
  Completers = {c1, c2}
  Viewers = {v1}
  Seen = j1
  None = None
CHECK_DEADLOCK FALSE
INVARIANTS
  ViewsTypeOK
  ReadyViewIsComplete
PROPERTIES
  ViewsConverge
