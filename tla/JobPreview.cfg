SPECIFICATION PreviewSpec
CONSTANTS
  Jobs = {j1}
  Tasks = {t1}
  Fieldmen = {f1}
  Workers = {w1}
  Requests = {r1}
  StatusReaders = {}
  PreviewReaders = {p1}
  None = None
CHECK_DEADLOCK FALSE
INVARIANTS
  CacheTypeOK
  ReadyPreviewIsComplete
