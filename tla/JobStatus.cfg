SPECIFICATION FairClientSpec
CONSTANTS
  Jobs = {j1}
  Tasks = {t1}
  Fieldmen = {f1}
  Workers = {w1}
  Requests = {r1}
  StatusReaders = {s1}
  PreviewReaders = {}
  None = None
CONSTRAINT NoReset
CHECK_DEADLOCK FALSE
PROPERTIES
  PollersAreTold
  StatusCacheConverges
