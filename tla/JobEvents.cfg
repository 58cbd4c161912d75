SPECIFICATION FairEventSpec
CONSTANTS
  Jobs = {j1}
  Tasks = {t1}
  Fieldmen = {f1}
  Workers = {w1}
  Requests = {r1}
  None = None
CONSTRAINT NoReset
CHECK_DEADLOCK FALSE
INVARIANTS
  OutcomeIsDecided
PROPERTIES
  JobsSettle
  SubscribersAreTold
  AbandonedHandlersEnd
