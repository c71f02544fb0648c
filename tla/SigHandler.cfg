SPECIFICATION FairSpec
CONSTANTS
  Threads = {t1, t2}
  Handlers = {h1, h2}
  Cancelers = {sigWait, other}
  MaxCancels = 2
INVARIANTS
  RegistryExact
  OnlyLiving
  CancelReaches
PROPERTY DestructorsEnd
CHECK_DEADLOCK FALSE
