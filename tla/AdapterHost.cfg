SPECIFICATION FairSpec
CONSTANTS
  Instances = {i1}
  None = None
  Topics = {t1}
  Calls = {1, 2}
  MaxEntries = 3
INVARIANTS NoOrphan SubscriptionsAgree SettledAsConfigured
PROPERTY ComesUp
CHECK_DEADLOCK FALSE
