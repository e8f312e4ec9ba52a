SPECIFICATION FairSpec
CONSTANTS
  e1 = e1
  e2 = e2
  fact = fact
  EventIds = {e1, e2}
  Contents = {fact}
  LegacyIds = {}
  LoaderIds = {e2}
  Items = {}
  MaxEvents = 2
  Retention = 1
  BatchSize = 1
  Budgets <- LivenessBudgets
PROPERTIES EventsSettle WithdrawalCompletes JobsDrain
CHECK_DEADLOCK FALSE
