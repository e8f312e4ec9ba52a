SPECIFICATION Spec
CONSTANTS
  e1 = e1
  e2 = e2
  fact = fact
  EventIds = {e1}
  Contents = {fact}
  LegacyIds = {}
  LoaderIds = {}
  Items = {}
  MaxEvents = 2
  Retention = 1
  BatchSize = 1
  Budgets <- SignBudgets
PROPERTY ReportsUnderConsent
CHECK_DEADLOCK FALSE
