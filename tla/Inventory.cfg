SPECIFICATION InventorySpec
CONSTANTS
  p = p
  q = q
  v1 = v1
  v2 = v2
  fact = fact
  Names = {p, q}
  Versions = {v1, v2}
  Budgets <- InventoryBudgets
  EventIds <- AllIds
  LoaderIds <- AllIds
  LegacyIds = {}
  Items <- AllItems
  Contents = {fact}
  MaxEvents = 3
  Retention = 1
  MaxClock = 3
INVARIANTS NoFalseUninstall
PROPERTIES InstallsCatchUp
CHECK_DEADLOCK FALSE
