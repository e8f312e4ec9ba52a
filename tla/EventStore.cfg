SPECIFICATION Spec
CONSTANTS
  e1 = e1
  old = old
  c1 = c1
  c2 = c2
  bundle = bundle
  EventIds = {e1, old}
  Contents = {c1, c2}
  LegacyIds = {old}
  LoaderIds = {e1}
  Items = {bundle}
  MaxEvents = 1
  Retention = 1
  MaxClock = 3
INVARIANTS TypeOK LegacyStaysRetired ReadersSeeDurableState
PROPERTIES OutcomesFinal FactsImmutable AttemptedRowsKept
