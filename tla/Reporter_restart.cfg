SPECIFICATION RecordsSpec
CONSTANTS
  e1 = e1
  e2 = e2
  fact = fact
  EventIds = {e1, e2}
  Contents = {fact}
  LegacyIds = {}
  LoaderIds = {e2}
  Items = {}
  MaxEvents = 2
  Retention = 1
  BatchSize = 2
  ListLimit = 1
  Budgets <- ReporterBudgets
INVARIANTS WithdrawnIsErased WithheldLeavesNothing IntentIsDurable UnknownNeverAutoResent SentWasIngested TriesWereAsked
PROPERTIES ImplementsEventStore ImplementsDelivery AnswerIsHonest ListingAgrees
CHECK_DEADLOCK FALSE
