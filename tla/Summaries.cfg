SPECIFICATION Spec
CONSTANTS
  Sessions = {"main", "fork"}
  Reasons = {"completed", "aborted"}
  Inherited <- MC_Inherited
  MaxTurns = 3
  MaxRecords = 2
  MaxPending = 1
  MaxFaults = 1
  Names = {"acme", "large"}
  MaxSafe = 6
  QueryCeiling = 3
INVARIANTS
  SummaryHasSource
  NoIdentityConflict
  NoSilentLoss
  RecoveryIsComplete
PROPERTIES
  TurnsSettle
CHECK_DEADLOCK FALSE
