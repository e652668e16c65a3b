SPECIFICATION Spec
CONSTANTS
  Schema <- MCSchema
  Calls <- AnomalyCalls
  EntitySuffixes = 5
  FlowsPerAccount = 5
  Counterparties = 10
  BaselineFlows = 10
  RapidTransfers = 8
  Slices = 5
CHECK_DEADLOCK FALSE
INVARIANT
  AnomaliesPassIngestion
