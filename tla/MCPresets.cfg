SPECIFICATION Spec
CONSTANTS
  Schema <- MCSchema
  Calls <- MCCalls
  EntitySuffixes = 5
  FlowsPerAccount = 5
  Counterparties = 10
  BaselineFlows = 10
  RapidTransfers = 8
  Slices = 5
CHECK_DEADLOCK FALSE
INVARIANTS
  TypeOK
  CoercionSettles
  OrdinaryNeverRaises
  FirewallAddsUp
  ConsolidationAddsUp
  HistoryIsLearnable
  InjectedIsDetected
  MatcherLeavesTheMismatched
  TriggersAreTheBurst
