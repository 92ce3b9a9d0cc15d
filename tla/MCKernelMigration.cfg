SPECIFICATION RLiveSpec
CHECK_DEADLOCK FALSE
CONSTANTS
  Groups <- G
  Modules <- M
  Inputs <- MCInputs
  RouterInputs <- MCRouterInputs
  Legacies <- MCLegacies
  MaxCrashes = 2
  MaxLoads = 1
INVARIANTS
  TypeOK
  LargestPlan
  Resolvable
  CapabilityComplete
  MigrationComplete
  StatusConsistent
PROPERTIES
  ActiveKept
  MigrationRepaired
