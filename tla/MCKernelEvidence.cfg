SPECIFICATION LiveSpec
CHECK_DEADLOCK FALSE
CONSTANTS
  Modules = {"n", "o", "xt_nat"}
  Withheld = "xt_nat"
  Network = {"n"}
  Builds = {1, 2, 3}
  Needs <- MCNeeds
  Gives <- MCGives
  ForeignBuilds = {3}
  Images <- MCImages
  StockInputs = {1, 2}
  Kernels = {1, 2}
  MaxEdits = 3
INVARIANTS
  LabelsExact
  
  ImportsResolve
  AbiExact
PROPERTY
  SiteCatchesUp
