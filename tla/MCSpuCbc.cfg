SPECIFICATION Spec
SYMMETRY Symmetry
CONSTANTS
  c1 = c1
  c2 = c2
  k1 = k1
  k2 = k2
  Callers = {c1, c2}
  Keys = {k1, k2}
  MaxBlocks = 3
  MaxChunk = 2
  MaxFaults = 1
  KeyFaults = FALSE
INVARIANTS
  CbcResult
  FailureKeepsIv
  ExclusiveUse

