SPECIFICATION LiveSpec
CONSTANTS
  s1 = s1
  s2 = s2
  ta = ta
  tb = tb
  Slots = {s1, s2}
  Tags = {ta, tb}
  NCommits = 1
  NBuilds = 1
  Kinds = {"full"}
  Pins <- MCPins
  BuildApp <- MCBuildApp
  SoundsTag <- MCSoundsTag
  MaxProposals = 1
  MaxDispatches = 0
  MaxFaults = 0
CHECK_DEADLOCK FALSE
PROPERTY
  FullBuildPublished
