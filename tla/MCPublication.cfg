SPECIFICATION LiveSpec
CONSTANTS
  s1 = s1
  s2 = s2
  ta = ta
  tb = tb
  Slots = {s1, s2}
  Tags = {ta, tb}
  NCommits = 2
  NBuilds = 2
  Kinds = {"full", "reuse", "targeted"}
  Pins <- MCPins
  BuildApp <- MCBuildApp
  SoundsTag <- MCSoundsTag
  MaxProposals = 1
  MaxDispatches = 1
  MaxFaults = 1
CHECK_DEADLOCK FALSE
INVARIANTS
  SiteReferencesPublic
  SiteFromCompleteBuild
PROPERTY
  OverlayKeepsUserspace
  CommitEventuallyLive
