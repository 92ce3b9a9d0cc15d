SPECIFICATION LiveSpec
CONSTANTS
  p1 = p1
  p2 = p2
  t1 = t1
  t2 = t2
  ReleaseIds = {1, 2}
  Files = {1, 2, 3, 4}
  Packages = {1}
  Index = 2
  Source = 3
  Tools = {t1, t2}
  Contents <- MCContents
  Lookups <- MCLookups
  Publishers = {p1, p2}
  MaxFaults = 1
INVARIANTS
  PublicIsSnapshot
PROPERTIES
  NeverReplaced
  RetriesNeverCollide
  EventuallyPublic
