SPECIFICATION Spec
CONSTANTS
  p1 = p1
  p2 = p2
  t1 = t1
  t2 = t2
  ReleaseIds = {1, 2}
  Files = {1, 2, 3, 4}
  Packages = {1, 2}
  Derived = {3}
  Tools = {t1, t2}
  Contents <- MCContents
  Lookups <- MCLookups
  Publishers = {p1, p2}
  BatchSize = 2
  MaxAttempts = 2
  MaxFaults = 3
PROPERTY
  RefusesForeignOnly
