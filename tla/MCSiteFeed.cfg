SPECIFICATION LiveSpec
CONSTANTS
  Packages <- MCPackages
  Versions <- MCVersions
  Digests <- MCDigests
  Bootstrap <- MCBootstrap
  SharedFeeds <- MCSharedFeeds
  AsteriskBuilds <- MCAsteriskBuilds
  PinSets <- MCPinSets
  Snapshot <- MCSnapshot
  LegacyVersion <- MCLegacy
  OpenVpn = {"ovpn"}
  Removed = "nossl"
  Place <- MCPlace
  Required = {"jansson"}
  AsteriskVersion <- MCAsteriskVersion
  Depends <- MCDepends
  Provides <- MCProvides
  Rank <- MCRank
  Workers = 2
  Attempts = 2
  MaxFaults = 1
INVARIANTS OneCopy AsteriskResolves AuditSound
PROPERTIES FilesGenuine VersionsNeverFall NeverWedged
