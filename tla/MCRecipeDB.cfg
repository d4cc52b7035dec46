SPECIFICATION Spec
CONSTANTS
  Names = {app, web}
  NoName = NoName
  Bodies = {b1, b2}
  NoBody = NoBody
  Clients = {c1, c2}
  MaxVersion = 3
SYMMETRY Symmetry
INVARIANTS
  TypeOK
  LatestIsNewestVersion
  VersionsContiguous
  StoredUnderOwnName
  HeldSpecStillStored
  AckedWritesSurvive
PROPERTIES
  HistoryAppendOnly
  WritesOnlyAddressed
  ImplementsVersionedStore
