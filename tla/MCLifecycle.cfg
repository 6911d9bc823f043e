SPECIFICATION MCSpec
CONSTANTS
  Procs = {p1, p2}
  Ops = {1, 2}
  Items = {i1}
  Requests = {1, 2, 3, 4}
  Releases = {legacy, next}
  LegacyRelease = legacy
  Supports <- MCSupports
  Inventory <- MCInventory
  InitialSchema = 16
  MaxGeneration = 2
  Capacity = 1
  CleanupLimit = 1
  TTL = 1
  NoOp = NoOp
  NoItem = NoItem
INVARIANTS
  WriterFenced
  SealedIsQuiet
  NoOperationOutlivesSeal
  PendingMigrationSealed
  CapacityRespected
PROPERTIES
  ImplementsEpochs
  SealedDataFrozen
  ReplayNeverReapplies
  DrainQuiesces
