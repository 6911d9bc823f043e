SPECIFICATION LiveSpec
CONSTANTS
  Workers = {w1, w2}
  Documents = {d1}
  Admins = {a1}
  NoWorker = NoWorker
  NoJob = NoJob
  NoAdmin = NoAdmin
  MaxRevision = 2
  MaxEdition = 2
  Renderings = 2
  MaxAttempts = 2
  MaxFaults = 1
INVARIANTS
  TypeOK
  ReceiptsMatchFiles
PROPERTIES
  ArchivedUnderAuthority
  PendingJobsEnd
