SPECIFICATION Spec
CONSTANTS
  Workers = {w1, w2}
  Jobs = {j1, j2}
  Documents = {d1}
  NoDocument = NoDocument
  NoOwner = NoOwner
  NoJob = NoJob
  NoWorker = NoWorker
  MaxAttempts = 2
  MaxDeferrals = 1
  MaxFaults = 2
INVARIANTS
  PendingIsQueued
CHECK_DEADLOCK FALSE
