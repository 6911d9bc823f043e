SPECIFICATION MCSpec
CONSTANTS
  Workers = {w1, w2}
  Jobs = {1, 2}
  Documents = {d1}
  NoDocument = NoDocument
  NoOwner = NoOwner
  NoJob = NoJob
  NoWorker = NoWorker
  MaxAttempts = 2
  MaxDeferrals = 1
  MaxFaults = 2
CHECK_DEADLOCK FALSE
INVARIANTS
  QueueConsistent
  ClaimMatchesJob
PROPERTIES
  OnlyLatestClaimDecides
  NoPrematureFailure
  ImplementsJobLifecycle
  EveryRowIsDecided
