SPECIFICATION MCSpec
CONSTANTS
  Workers = {w1, w2}
  NoWorker = NoWorker
  MaxMail = 3
  MaxGeneration = 3
  MaxFaults = 1
INVARIANTS
  CursorLeavesNothingBehind
PROPERTIES
  StaleCollectorsChangeNothing
  MailIsCollected
