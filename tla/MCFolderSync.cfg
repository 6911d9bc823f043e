SPECIFICATION LiveSpec
CONSTANTS
  Workers = {w1, w2}
  NoWorker = NoWorker
  Files = 2
  MaxVersion = 2
  MaxWrites = 2
  Batch = 1
  MaxGeneration = 2
  MaxFaults = 2
PROPERTIES
  CursorNeverSkips
  StaleCollectorsChangeNothing
  FilesAreCollected
