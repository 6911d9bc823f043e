SPECIFICATION LiveCalendar
CONSTANTS
  Docs = {d1, d2, d3}
  LateDocs = {d3}
  NoDoc = NoDoc
  MaxReceipts = 3
INVARIANTS
  DismissedKnowingly
  ReceiptsAreCounted
PROPERTIES
  GapsAreRaised
