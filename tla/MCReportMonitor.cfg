SPECIFICATION LiveSpec
CONSTANTS
  Workers = {w1, w2}
  Offices = {o1}
  NoOwner = NoOwner
  NoOffice = NoOffice
  MaxWakes = 3
  MaxFaults = 2
INVARIANTS
  WakesKept
PROPERTIES
  ChangesAreEvaluated
