SPECIFICATION Spec
CONSTANTS
  Workers = {w1, w2}
  Messages = {m1}
  NoMessage = NoMessage
  NoWorker = NoWorker
  MaxAttempts = 3
  MaxFaults = 0
CHECK_DEADLOCK FALSE
INVARIANTS
  OnceWithoutFaults
