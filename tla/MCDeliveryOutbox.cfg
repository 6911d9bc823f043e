SPECIFICATION LiveSpec
CONSTANTS
  Workers = {w1, w2}
  Messages = {m1}
  NoMessage = NoMessage
  NoWorker = NoWorker
  MaxAttempts = 3
  MaxFaults = 2
CHECK_DEADLOCK FALSE
PROPERTIES
  OnlyLatestClaimSettles
  SecretsEndWithToken
  EveryMessageEnds
