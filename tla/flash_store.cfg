SPECIFICATION FairSpec
CONSTANTS
  Files = {f1}
  Values = {v1, v2}
  OpQueueSize = 4
  Capacity = 3
  Patient = TRUE
  Recovery = TRUE
  PeerManager = TRUE
  Failing = TRUE
  MaxCmd = 4
  MaxPower = 2
INVARIANTS RecordsGenuine BalanceRestored
PROPERTIES ReadBack Answered
CHECK_DEADLOCK FALSE
