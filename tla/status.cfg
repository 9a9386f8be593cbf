SPECIFICATION FairSpec
CONSTANTS
  Requests = {"time", "turnoff", "download", "update", "update_end", "enter", "leave", "apdu", "firmware"}
  MaxResend = 2
  ChargedAfter = 1
  UnpluggedAfter = 1
  RemovedAfter = 2
  MaxEvent = 4
INVARIANTS KeyModeOver TimersOwned StmServes
PROPERTIES StatusLeft ClockRefreshed UnplugNoticed
CHECK_DEADLOCK FALSE
