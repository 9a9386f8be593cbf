SPECIFICATION FairSpec
CONSTANTS
  LabelMod = 4
  Bodies = {b1, b2}
  Silent = {b2}
  MaxRepeat = 2
  Faults = {"lose", "answer", "data", "label", "crc"}
  MaxCmd = 3
  MaxFault = 3
INVARIANTS RunsOnce StatusTruthful
PROPERTY Resolved
CHECK_DEADLOCK FALSE
