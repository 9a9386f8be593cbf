SPECIFICATION Spec
CONSTANTS
  VirtualPages = 3
  PageWords = 11
  RecordWords = 4
  OpQueueSize = 2
  ChunkQueueSize = 6
  Files = {1}
  Calls = {"write", "update", "delete", "file_delete", "gc"}
  Faults = {"power"}
  MaxCalls = 6
  MaxGc = 1
  MaxFaults = 1
INVARIANTS TypeOK EventTruthful Visible SwapIsTagged NoOverwrite
PROPERTY ImplementsStore
CHECK_DEADLOCK FALSE
