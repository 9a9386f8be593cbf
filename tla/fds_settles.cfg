SPECIFICATION FairSpec
CONSTANTS
  VirtualPages = 2
  PageWords = 11
  RecordWords = 4
  OpQueueSize = 2
  ChunkQueueSize = 6
  Files = {1}
  Calls = {"write", "delete", "update", "gc", "gc_again", "read"}
  Faults = {"flash"}
  MaxCalls = 5
  MaxGc = 2
  MaxFaults = 1
PROPERTY Settles
CHECK_DEADLOCK FALSE
