\* A queue with room for the events of one pass: timer events fill it up, and it wraps around.
SPECIFICATION Spec
CONSTANTS
    QueueSize = 6
    SliceSize = 128
    FrameLengths = {5,132}
    Interrupts = {"update_wall_clock"}
    Burst = 2
INVARIANTS NothingRefused FrameGone
PROPERTIES ImplementsQueue EveryEventRuns
