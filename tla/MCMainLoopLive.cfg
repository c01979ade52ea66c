SPECIFICATION LiveSpec
CONSTANTS
    NBuffers = 2
    MaxDrain = 2
    Lengths = {1}
    Copies = FALSE
    Requests = {}
    Periods = {0}
    CounterWrap = 4
    HasDup = TRUE
    HasBranch = FALSE
INVARIANTS
    SameBuffer
PROPERTIES
    BuffersReturn
    FramesReachSink
    Terminates
CHECK_DEADLOCK FALSE
