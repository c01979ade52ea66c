SPECIFICATION PipeSpec
CONSTANTS
    NBuffers = 2
    MaxDrain = 2
    Lengths = {1}
    Copies = FALSE
    Requests = {}
    Periods = {2}
    CounterWrap = 4
    HasDup = TRUE
    HasBranch = FALSE
INVARIANTS
    OnePlace
    LentToSink
    SleepsSafely
