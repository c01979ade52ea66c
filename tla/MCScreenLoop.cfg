SPECIFICATION LiveSpec
CONSTANTS
    NBuffers = 3
    Lengths = {1}
    MaxDrain = 2
    WithGpu = TRUE
INVARIANTS
    CameraKept
    OneFlip
    ImagesKept
PROPERTIES
    FlipsRead
    StreamMoves
CHECK_DEADLOCK FALSE
