SPECIFICATION LiveSpec
CONSTANTS
    NBuffers = 3
    Lengths = {1}
    MaxDrain = 2
    WithGpu = TRUE
PROPERTY ImagesDisplayed
CHECK_DEADLOCK FALSE
