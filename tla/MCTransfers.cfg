SPECIFICATION Spec
CONSTANTS
    NBuffers = 3
    Lengths = {1}
    NTiles = 2
    MaxFlying = 2
    MaxResults = 2
    MaxFailures = 1
    Bos = {o1, o2, o3}
    NoBo = NoBo
INVARIANTS
    TransferKept
    NeverStuck
    TransferExact
CHECK_DEADLOCK FALSE
