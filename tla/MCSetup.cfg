SPECIFICATION Spec
CONSTANTS
    MaxBuffers = 2
    Counts = {1, 2}
    Chains <- MCChains
    Drivers <- MCDrivers
    M2mDriver <- MCM2mDriver
    Files <- MCFiles
    CommandLine <- MCCommandLine
    Cards <- MCCards
    Tiling <- MCTiling
INVARIANTS
    FramesShared
    
    ScanoutFits
CHECK_DEADLOCK FALSE
