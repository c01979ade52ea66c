SPECIFICATION Spec
CONSTANTS
    NBuffers = 2
    Lengths = {1}
    Copies = FALSE
    Requests = {"SHOOT", "DRYRUN"}
    Periods = {0, 1, 2}
    CounterWrap = 3
    HasDup = TRUE
    HasBranch = FALSE
INVARIANTS
    FifoExact
    DupWakes
    MainWakes
    DryUnlessShot
PROPERTIES
    OneFramePerShot
