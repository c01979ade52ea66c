SPECIFICATION Spec
CONSTANTS
    NBuffers = 3
    Mtu = 2
    Lengths = {1}
    StartFlags = {TRUE, FALSE}
    Conns = {c1, c2}
    Fds = {d1, d2}
    Server = TRUE
    HttpModes = {FALSE}
SYMMETRY Symmetry
INVARIANTS
    RingExact
    SenderOwnsChunk
    NoFdLeak
PROPERTIES
    ResumesOnStart
    ImplementsQueue
CHECK_DEADLOCK FALSE
