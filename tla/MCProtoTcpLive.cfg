SPECIFICATION FairSpec
CONSTANTS
    NBuffers = 2
    Mtu = 1
    Lengths = {1, 2}
    StartFlags = {TRUE, FALSE}
    Conns = {c1, c2}
    Fds = {d1}
    Server = TRUE
    HttpModes = {TRUE, FALSE}
PROPERTIES
    ChunksLeave
    DestroyEnds
CHECK_DEADLOCK FALSE
