SPECIFICATION Spec
CONSTANTS
    NBuffers = 3
    Lengths = {1}
    MaxPackets = 2
    Counter = 1
    Entries = {c1, c2}
    Nil = Nil
    Peers = {p1, p2}
    NoPeer = NoPeer
    UnixMtu = 9
    UdpMtu = 11
    FileMtu = 8
    MaxInodes = 3
    MaxSeconds = 2
    FileLen = 5
    Maxframes = 4
CONSTRAINTS
    NotCrossed
    OneClientWithMeta
INVARIANTS
    PoolIsFree
    AccountsAgree
    WholePackets
    TablesFollow
    BufferKept
PROPERTIES
    VisibleIsFinal
    InFileOrder
SYMMETRY PeerSymmetry
CHECK_DEADLOCK FALSE
