SPECIFICATION FairSpec
CONSTANTS
    Procs = {d1, d2}
    Servers = {d1, d2}
    SettingProcs = {d1}
    Nobody = Nobody
    Inodes = {f1, f2, f3}
    Clients = {c1, c2}
    Nil = Nil
    Requests = {"setting", "silent", "reset"}
    NFiles = 1
INVARIANTS
    Alone
    ServerSound
PROPERTIES
    RequestsAnswered
CHECK_DEADLOCK FALSE
