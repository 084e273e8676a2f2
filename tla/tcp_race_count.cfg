SPECIFICATION Spec
CONSTANTS
    a = a
    b = b
    c = c
    d = d
    i1 = i1
    i2 = i2
    i3 = i3
    Conns <- TwoConns
    Ids <- TwoIds
    MAX_CLIENTS = 2
    INVALID_SOCKET = INVALID_SOCKET
    NoConn = NoConn
    NoId = NoId
    MaxOpens = 1
    MaxFaults = 0
    MaxOthers = 0
INVARIANTS
    CountExact
