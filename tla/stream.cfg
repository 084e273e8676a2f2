SPECIFICATION FairSpec
CONSTANTS
    Senders = {"server", "client"}
    MsgLen = 3
    Msgs = 3
    Window = 4
    MaxSignals = 2
INVARIANTS
    FramedIfWhole
    InOrder
    EofAfterAll
PROPERTY AllDelivered
CHECK_DEADLOCK FALSE
