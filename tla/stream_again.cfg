SPECIFICATION Spec
CONSTANTS
    Senders = {"client"}
    MsgLen = 2
    Msgs = 2
    Window = 3
    MaxSignals = 0
INVARIANT Framed
CHECK_DEADLOCK FALSE
