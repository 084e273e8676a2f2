SPECIFICATION MCSpec
CONSTANTS
    Procs = {p1, p2, p3}
    NoProc = NoProc
    MaxFaults = 2
    WinProcs = {w1, w2, w3}
    MaxWinFaults = 1
    MaxCalls = 2
    Threads = {t1, t2, t3}
    MaxRounds = 3
    Objects = {o1, o2}
    NoObject = NoObject
    Ids = {i1, i2}
    NoId = NoId
    Clock = {0, 7}
    Timeouts = {0, 2, 4, 12, 25, 45}
    Second = 10
    Milli = 1
    IntSize = 43
INVARIANTS
    HolderKnows
    OnlyOne
    OnlyOneAtFirst
    WinOnePass
    ZeroMeansEnded
    NoneLost
PROPERTIES
    YesStands
    JoinsOwn
    Takeover
    SoleSpec
    MeetsBarrier
    EverybodyPasses
CHECK_DEADLOCK FALSE
