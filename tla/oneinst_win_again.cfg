SPECIFICATION WinSpec
CONSTANTS
    WinProcs = {p1, p2}
    MaxCalls = 2
    MaxWinFaults = 0
INVARIANT WinOnlyOne
