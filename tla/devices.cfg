SPECIFICATION MCSpec
CONSTANTS
    Plain <- MCPlain
    Old <- MCOld
    Unknown <- MCUnknown
    Coms <- MCComs
    Asks <- MCAsks
    Speeds = {300, 9600}
    Left <- MCLeft
    CharSize = 4
    NoDevice = NoDevice
    MaxBytes = 3
    MaxPolls = 3
    RootSize = 2359872
    RootUsed = 576
    InfoSize = 1664
    BlockCounts = {1, 2, 3}
    BlockSizes = {1024, 4194304, 357122048}
    MaxHupa = 2
    MaxPages = 3
    BlockWords = 2
    Shift = 1
    WordSize = 8
    Capacity = 4
    MaxNum = 2
    Socks = {sock}
    Files = {cfile}
    Udps = {udp}
    Mems = {mem}
    Ports = {port}
    Apps = {app}
    Nobody = Nobody
    Numbers = {0, 3}
    CastSize = 3
    MaxSlips = 1
    Sections = {"s1", "s2"}
    Names = {"n1", "n2"}
    Words = {"w1", "w2", "#", " ;"}
    Signs = {"#", " ;"}
    Blank = {" ;"}
    NewValues <- MCNewValues
    FirstLines <- MCFirstLines
    MaxLines = 3
    MaxWrites = 2
    MaxCrashes = 1
INVARIANTS
    
    AutoFirst
    UnitsWhole
    OneOverlap
    BufferMatches
    Verified
    ReadsWhole
    ClosesOwn
    NoLeak
    LockKept
    LinesKept
    ReadBack
    OthersKept
    
PROPERTY FreedOnce
CHECK_DEADLOCK FALSE
