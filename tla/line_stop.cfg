SPECIFICATION LineSpec
CONSTANTS
    Plain <- MCPlain
    Old <- MCOld
    Unknown <- MCUnknown
    Coms <- MCComs
    Asks <- MCAsks
    Speeds = {300, 9600}
    Left <- MCLeft
    CharSize = 4
    NoDevice = NoDevice
INVARIANT TwoAreTwo
