SPECIFICATION Spec
CONSTANTS
    Sections = {"s1", "s2"}
    Names = {"n1", "n2"}
    Words = {"w1", "w2", "#", " ;"}
    Signs = {"#", " ;"}
    Blank = {" ;"}
    NewValues <- MCNewValues
    FirstLines <- MCFirstLines
    MaxLines = 3
    MaxWrites = 2
    MaxCrashes = 1
INVARIANT AddedIsFound
CHECK_DEADLOCK FALSE
