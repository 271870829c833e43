\* Three ranges, of which a query returns two; one fault.
SPECIFICATION FairSpec
CONSTANTS
    Ranges = {r1, r2, r3}
    NoRange = NoRange
    Limit = 2
    MaxNow = 4
    MaxMarks = 3
    MaxFaults = 1
INVARIANTS
    EvenShare 
PROPERTIES
    RepeatForAReason EveryRangeHanded
CHECK_DEADLOCK FALSE
