CONSTANTS
    Missing = Missing
    Absent = Absent
    NoToken = NoToken
    BadToken = BadToken
    Tables <- ScanIndexTables
    Walks <- ScanIndexWalks
    IntMax = 127
SPECIFICATION Spec
INVARIANT
    Complete
CHECK_DEADLOCK FALSE
