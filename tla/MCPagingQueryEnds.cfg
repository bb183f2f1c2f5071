CONSTANTS
    Missing = Missing
    Absent = Absent
    NoToken = NoToken
    BadToken = BadToken
    Tables <- QueryRKTables
    Walks <- QueryRKWalks
    IntMax = 127
SPECIFICATION QuietSpec
PROPERTY
    WalkEnds
CHECK_DEADLOCK FALSE
