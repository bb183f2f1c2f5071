CONSTANTS
    Missing = Missing
    Absent = Absent
    NoToken = NoToken
    BadToken = BadToken
    Tables <- WholeTables
    Walks <- WholeWalks
    IntMax = 127
SPECIFICATION FairSpec
INVARIANTS
    TypeOK
    Complete
    BaseInv
PROPERTIES
    PagesAscend
    WalkEnds
CHECK_DEADLOCK FALSE
