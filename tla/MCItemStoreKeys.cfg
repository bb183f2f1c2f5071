CONSTANTS
    pk = pk
    rk = rk
    a = a
    b = b
    k1 = k1
    k2 = k2
    kx = kx
    v1 = v1
    v2 = v2
    Null = Null
    Missing = Missing
    Malformed = Malformed
    NoBody = NoBody
    Absent = Absent
    None = None
    Fields <- TwoFields
    KeyFields <- TwoKeyFields
    Values <- TwoValues
    KeyPattern <- TwoKeyPattern
    Schema <- TwoSchema
    PutBodies <- TwoPutBodies
    PatchBodies <- TwoPatchBodies
    FieldSets <- TwoFieldSets
    Calls = {c1, c2}
    ClockAdvances = {1}
SPECIFICATION FairSpec
PROPERTIES
    ImplementsAtomic
    EveryCallAnswered
CHECK_DEADLOCK FALSE
