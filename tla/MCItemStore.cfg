CONSTANTS
    pk = pk
    rk = rk
    a = a
    b = b
    k1 = k1
    k2 = k2
    kx = kx
    v1 = v1
    v2 = v2
    Null = Null
    Missing = Missing
    Malformed = Malformed
    NoBody = NoBody
    Absent = Absent
    None = None
    Fields <- OneFields
    KeyFields <- OneKeyFields
    Values <- OneValues
    KeyPattern <- OneKeyPattern
    Schema <- OneSchema
    PutBodies <- OnePutBodies
    PatchBodies <- OnePatchBodies
    FieldSets <- OneFieldSets
    Calls = {c1, c2, c3}
    ClockAdvances = {1}
SPECIFICATION Spec
SYMMETRY Sym
INVARIANTS
    TypeOK
    NoLostUpdate
    ConflictMeansRaced
    StoredValid
    IInv
PROPERTIES
    ImplementsAtomic
CHECK_DEADLOCK FALSE
