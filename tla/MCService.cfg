SPECIFICATION Spec
CONSTANTS
    JsonKeys <- MCJsonKeys
    Matches <- MCMatches
    Arguments <- MCArguments
    Satisfies <- MCSatisfies
    TableNames <- MCTableNames
    FieldNames <- MCFieldNames
    NoKey = NoKey
    UrlKeyPattern <- MCUrlKeyPattern
    Files <- MCFiles
    KeyValues <- MCKeyValues
    UrlValues <- MCUrlValues
    PutBodies <- MCPutBodies
    PatchBodies <- MCPatchBodies
    Unread <- MCUnread
    Half = Half
    FieldSets <- MCFieldSets
    NoBody = NoBody
    None = None
    JsonBelow <- NestedJson
    MergeBelow <- NestedMerge
    RfcBelow <- NestedRfc
    HoldsNullBelow <- NestedHoldsNull
    NullsMeetBelow <- NestedNullsMeet
    LegalBelow <- NestedLegal
    NamesBelow <- NestedNames
    ValidBelow <- NestedValid
    CompilesBelow <- NestedCompiles
    AcceptsBelow <- NestedAccepts
    TypedBelow <- NestedTyped
    UndeclaredBelow <- NestedUndeclared
INVARIANTS
    TypeOK
    ValidatedStarts
    DocumentsReachHandlers
    OnlyPagesArePublic
    StoredNamesLegal
    StoredDeclared
    IInv
    DocumentedRequestsAnswered
    AppliedRequestsDocumented
    ResponsesDocumented
    ProjectionsKeep
PROPERTIES
    PatchDiffersByNulls
CHECK_DEADLOCK FALSE
