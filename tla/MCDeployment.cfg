CONSTANTS
    users = users
    orders = orders
    email = email
    users_email = users_email
    id = id
    seq = seq
    mail = mail
    NoField = NoField
    Meta = Meta
    None = None
    Same = Same
    Servers = {s1}
    Requests = {q1}
    Runs = {1, 2}
    AtOnce = 2
    Configs <- Rollout
    Cleanups = {FALSE, TRUE}
    Names <- Relation
    IndexNames = {email}
    Fields = {id, seq, mail}
    IndexName <- Distinct
    Ident <- Full
SPECIFICATION FairSpec
INVARIANTS
    ServersOK
    RunningServersConform
PROPERTIES
    ShutdownEnds
CHECK_DEADLOCK FALSE
