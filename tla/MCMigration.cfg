CONSTANTS
    users = users
    orders = orders
    email = email
    status = status
    users_email = users_email
    orders_status = orders_status
    id = id
    seq = seq
    mail = mail
    phone = phone
    state = state
    NoField = NoField
    Meta = Meta
    None = None
    Same = Same
    Runs = {1, 2, 3}
    AtOnce = 2
    Configs <- Changing
    Cleanups = {FALSE, TRUE}
    Names <- Relation
    IndexNames = {email, status}
    Fields = {id, seq, mail, phone, state}
    IndexName <- Distinct
    Ident <- Full
SPECIFICATION Spec
INVARIANTS
    TypeOK
    HashTellsUnlessRaced
    MetaTellsTables
PROPERTIES
    CleanupLeavesConfigured
    DryRunKeeps
CHECK_DEADLOCK FALSE
