CONSTANTS
    users = users
    orders = orders
    email = email
    status = status
    users_email = users_email
    orders_status = orders_status
    id = id
    seq = seq
    mail = mail
    phone = phone
    state = state
    NoField = NoField
    Meta = Meta
    None = None
    Same = Same
    Runs = {1, 2}
    AtOnce = 1
    Configs <- Moved
    Cleanups = {FALSE}
    Names <- Relation
    IndexNames = {email, status}
    Fields = {id, seq, mail, phone, state}
    IndexName <- Distinct
    Ident <- Full
SPECIFICATION Spec
INVARIANT
    HashTells
CHECK_DEADLOCK FALSE
