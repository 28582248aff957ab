SPECIFICATION ServicesSpec
CONSTANTS
    None = None
    Guest = Guest
    Never = Never
    Users = {u, v}
    Ids = {u, v}
    MaxTries = 2
    Timeout = 2
    MaxTime = 4
    MaxUsed = 1
    Clients = {c, d}
    Tasks = {t1, t2}
    Accounts = {u, v}
    Nobody = None
    Requests = {c, d}
    Saves = {t1, t2}
    MaxLength = 7
    Hour = 2
PROPERTIES
    ThrottleImplementsLockout
CHECK_DEADLOCK FALSE
