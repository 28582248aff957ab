SPECIFICATION FairSpec
CONSTANTS
    Ids = {s1}
    Users = {u1}
    Scopes = {read, nothing}
    NoScopes = nothing
    Tasks = {t1, t2}
    None = None
    ExpireIn = 1
    ExpireCache = 0
    Margin = 1
    MaxTime = 2
INVARIANTS
    TypeOK
    CachedSessionExists
    CachedScopesCurrent
    CachedRoleCurrent
    CachedExpiryNotEarlier
PROPERTIES
    LoginEnds
