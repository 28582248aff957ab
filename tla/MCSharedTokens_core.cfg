SPECIFICATION Spec
CONSTANTS
    Ids = {x, y}
    Users = {u1, u2}
    Paths <- MCPaths
    Folders <- MCFolders
    Files <- MCFiles
    Starts <- MCStarts
    Inside <- MCInside
    Replaced <- MCReplaced
    OwnId <- MCOwnId
    Moves <- MCMoves
    Workloads <- MCWorkloads
    Group = 2
    CacheLife = 0
    MaxTime = 1
    Tasks = {t1, t2}
    None = None
SYMMETRY Symmetry
INVARIANTS
    TypeOK
    CachedTokenCurrent
    ListedIsPublic
    PagesReachAll
    LinksFollowFiles
PROPERTIES
    LinksEndForAReason
    
