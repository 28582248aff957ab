SPECIFICATION StorageSpec
CONSTANTS
    Files = {f1, f2}
    Requests = {r1}
    Walks = {w1, w2}
    Sizes <- MCSizes
    Weights = {1}
    MaxBytes = 1
    Totals = {1, 2}
    Nothing = Nothing
    Users = {busy, idle}
    MaxVersion <- MCMaxVersion
    busy = busy
    idle = idle
    Tasks = {t1, t2}
    Database = Database
    None = None
INVARIANTS
    TypesOK
    OnlyBrokenRefreshesEndTheProcess
PROPERTIES
    QuietWalksCountTheDisk
    UsedSpaceCatchesUp
    ScheduledChangesAreStored
CHECK_DEADLOCK FALSE
