CONSTANTS
    r1 = r1
    r2 = r2
    r3 = r3
    r4 = r4
    i1 = i1
    i2 = i2
    f1 = f1
    f2 = f2
    d1 = d1
    d2 = d2
    Restores = {r2, r3}
    NoRestore = NoRestore
    Provider <- PVAndGcs
    Ids = {i1, i2}
    IdOf <- IdEach
    Folders = {f1, f2}
    FolderOf <- FolderEach
    SpecOf <- Mixed
    Databases = {d1, d2}
    TargetsOf <- TwoDatabases
    EmptyOf <- NoneEmpty
    Local = Local
    PVIds = {i1, i2}
    Parts = {1, 2}
    PageSize = 1000
    MaxEvents = 4
    MaxFaults = 1
    MaxHidden = 1
    MaxCrashes = 1
SPECIFICATION FairSpec
PROPERTY EventuallyRestored
CHECK_DEADLOCK FALSE
