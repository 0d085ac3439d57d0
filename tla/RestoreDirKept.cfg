CONSTANTS
    r1 = r1
    r2 = r2
    r3 = r3
    r4 = r4
    i1 = i1
    i2 = i2
    f1 = f1
    f2 = f2
    d1 = d1
    d2 = d2
    Restores = {r1, r2}
    NoRestore = NoRestore
    Provider <- PVAndS3
    Ids = {i1, i2}
    IdOf <- OneId
    Folders = {f1, f2}
    FolderOf <- FolderEach
    SpecOf <- AllDocumented
    Databases = {d1, d2}
    TargetsOf <- TwoDatabases
    EmptyOf <- NoneEmpty
    Local = Local
    PVIds = {i1}
    Parts = {1, 2, 3}
    PageSize = 1000
    MaxEvents = 2
    MaxFaults = 1
    MaxHidden = 0
    MaxCrashes = 0
SPECIFICATION Spec
INVARIANT RestoredFromVolume
CHECK_DEADLOCK FALSE
