CONSTANTS
    r1 = r1
    r2 = r2
    r3 = r3
    r4 = r4
    i1 = i1
    i2 = i2
    f1 = f1
    f2 = f2
    d1 = d1
    d2 = d2
    Restores = {r1, r2, r3, r4}
    NoRestore = NoRestore
    Provider <- EveryProvider
    Ids = {i1, i2}
    IdOf <- OneId
    Folders = {f1, f2}
    FolderOf <- FolderEach
    SpecOf <- AllDocumented
    Databases = {d1, d2}
    TargetsOf <- TwoDatabases
    EmptyOf <- LastEmpty
    Local = Local
    PVIds = {i1, i2}
    Parts = {1, 2, 3}
    PageSize = 1000
    MaxEvents = 3
    MaxFaults = 1
    MaxHidden = 1
    MaxCrashes = 1
SPECIFICATION Spec
INVARIANT TypeOK
INVARIANT GivenTheBackup
INVARIANT OwnUnlessMisled
CHECK_DEADLOCK FALSE
