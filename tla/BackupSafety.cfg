CONSTANTS
    b1 = b1
    b2 = b2
    b3 = b3
    b4 = b4
    p1 = p1
    f1 = f1
    Backups = {b1, b2, b3, b4}
    NoBackup = NoBackup
    Provider <- GcsAndPV
    Pods = {p1}
    PodOf <- OnePod
    Folders = {f1}
    FolderOf <- OneFolder
    SpecOf <- Mixed
    Parts = {1, 2}
    MaxClock = 1
    MaxRuns = 3
    MaxEvents = 3
    MaxFaults = 1
    MaxDrops = 1
SPECIFICATION Spec
INVARIANT TypeOK
INVARIANT StoredComplete
INVARIANT SameSecondOnly
PROPERTY ImplementsArchive
CHECK_DEADLOCK FALSE
