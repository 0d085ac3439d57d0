CONSTANTS
    b1 = b1
    b2 = b2
    b3 = b3
    b4 = b4
    p1 = p1
    f1 = f1
    Backups = {b1, b2}
    NoBackup = NoBackup
    Provider <- AllS3
    Pods = {p1}
    PodOf <- OnePod
    Folders = {f1}
    FolderOf <- OneFolder
    SpecOf <- Mixed
    Parts = {1, 2}
    MaxClock = 0
    MaxRuns = 9
    MaxEvents = 2
    MaxFaults = 1
    MaxDrops = 1
SPECIFICATION FairSpec
PROPERTY EventuallyStored
CHECK_DEADLOCK FALSE
