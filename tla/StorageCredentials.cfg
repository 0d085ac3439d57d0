CONSTANTS
    backup = backup
    restore = restore
    b1 = b1
    b2 = b2
    r1 = r1
    s1 = s1
    s2 = s2
    Workers = {backup, restore}
    CRs = {b1, b2, r1}
    WorkerOf <- Controllers
    NoCR = NoCR
    Provider <- OneToS3
    Secrets = {s1, s2}
    SecretOf <- SecretEach
    LengthOf <- Lengths
    MaxLength = 2
    MaxVersions = 2
    MaxEvents = 1
SPECIFICATION FairSpec
INVARIANT TypeOK
INVARIANT OwnOrMet
PROPERTY Served
CHECK_DEADLOCK FALSE
