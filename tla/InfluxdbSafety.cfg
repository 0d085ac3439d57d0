CONSTANTS
    n1 = n1
    n2 = n2
    c1 = c1
    t1 = t1
    Names = {n1, n2}
    NoName = NoName
    Sizes = {1, 2}
    Images = {i1}
    Claims = {c1}
    NoClaim = NoClaim
    ClaimOf <- PodlessN1
    PodTemplates <- OneTemplate
    MaxEdits = 3
    MaxFaults = 0
SPECIFICATION Spec
INVARIANT TypeOK
INVARIANT ReplicasMatchWhenIdle
INVARIANT OwnedOrOrphan
PROPERTY SpecPreserved
PROPERTY OnlyReplicasChange
CHECK_DEADLOCK FALSE
