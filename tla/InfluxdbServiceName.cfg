CONSTANTS
    n1 = n1
    n2 = n2
    c1 = c1
    t1 = t1
    Names = {n1}
    NoName = NoName
    Sizes = {1, 2}
    Images = {i1}
    Claims = {c1}
    NoClaim = NoClaim
    ClaimOf <- SharedClaim
    PodTemplates <- NoTemplates
    MaxEdits = 2
    MaxFaults = 0
SPECIFICATION FairSpec
PROPERTY ServiceNameReported
CHECK_DEADLOCK FALSE
