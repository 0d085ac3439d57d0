CONSTANTS
    Optional = {"Affinity", "Env"}
    MaxEdits = 2
    MaxFaults = 1
SPECIFICATION Spec
INVARIANT TypeOK
INVARIANT SpecIsUsers
PROPERTY OnlyDelivered
