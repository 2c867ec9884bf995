SPECIFICATION FairSpec
CONSTANTS
    v1 = v1
    v2 = v2
    v3 = v3
    Versions = {v1, v2, v3}
    Approved = {v1, v2}
    StartVersion = v1
    None = none
    Modelless = TRUE
    MaxThreads = 2
    MaxPublishes = 3
    MaxFaults = 3
INVARIANTS
    MetadataNameModel
PROPERTIES
    SwitchIsValidated
    ValidationSettles
    Converges
