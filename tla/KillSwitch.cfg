SPECIFICATION FairKillSwitchSpec
CONSTANTS
    Gateways = {g1, g2}
    StartKey = "ACTIVE"
    MaxCommands = 4
    MaxFlushes = 2
    Failures = TRUE
INVARIANTS
    HaltHolds
PROPERTIES
    OnlyConstructionInitializes
    GatewayReopens
