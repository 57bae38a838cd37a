\* A node moves while an entry of its link is still valid.
SPECIFICATION Spec
CONSTANTS
    Constant <- MCConstant
    External <- MCExternal
    Walking <- MCWalking
    Simulations <- MCSimulations
    Settings <- MCSettings
    Spots <- MCSpots
    Coherences <- MCOneCoherence
    MaxCoherence = 4
    Caching = TRUE
    EndTime = 1
    MaxMisses = 2
INVARIANTS
    PositionsReflectSionna
CHECK_DEADLOCK FALSE
