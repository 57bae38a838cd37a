\* One node of each kind, every mode, look-ahead over two instants or, with the
\* sub_mode that SionnaHelper has by default, none; lookups in both directions:
\* what ns-3 and the ray tracer hold agrees, every lookup is answered, and a
\* simulation that ends without a word leaves the server fit for the next one.
SPECIFICATION FairSpec
CONSTANTS
    Constant <- MCConstant
    External <- MCExternal
    Walking <- MCWalking
    Simulations <- MCSimulations
    Settings <- MCSettings
    Spots <- MCSpots
    Coherences <- MCOneCoherence
    MaxCoherence = 4
    Caching = TRUE
    EndTime = 1
    MaxMisses = 2
INVARIANTS
    TypeOK
    ServerKeepsTime
    NodesKeepToTheirTracks
    ActivityIsForwarded
    EveryLookupIsAnswered
    WalkersKeepPace
PROPERTIES
    LookupsEnd
\* With look-ahead the server may fail, and nothing is left to do.
CHECK_DEADLOCK FALSE
