\* Two nodes, two responses, the GUI is closed once, calls may time out at any moment.
SPECIFICATION FairSpec
CONSTANTS
    Names <- MCNames
    MaxResponses = 2
    MaxCrashes = 1
INVARIANTS
    TypeOK
    OkAnswersTheCall
PROPERTIES
    GoesBackOnlyAfterFailure
    RelayEnds
    SceneCatchesUp
\* Nothing is left to do when the last response is shown.
CHECK_DEADLOCK FALSE
