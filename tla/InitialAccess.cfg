\* The SINR changes during the set-up, two bearers, nothing is lost: no assertion
\* fails, the coordinator is told the right cell, and the UE gets its dual connection
\* once a cell can serve it.
SPECIFICATION FairSpec
CONSTANTS
    Cells <- MCCells
    LteCell = 1
    Drbs <- MCTwoDrbs
    RntiSpace = 4
    Sinrs <- MCSinrs
    OutageThreshold <- MCOutageThreshold
    Mode = "Ttt"
    AdmittingCells <- MCAllAdmit
    Lossy <- MCNoLegs
    MaxLosses = 0
    MaxFades = 2
INVARIANTS
    TypeOK
    NoAssertionFails
    ReportNamesServingCell
    SplitBearersHaveRlc
    SetupIsComplete
PROPERTIES
    OutageEnds
\* The set-up ends: nothing is left to do when the UE is connected.
CHECK_DEADLOCK FALSE
