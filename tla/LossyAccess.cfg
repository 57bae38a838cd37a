\* Random access responses, connection set-ups, rejects and commands are lost on both
\* legs, and cell 3 rejects the UE: the cells and the UE agree on who is connected, and
\* the LTE connection is tried until it is established.
SPECIFICATION FairSpec
CONSTANTS
    Cells <- MCCells
    LteCell = 1
    Drbs <- MCDrbs
    RntiSpace = 6
    Sinrs <- MCGoodSinrs
    OutageThreshold <- MCOutageThreshold
    Mode = "Ttt"
    AdmittingCells <- MCCell3Rejects
    Lossy <- MCAllLegs
    MaxLosses = 3
    MaxFades = 0
INVARIANTS
    NoAssertionFails
    ConnectedContextsAreInUse
PROPERTIES
    LteConnects
\* The set-up ends: nothing is left to do when the UE is connected.
CHECK_DEADLOCK FALSE
