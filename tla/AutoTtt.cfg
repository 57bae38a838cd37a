\* Automatic handovers by time to trigger between two cells, the radio works,
\* everything fair: no assertion of the code fails, X2-U forwarding follows
\* the contexts, the PDCP of the bearer follows the UE, and every handover
\* completes and releases the old context.
SPECIFICATION FairSpec
CONSTANTS
    Cells <- TwoCells
    LteCell = 1
    Drbs <- OneDrb
    RntiSpace = 4
    FirstCell = 2
    Sinrs <- MCSinrs
    OutageThreshold <- MCOutageThreshold
    HoSinrDifference = 3
    Mode = "Ttt"
    AdmittingCells <- TwoCells
    FileControl = FALSE
    RicControl = FALSE
    RadioMayFail = FALSE
    MaxSwitches = 1
INVARIANTS
    TypeOK
    NoAssertionFails
    ForwardsWhileLeaving
    BearersFollowUe
PROPERTIES
    HandoversComplete
    LeavingContextIsReleased
