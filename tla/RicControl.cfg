\* RIC Control requests at any moment, no automatic handovers, only cell 4
\* admits: however many requests overlap and whichever are rejected, one cell
\* can hand the UE over and the UE finds its context where it was sent.
SPECIFICATION Spec
CONSTANTS
    Cells <- ThreeCells
    LteCell = 1
    Drbs <- OneDrb
    RntiSpace = 4
    FirstCell = 2
    Sinrs <- MCSinrs
    OutageThreshold <- MCOutageThreshold
    HoSinrDifference = 3
    Mode = "NoAuto"
    AdmittingCells <- OnlyFour
    FileControl = FALSE
    RicControl = TRUE
    RadioMayFail = FALSE
    MaxSwitches = 1
INVARIANTS
    OneServingContext
    TargetWaitsForUe
CHECK_DEADLOCK FALSE
