\* A handover from the control file does not cancel the scheduled automatic
\* one, whose assertion then fails.
SPECIFICATION Spec
CONSTANTS
    Cells <- TwoCells
    LteCell = 1
    Drbs <- OneDrb
    RntiSpace = 4
    FirstCell = 2
    Sinrs <- MCSinrs
    OutageThreshold <- MCOutageThreshold
    HoSinrDifference = 3
    Mode = "Ttt"
    AdmittingCells <- TwoCells
    FileControl = TRUE
    RicControl = FALSE
    RadioMayFail = FALSE
    MaxSwitches = 1
INVARIANTS
    SourceUnchangedUntilEvent
CHECK_DEADLOCK FALSE
