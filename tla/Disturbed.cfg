\* Automatic handovers by SINR threshold, with handover commands from the
\* control file at any moment, random access that may fail and messages over
\* the air that may outlast the handover timers: until an assertion stops the
\* program (the run reaches several), late confirmations, timeouts, removals
\* and commands never leave two contexts that can hand the UE over, two
\* handovers, nor a coordinator that is wrong about the UE.
SPECIFICATION Spec
CONSTANTS
    Cells <- TwoCells
    LteCell = 1
    Drbs <- OneDrb
    RntiSpace = 4
    FirstCell = 2
    Sinrs <- MCSinrs
    OutageThreshold <- MCOutageThreshold
    HoSinrDifference = 3
    Mode = "Threshold"
    AdmittingCells <- TwoCells
    FileControl = TRUE
    RicControl = FALSE
    RadioMayFail = TRUE
    MaxSwitches = 1
INVARIANTS
    CoordinatorTracksUe
    HandoverToken
    OneServingContext
CHECK_DEADLOCK FALSE
