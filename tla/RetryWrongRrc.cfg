\* A message of the mmWave connection is lost.
SPECIFICATION FairSpec
CONSTANTS
    Cells <- MCCells
    LteCell = 1
    Drbs <- MCDrbs
    RntiSpace = 4
    Sinrs <- MCGoodSinrs
    OutageThreshold <- MCOutageThreshold
    Mode = "Ttt"
    AdmittingCells <- MCAllAdmit
    Lossy <- MCMmWave
    MaxLosses = 1
    MaxFades = 0
PROPERTIES
    MmWaveConnects
\* The set-up ends: nothing is left to do when the UE is connected.
CHECK_DEADLOCK FALSE
