\* The same between three cells, where a chain of handovers and a pending
\* event for a third cell are possible: a pending event fits the serving
\* cell, every context keeps its RLC entities, and the coordinator implements
\* the abstract secondary cell.
SPECIFICATION Spec
CONSTANTS
    Cells <- ThreeCells
    LteCell = 1
    Drbs <- OneDrb
    RntiSpace = 4
    FirstCell = 2
    Sinrs <- MCSinrs
    OutageThreshold <- MCOutageThreshold
    HoSinrDifference = 3
    Mode = "Ttt"
    AdmittingCells <- ThreeCells
    FileControl = FALSE
    RicControl = FALSE
    RadioMayFail = FALSE
    MaxSwitches = 1
INVARIANTS
    EventFitsServingCell
    ContextsHaveRlc
PROPERTIES
    ImplementsSecondaryCell
CONSTRAINT FewHandovers
