--------------------------- MODULE SecondaryCell ---------------------------
(***************************************************************************)
(* What the coordinator promises about the secondary cell of a UE: one     *)
(* cell serves it; one handover at a time, to a cell other than the        *)
(* serving one, and it ends in the cell that was asked for; the bearers    *)
(* may fall back to the LTE leg at any moment, a handover included, and    *)
(* return to mmWave when no handover is under way or by completing one.    *)
(***************************************************************************)
CONSTANTS Cells, FirstCell

VARIABLES serving, target, busy, onLte

vars == <<serving, target, busy, onLte>>

Init ==
    /\ serving = FirstCell
    /\ target = FirstCell
    /\ busy = FALSE
    /\ onLte = FALSE

Start(c) ==
    /\ ~busy
    /\ c # serving
    /\ target' = c
    /\ busy' = TRUE
    /\ UNCHANGED <<serving, onLte>>

Complete ==
    /\ busy
    /\ serving' = target
    /\ busy' = FALSE
    /\ onLte' = FALSE
    /\ UNCHANGED target

FallBackToLte ==
    /\ ~onLte
    /\ onLte' = TRUE
    /\ UNCHANGED <<serving, target, busy>>

ReturnToMmWave ==
    /\ onLte
    /\ ~busy
    /\ onLte' = FALSE
    /\ UNCHANGED <<serving, target, busy>>

Next ==
    \/ \E c \in Cells : Start(c)
    \/ Complete
    \/ FallBackToLte
    \/ ReturnToMmWave

Spec == Init /\ [][Next]_vars

\* A handover that was started completes.
FairSpec == Spec /\ WF_vars(Complete)
=============================================================================
