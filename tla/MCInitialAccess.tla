-------------------------- MODULE MCInitialAccess --------------------------
(***************************************************************************)
(* Instances of InitialAccess for TLC: LTE cell 1 and mmWave cells 2 and   *)
(* 3; the SINR of a cell is below the outage threshold of -5 dB, between   *)
(* the threshold and its hysteresis of 2 dB, or good.                      *)
(***************************************************************************)
EXTENDS InitialAccess

MCCells == {2, 3}
MCDrbs == {1}
MCTwoDrbs == {1, 2}
MCSinrs == {-10, -4, 10}
MCGoodSinrs == {10}
MCOutageThreshold == -5
MCAllAdmit == {1, 2, 3}
MCCell3Rejects == {1, 2}
MCNoLegs == {}
MCMmWave == {"mm"}
MCAllLegs == {"lte", "mm"}
=============================================================================
