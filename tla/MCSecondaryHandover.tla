------------------------ MODULE MCSecondaryHandover ------------------------
(***************************************************************************)
(* Instances of SecondaryHandover for TLC.  The SINR values are one below  *)
(* the outage threshold of -5 dB, one inside the 2 dB hysteresis of a UE   *)
(* on LTE, and two good ones further apart than HoSinrDifference (3 dB).   *)
(***************************************************************************)
EXTENDS SecondaryHandover

TwoCells == {2, 3}
ThreeCells == {2, 3, 4}
MCSinrs == {-10, -4, 0, 10}
MCOutageThreshold == -5
NoCells == {}
OnlyFour == {4}
OneDrb == {1}

\* Bound of the three-cell instances: contexts a cell creates.
FewHandovers == \A c \in Cells : lastRnti[c] <= 2
=============================================================================
