--------------------------- MODULE MCE2Reporting ---------------------------
(***************************************************************************)
(* Instances of E2Reporting for TLC, for either kind of cell: up to three  *)
(* requests of the RIC, a PRB usage below, at and above the threshold, a   *)
(* window of three samples.                                                *)
(***************************************************************************)
EXTENDS E2Reporting

TwoIds == {1, 2}
MCPrbs == {40, 50, 60}

First == {Subscribe(1, x, 50, TRUE) : x \in 0 .. 2} \cup {Subscribe(1, 1, 50, FALSE)}
Second == {Subscribe(2, x, 50, TRUE) : x \in {1, 2, 3}}
Ends == {SubscriptionDelete, Shutdown}

MCScripts ==
    {<<a, e>> : a \in First, e \in Ends}
    \cup {<<a, b>> : a \in First, b \in Second}
    \cup {<<a, b, e>> : a \in First, b \in Second, e \in Ends}
=============================================================================
