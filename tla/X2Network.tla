----------------------------- MODULE X2Network -----------------------------
(***************************************************************************)
(* The X2 control plane of one UE: the messages that class EpcX2 carries   *)
(* between the LTE coordinator and the mmWave cells, and the links it      *)
(* carries them on.  EpcX2 opens one UDP socket for every pair of          *)
(* neighbours over a point-to-point link with a constant delay, so a link  *)
(* is a FIFO channel, and messages of different links are not ordered.     *)
(*                                                                         *)
(* The UE is implicit (one IMSI).  A message keeps the fields its receiver *)
(* reads: RNTIs, the target cell, the bearers whose RLC is to be set up.   *)
(***************************************************************************)
EXTENDS Integers, Sequences

CONSTANTS
    Cells,      \* identifiers of the mmWave cells
    LteCell,    \* identifier of the LTE cell, the coordinator
    Drbs,       \* data radio bearers of the UE
    RntiSpace   \* number of values of an RNTI: 65536 in the code (uint16_t)

ASSUME CellsAssumption ==
    /\ Cells \subseteq Nat \ {0}
    /\ LteCell \in Nat \ {0}
    /\ LteCell \notin Cells

\* m_drbMap visits the bearers in the order of their identities.
ASSUME DrbAssumption == Drbs \subseteq Nat

\* RNTI 0 is never allocated and AddUe skips two values of the range.
ASSUME RntiAssumption == RntiSpace \in Nat /\ RntiSpace >= 3

Nodes == Cells \cup {LteCell}
NoCell == 0
NoRnti == 0
Rntis == 1 .. RntiSpace - 1

\* A control-plane socket exists for every pair of distinct nodes.
Links == {l \in Nodes \X Nodes : l[1] # l[2]}

(***************************************************************************)
(* Messages                                                                *)
(***************************************************************************)
McHandoverRequest(target) == [type |-> "McHandoverRequest", target |-> target]
HandoverRequest(oldId, rlc) ==
    [type |-> "HandoverRequest", oldId |-> oldId, rlc |-> rlc]
HandoverRequestAck(oldId, newId) ==
    [type |-> "HandoverRequestAck", oldId |-> oldId, newId |-> newId]
HandoverPreparationFailure(oldId) ==
    [type |-> "HandoverPreparationFailure", oldId |-> oldId]
SecondaryCellHandoverCompleted(oldId, rnti) ==
    [type |-> "SecondaryCellHandoverCompleted", oldId |-> oldId, rnti |-> rnti]
UeContextRelease(oldId) == [type |-> "UeContextRelease", oldId |-> oldId]
SwitchConnection(rnti) == [type |-> "SwitchConnection", rnti |-> rnti]
HandoverFailed == [type |-> "HandoverFailed"]

Messages ==
    {McHandoverRequest(c) : c \in Cells}
    \cup {HandoverRequest(r, b) : r \in Rntis, b \in SUBSET Drbs}
    \cup {HandoverRequestAck(r, s) : r \in Rntis, s \in Rntis}
    \cup {HandoverPreparationFailure(r) : r \in Rntis}
    \cup {SecondaryCellHandoverCompleted(r, s) : r \in Rntis, s \in Rntis}
    \cup {UeContextRelease(r) : r \in Rntis}
    \cup {SwitchConnection(r) : r \in Rntis}
    \cup {HandoverFailed}

(***************************************************************************)
(* Operations on the links                                                 *)
(***************************************************************************)
NoTraffic == [l \in Links |-> <<>>]
Networks == [Links -> Seq(Messages)]

\* The message that the socket of node "to" hands over next from "from".
Arrives(net, from, to, type) ==
    /\ <<from, to>> \in Links
    /\ net[<<from, to>>] # <<>>
    /\ Head(net[<<from, to>>]).type = type

Sent(net, from, to, m) == [net EXCEPT ![<<from, to>>] = Append(@, m)]
Taken(net, from, to) == [net EXCEPT ![<<from, to>>] = Tail(@)]

(***************************************************************************)
(* The messages that carry a handover forward, and the cell each of them   *)
(* moves the UE to.                                                        *)
(***************************************************************************)
HandoverTypes == {"McHandoverRequest", "HandoverRequest",
                  "SecondaryCellHandoverCompleted"}

MovesTo(l, m) ==
    CASE m.type = "McHandoverRequest" -> m.target
      [] m.type = "HandoverRequest" -> l[2]
      [] OTHER -> l[1]

NoHandover(net) ==
    \A l \in Links : \A i \in 1 .. Len(net[l]) :
        net[l][i].type \notin HandoverTypes

AtMostOneHandover(net) ==
    \A l, k \in Links : \A i \in 1 .. Len(net[l]), j \in 1 .. Len(net[k]) :
        /\ net[l][i].type \in HandoverTypes
        /\ net[k][j].type \in HandoverTypes
        => l = k /\ i = j

HandoversGoTo(net, target) ==
    \A l \in Links : \A i \in 1 .. Len(net[l]) :
        net[l][i].type \in HandoverTypes => MovesTo(l, net[l][i]) = target
=============================================================================
