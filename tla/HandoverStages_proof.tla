------------------------ MODULE HandoverStages_proof ------------------------
(***************************************************************************)
(* Theorems about the stages of a handover: who holds the UE, where its    *)
(* messages are, and what the coordinator knows, from the request to the   *)
(* release of the old context.                                             *)
(*                                                                         *)
(* The invariants are built in layers, each one inductive relative to the  *)
(* ones before it: Stages (contexts, air and the messages that prepare a   *)
(* handover, whoever asked for it), Home (the coordinator's view, when     *)
(* only the coordinator asks), Bearers (what a handover carries along),    *)
(* Order (what arrives at a cell in which order, when the radio is good).  *)
(***************************************************************************)
EXTENDS SecondaryHandover_proof

-----------------------------------------------------------------------------
(***************************************************************************)
(* The effects that steps have on contexts, links, timers and the air.     *)
(* Every step has one of them (StepEffects), and the invariants below are  *)
(* shown to survive each effect.                                           *)
(***************************************************************************)
view == <<last, setup, mmCell, mmRnti, asked>>
radio == <<ue, rrcDown, rrcUp>>

State(c, r) == ueMan[c][r].state

\* Nothing that the invariants speak of changes.
Quiet == UNCHANGED <<view, contexts, radio, x2>>

\* The coordinator asks the serving cell for a handover to t.
Asked(t) ==
    /\ setup /\ RequestHandover(t)
    /\ UNCHANGED <<last, mmCell, mmRnti, contexts, radio>>

\* The coordinator tells the serving cell that the UE is on LTE.
SwitchedOff ==
    /\ ~\E i \in 1 .. Len(x2[<<LteCell, mmCell>>]) :
            x2[<<LteCell, mmCell>>][i] = SwitchConnection(mmRnti)
    /\ x2' = Sent(x2, LteCell, mmCell, SwitchConnection(mmRnti))
    /\ UNCHANGED <<view, contexts, radio>>

\* A handover may be prepared in cell c, with the links as the request for it
\* left them: one of the coordinator, or one of the RIC.
MayPrepare(c, net) ==
    \/ /\ Arrives(x2, LteCell, c, "McHandoverRequest")
       /\ net = Taken(x2, LteCell, c)
    \/ e2Event # NoEvent /\ net = x2

\* The serving context of cell c asks cell t to admit the UE.
Prepared(c, r, t, net) ==
    /\ MayPrepare(c, net) /\ r = rntiOf[c]
    /\ State(c, r) = "CONNECTED_NORMALLY" /\ <<c, t>> \in Links
    /\ ueMan' = [ueMan EXCEPT ![c][r] = [@ EXCEPT !.state = "HANDOVER_PREPARATION",
                                                  !.target = t, !.rlcRequests = {}]]
    /\ x2' = Sent(net, c, t, HandoverRequest(r, ueMan[c][r].rlcRequests))
    /\ UNCHANGED <<view, lastRnti, rntiOf, teidFwd, timers, radio>>

\* A context that waits for the UE keeps the next target for later.
Deferred(c, r, t, net) ==
    /\ MayPrepare(c, net) /\ r = rntiOf[c]
    /\ State(c, r) = "HANDOVER_JOINING"
    /\ ueMan' = [ueMan EXCEPT ![c][r] = [@ EXCEPT !.queued = t]]
    /\ x2' = net
    /\ UNCHANGED <<view, lastRnti, rntiOf, teidFwd, timers, radio>>

\* Cell c rejects, or admits as RNTI r, the UE that cell a asks it to take.
Rejected(a, c) ==
    /\ c \notin AdmittingCells
    /\ Arrives(x2, a, c, "HandoverRequest")
    /\ x2' = Sent(Taken(x2, a, c), c, a,
                  HandoverPreparationFailure(Head(x2[<<a, c>>]).oldId))
    /\ UNCHANGED <<view, contexts, radio>>

Admitted(a, c, r) ==
    /\ Arrives(x2, a, c, "HandoverRequest")
    /\ ~Known(c, r)
    /\ ueMan' = [ueMan EXCEPT ![c][r] = JoiningContext(a, Head(x2[<<a, c>>]))]
    /\ lastRnti' = [lastRnti EXCEPT ![c] = r]
    /\ rntiOf' = [rntiOf EXCEPT ![c] = r]
    /\ timers' = timers \cup {Timer("joining", c, r)}
    /\ x2' = Sent(Taken(x2, a, c), c, a,
                  HandoverRequestAck(Head(x2[<<a, c>>]).oldId, r))
    /\ UNCHANGED <<view, teidFwd, radio>>

\* The acknowledgement of cell a reaches RNTI r of cell c: the UE has to leave.
Left(a, c, r, m) ==
    /\ Arrives(x2, a, c, "HandoverRequestAck")
    /\ m = Head(x2[<<a, c>>]) /\ r = m.oldId
    /\ rrcDown' = rrcDown \cup
           {[cell |-> c, rnti |-> r, target |-> a, newRnti |-> m.newId]}
    /\ ueMan' = [ueMan EXCEPT ![c][r] = [@ EXCEPT !.state = "HANDOVER_LEAVING"]]
    /\ timers' = timers \cup {Timer("leaving", c, r)}
    /\ teidFwd' = [teidFwd EXCEPT ![c] = @ \cup ueMan[c][r].rlc]
    /\ x2' = Taken(x2, a, c)
    /\ UNCHANGED <<view, lastRnti, rntiOf, ue, rrcUp>>

\* The rejection of cell a reaches RNTI r of cell c: the UE stays.
Resumed(a, c, r) ==
    /\ Arrives(x2, a, c, "HandoverPreparationFailure")
    /\ r = Head(x2[<<a, c>>]).oldId
    /\ ueMan' = [ueMan EXCEPT ![c][r] = [@ EXCEPT !.state =
                    IF State(c, r) = "HANDOVER_PREPARATION"
                    THEN "CONNECTED_NORMALLY" ELSE State(c, r)]]
    /\ x2' = Taken(x2, a, c)
    /\ UNCHANGED <<view, lastRnti, rntiOf, teidFwd, timers, radio>>

\* The coordinator has context r of cell c removed.
Released(c, r) ==
    /\ Arrives(x2, LteCell, c, "UeContextRelease")
    /\ r = Head(x2[<<LteCell, c>>]).oldId
    /\ State(c, r) = "HANDOVER_LEAVING"
    /\ timers' = timers \ {Timer("leaving", c, r)}
    /\ teidFwd' = [teidFwd EXCEPT ![c] = @ \ ueMan[c][r].rlc]
    /\ RemoveUe(c, r)
    /\ x2' = Taken(x2, LteCell, c)
    /\ UNCHANGED <<view, lastRnti, rntiOf, ue>>

\* Context r of cell c hears that the UE is on LTE.
Forwarding(c, r) ==
    /\ Arrives(x2, LteCell, c, "SwitchConnection")
    /\ r = Head(x2[<<LteCell, c>>]).rnti
    /\ ueMan' = [ueMan EXCEPT ![c][r] = [@ EXCEPT !.target = LteCell]]
    /\ x2' = Taken(x2, LteCell, c)
    /\ UNCHANGED <<view, lastRnti, rntiOf, teidFwd, timers, radio>>

\* The UE arrives at RNTI r of cell c ...
Joined(c, r) ==
    /\ [cell |-> c, rnti |-> r] \in rrcUp
    /\ rrcUp' = rrcUp \ {[cell |-> c, rnti |-> r]}
    /\ State(c, r) = "HANDOVER_JOINING"
    /\ timers' = timers \ {Timer("joining", c, r)}
    /\ ueMan' = [ueMan EXCEPT ![c][r] = [@ EXCEPT !.state = "CONNECTED_NORMALLY"]]
    /\ x2' = Sent(x2, c, LteCell,
                  SecondaryCellHandoverCompleted(ueMan[c][r].sourceId, r))
    /\ UNCHANGED <<view, lastRnti, rntiOf, teidFwd, ue, rrcDown>>

\* ... and is handed over again at once, to the target kept for later.
JoinedAndPrepared(c, r, t) ==
    /\ [cell |-> c, rnti |-> r] \in rrcUp
    /\ rrcUp' = rrcUp \ {[cell |-> c, rnti |-> r]}
    /\ State(c, r) = "HANDOVER_JOINING" /\ ueMan[c][r].queued # NoCell
    /\ <<c, t>> \in Links
    /\ timers' = timers \ {Timer("joining", c, r)}
    /\ ueMan' = [ueMan EXCEPT ![c][r] = [@ EXCEPT !.state = "HANDOVER_PREPARATION",
                                                  !.target = t, !.rlcRequests = {}]]
    /\ x2' = Sent(Sent(x2, c, LteCell,
                       SecondaryCellHandoverCompleted(ueMan[c][r].sourceId, r)),
                  c, t, HandoverRequest(r, ueMan[c][r].rlcRequests))
    /\ UNCHANGED <<view, lastRnti, rntiOf, teidFwd, ue, rrcDown>>

\* The confirmation of the UE is of no use to the cell, or ends the simulation.
Unheard(c, r) ==
    /\ [cell |-> c, rnti |-> r] \in rrcUp
    /\ rrcUp' = rrcUp \ {[cell |-> c, rnti |-> r]}
    /\ timers' \in {timers, timers \ {Timer("joining", c, r)}}
    /\ State(c, r) = "HANDOVER_JOINING" => ueMan[c][r].queued # NoCell
    /\ State(c, r) \in {"NONE", "HANDOVER_PREPARATION"} => fault' # NoFault
    /\ UNCHANGED <<view, ueMan, lastRnti, rntiOf, teidFwd, ue, rrcDown, x2>>

\* The UE did not arrive at RNTI r of cell c in time.
JoiningExpired(c, r) ==
    /\ RadioMayFail
    /\ State(c, r) = "HANDOVER_JOINING"
    /\ x2' = Sent(x2, c, LteCell, HandoverFailed)
    /\ timers' = (timers \ {Timer("joining", c, r)}) \cup {Timer("removal", c, r)}
    /\ UNCHANGED <<view, ueMan, lastRnti, rntiOf, teidFwd, radio>>

\* A timer removes context r of cell c.
Removed(c, r) ==
    /\ \/ RadioMayFail /\ State(c, r) = "HANDOVER_LEAVING"
       \/ Timer("removal", c, r) \in timers
    /\ timers' \subseteq timers
    /\ RemoveUe(c, r)
    /\ UNCHANGED <<view, lastRnti, rntiOf, teidFwd, ue, x2>>

\* The UE follows a handover command, reaches the target, or fails to.
Followed(m) ==
    /\ m \in rrcDown /\ ue.state = "CONNECTED_NORMALLY"
    /\ <<m.cell, m.rnti>> = <<ue.cell, ue.rnti>>
    /\ ue' = [state |-> "CONNECTED_HANDOVER", cell |-> m.target, rnti |-> m.newRnti,
              ra |-> "running"]
    /\ rrcDown' = rrcDown \ {m}
    /\ UNCHANGED <<view, contexts, x2, rrcUp>>

Reached ==
    /\ ue.ra = "running" /\ Known(ue.cell, ue.rnti)
    /\ ue' = [ue EXCEPT !.state = "CONNECTED_NORMALLY", !.ra = "idle"]
    /\ rrcUp' = rrcUp \cup {[cell |-> ue.cell, rnti |-> ue.rnti]}
    /\ UNCHANGED <<view, contexts, x2, rrcDown>>

Missed ==
    /\ ue.ra = "running"
    /\ ue' = [ue EXCEPT !.ra = "failed"]
    /\ UNCHANGED <<view, contexts, x2, rrcDown, rrcUp>>

\* The effects of a handover's cells and of the UE
CellEffect ==
    \/ \E c, t \in Cells, r \in Rntis : \E net \in {x2, Taken(x2, LteCell, c)} :
           Prepared(c, r, t, net) \/ Deferred(c, r, t, net)
    \/ \E a, c \in Cells : Rejected(a, c)
    \/ \E a, c \in Cells, r \in Rntis : Admitted(a, c, r)
    \/ \E a, c \in Cells, r \in Rntis : \E m \in Messages : Left(a, c, r, m)
    \/ \E a, c \in Cells, r \in Rntis : Resumed(a, c, r)
    \/ \E c \in Cells, r \in Rntis : Released(c, r)
    \/ \E c \in Cells, r \in Rntis : Forwarding(c, r)

UeEffect ==
    \/ \E c \in Cells, r \in Rntis : Joined(c, r) \/ Unheard(c, r)
    \/ \E c, t \in Cells, r \in Rntis : JoinedAndPrepared(c, r, t)
    \/ \E c \in Cells, r \in Rntis : JoiningExpired(c, r) \/ Removed(c, r)
    \/ \E m \in rrcDown : Followed(m)
    \/ Reached
    \/ Missed

CoordinatorEffect ==
    \/ Quiet
    \/ \E t \in Cells : Asked(t)
    \/ SwitchedOff
    \/ \E c \in Cells : RecvSecondaryCellHandoverCompleted(c)

-----------------------------------------------------------------------------
\* The simulation stops: nothing changes but the fault.
LEMMA StopQuiet ==
    ASSUME NEW why, Stop(why)
    PROVE  Quiet
  BY DEF Stop, Quiet, view, radio, coordinator, contexts, terminal, air

\* The coordinator's own steps.
LEMMA DecideEffect ==
    ASSUME TypeOK, Decide \/ PerformHandover \/ ReadControlFile
    PROVE  Quiet \/ (\E t \in Cells : Asked(t)) \/ SwitchedOff
  <1> USE DEF Quiet, Asked, SwitchedOff, view, radio, coordinator, contexts, terminal, air
  <1>0. CoordinatorType
    BY DEF TypeOK
  <1>1. CASE SwitchToLte
    BY <1>1 DEF SwitchToLte, SendRrcConnectionSwitch
  <1>2. CASE SwitchBackToMmWave
    BY <1>2 DEF SwitchBackToMmWave, SendRrcConnectionSwitch
  <1>3. CASE HandoverFromLte
    BY <1>3 DEF HandoverFromLte
  <1>4. CASE ThresholdHandover
    BY <1>4 DEF ThresholdHandover
  <1>5. CASE TttBasedHandover
    BY <1>5 DEF TttBasedHandover
  <1>6. CASE PerformHandover
    <2>1. hoEvent.target \in Cells
      BY <1>0, <1>6 DEF PerformHandover, CoordinatorType
    <2> QED
      BY <1>6, <2>1 DEF PerformHandover, Stop
  <1>7. CASE ReadControlFile
    BY <1>7 DEF ReadControlFile
  <1> QED
    BY <1>1, <1>2, <1>3, <1>4, <1>5, <1>6, <1>7 DEF Decide

\* PrepareHandover of the context of cell c that serves the UE.
LEMMA SendRequestEffect ==
    ASSUME TypeOK, NEW c \in Cells, NEW t \in Cells, NEW net, MayPrepare(c, net),
           SendHandoverRequest(net, c, t),
           UNCHANGED <<view, lastRnti, rntiOf, teidFwd, timers, radio>>
    PROVE  \/ UNCHANGED <<ueMan, x2>>
           \/ \E r \in Rntis : Prepared(c, r, t, net) \/ Deferred(c, r, t, net)
  <1>1. CASE UNCHANGED <<ueMan, x2>>
    BY <1>1
  <1>2. CASE Known(c, rntiOf[c])
    <2>1. rntiOf[c] \in Rntis
      BY <1>2 DEF Known, TypeOK, ContextsType
    <2>2. PrepareHandover(ueMan, net, c, rntiOf[c], t)
      BY <1>2 DEF SendHandoverRequest
    <2> QED
      BY <2>1, <2>2 DEF PrepareHandover, Prepared, Deferred, State
  <1> QED
    BY <1>1, <1>2 DEF SendHandoverRequest

\* The messages that a mmWave cell receives over X2.
LEMMA RecvEffect ==
    ASSUME TypeOK, NEW c \in Cells, NEW a \in Cells, RecvFromLte(c) \/ RecvFromCell(a, c)
    PROVE  Quiet \/ CellEffect
  <1> USE DEF coordinator, contexts, terminal, air
  <1>0. x2 \in Networks /\ ueMan \in UeManagers
    BY DEF TypeOK, MessagesType, ContextsType
  <1>s. (\E why : Stop(why)) => Quiet
    BY StopQuiet
  <1>1. CASE RecvMcHandoverRequest(c)
    <2> DEFINE t == Head(x2[<<LteCell, c>>]).target
               net == Taken(x2, LteCell, c)
    <2>1. Arrives(x2, LteCell, c, "McHandoverRequest")
      BY <1>1 DEF RecvMcHandoverRequest
    <2>2. t \in Cells
      BY <1>0, <2>1, ArrivesType, MessageTypes
    <2>3. /\ SendHandoverRequest(net, c, t)
          /\ UNCHANGED <<view, lastRnti, rntiOf, teidFwd, timers, radio>>
      BY <1>1 DEF RecvMcHandoverRequest, view, radio
    <2>4. \/ UNCHANGED <<ueMan, x2>>
          \/ \E r \in Rntis : Prepared(c, r, t, net) \/ Deferred(c, r, t, net)
      BY <2>1, <2>2, <2>3, SendRequestEffect DEF MayPrepare
    <2> HIDE DEF t
    <2> QED
      BY <2>2, <2>3, <2>4 DEF Quiet, CellEffect, view, radio
  <1>2. CASE RecvUeContextRelease(c)
    <2> DEFINE r == Head(x2[<<LteCell, c>>]).oldId
    <2>1. Arrives(x2, LteCell, c, "UeContextRelease")
      BY <1>2 DEF RecvUeContextRelease
    <2>2. r \in Rntis
      BY <1>0, <2>1, ArrivesType, MessageTypes
    <2>3. (\E why : Stop(why)) \/ Released(c, r)
      BY <1>2, <2>1 DEF RecvUeContextRelease, RemoveTeids, Released, State, view, radio
    <2> HIDE DEF r
    <2> QED
      BY <1>s, <2>2, <2>3 DEF CellEffect
  <1>3. CASE RecvConnectionSwitchToMmWave(c)
    <2> DEFINE r == Head(x2[<<LteCell, c>>]).rnti
    <2>1. Arrives(x2, LteCell, c, "SwitchConnection")
      BY <1>3 DEF RecvConnectionSwitchToMmWave
    <2>2. r \in Rntis
      BY <1>0, <2>1, ArrivesType, MessageTypes
    <2>3. (\E why : Stop(why)) \/ Forwarding(c, r)
      BY <1>3, <2>1 DEF RecvConnectionSwitchToMmWave, Forwarding, view, radio
    <2> HIDE DEF r
    <2> QED
      BY <1>s, <2>2, <2>3 DEF CellEffect
  <1>4. CASE RecvHandoverRequest(a, c)
    <2>1. ASSUME NEW r \in Rntis, IsNextRnti(c, r) PROVE ~Known(c, r)
      BY <2>1 DEF IsNextRnti, FreeSteps
    <2>2. Arrives(x2, a, c, "HandoverRequest")
      BY <1>4 DEF RecvHandoverRequest
    <2>3. Quiet \/ Rejected(a, c) \/ \E r \in Rntis : Admitted(a, c, r)
      BY <1>4, <2>1, <2>2 DEF RecvHandoverRequest, Quiet, Rejected, Admitted, view, radio
    <2> QED
      BY <2>3 DEF CellEffect
  <1>5. CASE RecvHandoverRequestAck(a, c)
    <2> DEFINE m == Head(x2[<<a, c>>])
    <2>1. Arrives(x2, a, c, "HandoverRequestAck")
      BY <1>5 DEF RecvHandoverRequestAck
    <2>2. m \in Messages /\ m.oldId \in Rntis
      BY <1>0, <2>1, ArrivesType, MessageTypes
    <2>3. (\E why : Stop(why)) \/ Left(a, c, m.oldId, m)
      BY <1>5, <2>1 DEF RecvHandoverRequestAck, StartLeaving, Left, view, radio
    <2> HIDE DEF m
    <2> QED
      BY <1>s, <2>2, <2>3 DEF CellEffect
  <1>6. CASE RecvHandoverPreparationFailure(a, c)
    <2> DEFINE r == Head(x2[<<a, c>>]).oldId
    <2>1. Arrives(x2, a, c, "HandoverPreparationFailure")
      BY <1>6 DEF RecvHandoverPreparationFailure
    <2>2. r \in Rntis
      BY <1>0, <2>1, ArrivesType, MessageTypes
    <2>3. (\E why : Stop(why)) \/ Resumed(a, c, r)
      BY <1>6, <2>1 DEF RecvHandoverPreparationFailure, Resumed, State, view, radio
    <2> HIDE DEF r
    <2> QED
      BY <1>s, <2>2, <2>3 DEF CellEffect
  <1> QED
    BY <1>1, <1>2, <1>3, <1>4, <1>5, <1>6 DEF RecvFromLte, RecvFromCell

\* The confirmation of the UE.
LEMMA CompletedEffect ==
    ASSUME TypeOK, RecvReconfigurationCompleted
    PROVE  UeEffect
  <1> USE DEF coordinator, contexts, terminal, air
  <1>0. x2 \in Networks /\ ueMan \in UeManagers
    BY DEF TypeOK, MessagesType, ContextsType
  <1>1. PICK m \in rrcUp : RecvReconfigurationCompleted!(m)
    BY DEF RecvReconfigurationCompleted
  <1> DEFINE c == m.cell
             r == m.rnti
             context == ueMan[c][r]
             man == [ueMan EXCEPT ![c][r] = [@ EXCEPT !.state = "CONNECTED_NORMALLY"]]
             net == Sent(x2, c, LteCell, SecondaryCellHandoverCompleted(context.sourceId, r))
  <1>2. c \in Cells /\ r \in Rntis /\ m = [cell |-> c, rnti |-> r]
    BY DEF TypeOK, MessagesType
  <1>3. /\ rrcUp' = rrcUp \ {[cell |-> c, rnti |-> r]} /\ [cell |-> c, rnti |-> r] \in rrcUp
        /\ UNCHANGED <<view, lastRnti, rntiOf, teidFwd, ue, rrcDown>>
    BY <1>1, <1>2 DEF view
  <1>4. context \in Contexts
    BY <1>0, <1>2, ContextType
  <1>5. CASE context.state = "HANDOVER_JOINING"
    <2>1. timers' = timers \ {Timer("joining", c, r)}
      BY <1>1, <1>5
    <2>2. CASE context.queued = NoCell
      <3>1. ueMan' = man /\ x2' = net
        BY <1>1, <1>5, <2>2
      <3> QED
        BY <1>2, <1>3, <1>5, <2>1, <3>1 DEF UeEffect, Joined, State
    <2>3. CASE context.queued # NoCell
      <3> DEFINE t == context.queued
      <3>1. PrepareHandover(man, net, c, r, t) /\ t \in Cells
        BY <1>1, <1>4, <1>5, <2>3 DEF Contexts
      <3>2. man[c][r] = [context EXCEPT !.state = "CONNECTED_NORMALLY"]
        BY <1>0, <1>2 DEF UeManagers
      <3>3. /\ man[c][r].state = "CONNECTED_NORMALLY"
            /\ man[c][r].rlcRequests = context.rlcRequests
            /\ [man[c][r] EXCEPT !.state = "HANDOVER_PREPARATION", !.target = t,
                                 !.rlcRequests = {}]
               = [context EXCEPT !.state = "HANDOVER_PREPARATION", !.target = t,
                                 !.rlcRequests = {}]
        BY <1>4, <3>2 DEF Contexts
      <3>4. CASE <<c, t>> \notin Links
        <4>1. UNCHANGED <<ueMan, x2>> /\ fault' = "Missing infos for targetCellId"
          BY <3>1, <3>3, <3>4 DEF PrepareHandover
        <4> QED
          BY <1>2, <1>3, <1>5, <2>1, <2>3, <4>1 DEF UeEffect, Unheard, State, view
      <3>5. CASE <<c, t>> \in Links
        <4>1. /\ ueMan' = [man EXCEPT ![c][r] =
                      [@ EXCEPT !.state = "HANDOVER_PREPARATION", !.target = t,
                                !.rlcRequests = {}]]
              /\ x2' = Sent(net, c, t, HandoverRequest(r, man[c][r].rlcRequests))
          BY <3>1, <3>3, <3>5 DEF PrepareHandover
        <4>2. ueMan' = [man EXCEPT ![c][r] =
                      [context EXCEPT !.state = "HANDOVER_PREPARATION", !.target = t,
                                      !.rlcRequests = {}]]
          BY <3>3, <4>1
        <4>3. ueMan' = [ueMan EXCEPT ![c][r] =
                      [context EXCEPT !.state = "HANDOVER_PREPARATION", !.target = t,
                                      !.rlcRequests = {}]]
          BY <1>0, <1>2, <4>2 DEF UeManagers
        <4>4. JoinedAndPrepared(c, r, t)
          BY <1>3, <1>5, <2>1, <2>3, <3>3, <3>5, <4>1, <4>3 DEF JoinedAndPrepared, State
        <4> QED
          BY <1>2, <3>1, <4>4 DEF UeEffect
      <3> QED
        BY <3>4, <3>5
    <2> QED
      BY <2>2, <2>3
  <1>6. CASE context.state # "HANDOVER_JOINING"
    <2>1. UNCHANGED <<timers, ueMan, x2>>
      BY <1>1, <1>6
    <2>2. context.state \in {"NONE", "HANDOVER_PREPARATION"} =>
              fault' = "ReconfigurationCompleted: unexpected state"
      BY <1>1, <1>6
    <2> QED
      BY <1>2, <1>3, <1>6, <2>1, <2>2 DEF UeEffect, Unheard, State, view, NoFault
  <1> QED
    BY <1>5, <1>6

\* The timers of the mmWave cells, and the UE.
LEMMA ElsewhereEffect ==
    ASSUME TypeOK,
           \/ Expire \/ UeRecvReconfiguration \/ UeRecvRrcConnectionSwitch
           \/ RandomAccessSuccessful \/ RandomAccessFailed
    PROVE  Quiet \/ UeEffect
  <1> USE DEF coordinator, contexts, terminal, air, view, radio
  <1>s. (\E why : Stop(why)) => Quiet
    BY StopQuiet
  <1>1. CASE Expire
    <2>0. PICK c \in Cells, r \in Rntis :
            \/ HandoverJoiningTimeout(c, r)
            \/ HandoverLeavingTimeout(c, r)
            \/ ScheduledRemoveUe(c, r)
      BY <1>1 DEF Expire
    <2>1. CASE HandoverJoiningTimeout(c, r)
      <3>1. (\E why : Stop(why)) \/ JoiningExpired(c, r)
        BY <2>1 DEF HandoverJoiningTimeout, JoiningExpired, State
      <3> QED
        BY <1>s, <3>1 DEF UeEffect
    <2>2. CASE HandoverLeavingTimeout(c, r) \/ ScheduledRemoveUe(c, r)
      <3>1. (\E why : Stop(why)) \/ Removed(c, r)
        BY <2>2 DEF HandoverLeavingTimeout, ScheduledRemoveUe, Removed, State
      <3> QED
        BY <1>s, <3>1 DEF UeEffect
    <2> QED
      BY <2>0, <2>1, <2>2
  <1>2. CASE UeRecvReconfiguration
    <2>1. PICK m \in rrcDown : UeRecvReconfiguration!(m)
      BY <1>2 DEF UeRecvReconfiguration
    <2>2. (\E why : Stop(why)) \/ Followed(m)
      BY <2>1 DEF Followed
    <2> QED
      BY <1>s, <2>2 DEF UeEffect
  <1>3. CASE UeRecvRrcConnectionSwitch
    BY <1>3 DEF UeRecvRrcConnectionSwitch, Quiet
  <1>4. CASE RandomAccessSuccessful
    BY <1>4 DEF RandomAccessSuccessful, UeEffect, Reached
  <1>5. CASE RandomAccessFailed
    BY <1>5 DEF RandomAccessFailed, UeEffect, Missed
  <1> QED
    BY <1>1, <1>2, <1>3, <1>4, <1>5

\* Every step has one of the effects.
LEMMA StepEffects ==
    ASSUME TypeOK, [Next]_vars
    PROVE  CoordinatorEffect \/ CellEffect \/ UeEffect
  <1>1. CASE UNCHANGED vars
    BY <1>1 DEF vars, CoordinatorEffect, Quiet, view, radio, coordinator, contexts,
                terminal, air
  <1>2. CASE Next
    <2>1. CASE Decide \/ PerformHandover \/ ReadControlFile
      BY <2>1, DecideEffect DEF CoordinatorEffect
    <2>2. CASE \E c, a \in Cells : RecvFromLte(c) \/ RecvFromCell(a, c) \/ RecvAtLte(c)
      <3>1. PICK c \in Cells, a \in Cells :
                RecvFromLte(c) \/ RecvFromCell(a, c) \/ RecvAtLte(c)
        BY <2>2
      <3>2. CASE RecvFromLte(c) \/ RecvFromCell(a, c)
        BY <3>2, RecvEffect DEF CoordinatorEffect
      <3>3. CASE RecvHandoverFailed(c)
        BY <3>3, StopQuiet DEF RecvHandoverFailed, CoordinatorEffect
      <3>4. CASE RecvSecondaryCellHandoverCompleted(c)
        BY <3>4 DEF CoordinatorEffect
      <3> QED
        BY <3>1, <3>2, <3>3, <3>4 DEF RecvAtLte
    <2>3. CASE RecvReconfigurationCompleted
      BY <2>3, CompletedEffect
    <2>4. CASE \E c \in Cells : ControlMessageReceived(c)
      BY <2>4 DEF ControlMessageReceived, CoordinatorEffect, Quiet, view, radio,
                  coordinator, contexts, terminal, air
    <2>5. CASE PerformE2RCHO
      <3> DEFINE c == e2Event.source
                 t == e2Event.target
      <3>1. c \in Cells /\ t \in Cells /\ MayPrepare(c, x2)
        BY <2>5 DEF PerformE2RCHO, TypeOK, ContextsType, MayPrepare
      <3>2. UNCHANGED <<view, lastRnti, rntiOf, teidFwd, timers, radio>>
        BY <2>5 DEF PerformE2RCHO, view, radio, coordinator, terminal, air
      <3>3. UNCHANGED <<ueMan, x2>> \/ SendHandoverRequest(x2, c, t)
        BY <2>5 DEF PerformE2RCHO
      <3>4. \/ UNCHANGED <<ueMan, x2>>
            \/ \E r \in Rntis : Prepared(c, r, t, x2) \/ Deferred(c, r, t, x2)
        BY <3>1, <3>2, <3>3, SendRequestEffect
      <3> HIDE DEF c, t
      <3> QED
        BY <3>1, <3>2, <3>4 DEF CoordinatorEffect, CellEffect, Quiet, contexts
    <2>6. CASE \/ Expire \/ UeRecvReconfiguration \/ UeRecvRrcConnectionSwitch
               \/ RandomAccessSuccessful \/ RandomAccessFailed
      BY <2>6, ElsewhereEffect DEF CoordinatorEffect
    <2> QED
      BY <1>2, <2>1, <2>2, <2>3, <2>4, <2>5, <2>6, Zenon DEF Next, Control, Deliver
  <1> QED
    BY <1>1, <1>2
-----------------------------------------------------------------------------
(***************************************************************************)
(* The stages of a handover, as the contexts, the air and the messages     *)
(* that prepare it show them.  Whoever asked for the handover, a context   *)
(* that serves the UE has it, and has it alone; the preparation is a       *)
(* request, its acknowledgement or its rejection, and the source waits for *)
(* it; the context that waits for the UE is the only one of its kind; and  *)
(* the UE is on its way to the context that waits for it, or that timed    *)
(* out.                                                                    *)
(***************************************************************************)
PrepTypes == {"HandoverRequest", "HandoverRequestAck", "HandoverPreparationFailure"}

\* The preparation has not got past the admission, or was turned down.
OpenTypes == {"HandoverRequest", "HandoverPreparationFailure"}

Serving(c, r) == State(c, r) \in {"CONNECTED_NORMALLY", "HANDOVER_PREPARATION"}

UeAt(c, r) ==
    /\ ue.state = "CONNECTED_NORMALLY" /\ ue.ra = "idle"
    /\ ue.cell = c /\ ue.rnti = r

\* Cell c gave up waiting for the UE and told the coordinator so.
FailedFrom(c) == HandoverFailed \in On(x2, <<c, LteCell>>)

\* The context waits for the UE, or did and is gone.
Waits(c, r) ==
    \/ State(c, r) = "HANDOVER_JOINING"
    \/ State(c, r) = "NONE" /\ FailedFrom(c)

ServingHasUe ==
    \A c \in Cells, r \in Rntis :
        Serving(c, r) => UeAt(c, r) /\ rrcDown = {} /\ rrcUp = {}

Preparation(l, m) ==
    /\ m.type = "HandoverRequest" =>
           l[1] \in Cells /\ State(l[1], m.oldId) = "HANDOVER_PREPARATION"
    /\ m.type = "HandoverRequestAck" =>
           /\ l[1] \in Cells /\ l[2] \in Cells
           /\ State(l[2], m.oldId) = "HANDOVER_PREPARATION"
           /\ Waits(l[1], m.newId)
    /\ m.type = "HandoverPreparationFailure" =>
           l[2] \in Cells /\ State(l[2], m.oldId) = "HANDOVER_PREPARATION"

PreparationsHaveSource ==
    /\ AtMostOneOf(x2, PrepTypes)
    /\ \A l \in Links : \A m \in On(x2, l) : Preparation(l, m)

JoinerIsAlone ==
    \A c \in Cells, r \in Rntis : State(c, r) = "HANDOVER_JOINING" =>
        /\ NoneOf(x2, OpenTypes)
        /\ \A d \in Cells, s \in Rntis :
               /\ State(d, s) = "HANDOVER_JOINING" => d = c /\ s = r
               /\ State(d, s) # "CONNECTED_NORMALLY"

AirFollowsStages ==
    /\ ue.state = "CONNECTED_NORMALLY" => ue.ra = "idle"
    /\ ue.state = "CONNECTED_HANDOVER" =>
           rrcDown = {} /\ rrcUp = {} /\ Waits(ue.cell, ue.rnti)
    /\ \A m \in rrcUp : /\ UeAt(m.cell, m.rnti) /\ rrcDown = {}
                        /\ State(m.cell, m.rnti) = "HANDOVER_JOINING"
    /\ \A m \in rrcDown : /\ UeAt(m.cell, m.rnti) /\ rrcDown = {m}
                          /\ Waits(m.target, m.newRnti)

FailuresEndHandovers ==
    /\ \A c \in Cells : FailedFrom(c) => RadioMayFail /\ NoneOf(x2, OpenTypes)
    /\ \A c \in Cells, r \in Rntis : Timer("removal", c, r) \in timers =>
           FailedFrom(c) /\ State(c, r) # "HANDOVER_PREPARATION"

Stages ==
    /\ ServingHasUe
    /\ PreparationsHaveSource
    /\ JoinerIsAlone
    /\ AirFollowsStages
    /\ FailuresEndHandovers

\* Nobody asks for another handover after one has failed.  This is so when the
\* radio does not fail (FailureNeedsRadio), and when no one but the coordinator
\* asks (HomeFailures).
FailureIsFinal ==
    \A d \in Cells : FailedFrom(d) =>
        /\ NoneOf(x2, {"McHandoverRequest"})
        /\ e2Event = NoEvent
        /\ \A c \in Cells, r \in Rntis :
               State(c, r) = "HANDOVER_JOINING" => ueMan[c][r].queued = NoCell

-----------------------------------------------------------------------------
\* The contexts as a function.
LEMMA ContextsAre ==
    ASSUME TypeOK
    PROVE  /\ ueMan \in [Cells -> [Rntis -> Contexts]]
           /\ \A c \in Cells, r \in Rntis : ueMan[c][r] \in Contexts
  BY DEF TypeOK, ContextsType, UeManagers

\* The state of one context changes, and nothing else of it.
ChangesState(c, r, s) == ueMan' = [ueMan EXCEPT ![c][r] = [@ EXCEPT !.state = s]]

\* The state of a context that a step sets, and of the others.
LEMMA OneState ==
    ASSUME TypeOK, NEW c \in Cells, NEW r \in Rntis, NEW s, ChangesState(c, r, s)
    PROVE  /\ State(c, r)' = s
           /\ ueMan'[c][r].rlc = ueMan[c][r].rlc
           /\ ueMan'[c][r].rlcRequests = ueMan[c][r].rlcRequests
           /\ ueMan'[c][r].sourceId = ueMan[c][r].sourceId
           /\ \A d \in Cells, q \in Rntis :
                 <<d, q>> # <<c, r>> => ueMan'[d][q] = ueMan[d][q]
  <1>0. ueMan \in [Cells -> [Rntis -> Contexts]]
    BY DEF TypeOK, ContextsType, UeManagers
  <1>1. ueMan[c][r] \in Contexts
    BY <1>0
  <1> DEFINE x == [ueMan[c][r] EXCEPT !.state = s]
  <1>2. ueMan' = [ueMan EXCEPT ![c][r] = x]
    BY DEF ChangesState
  <1>3. /\ x.state = s /\ x.rlc = ueMan[c][r].rlc /\ x.sourceId = ueMan[c][r].sourceId
        /\ x.rlcRequests = ueMan[c][r].rlcRequests
    BY <1>1 DEF Contexts
  <1> HIDE DEF x
  <1>4. /\ ueMan'[c][r] = x
        /\ \A d \in Cells, q \in Rntis :
                 <<d, q>> # <<c, r>> => ueMan'[d][q] = ueMan[d][q]
    BY <1>0, <1>2
  <1> QED
    BY <1>3, <1>4 DEF State

\* The links, seen from the lemmas below.
LEMMA LinkTypes ==
    ASSUME TypeOK
    PROVE  /\ x2 \in Networks
           /\ \A l \in Links : \A m \in On(x2, l) : m \in Messages
           /\ \A c \in Cells : <<c, LteCell>> \in Links /\ <<LteCell, c>> \in Links
           /\ \A c \in Cells : c # LteCell
  BY OnType, CellsAssumption DEF TypeOK, MessagesType, Links, Nodes

\* At most one context serves the UE, and while one does nothing is on the air.
LEMMA ServingIsAlone ==
    ASSUME Stages, NEW c \in Cells, NEW r \in Rntis, Serving(c, r)
    PROVE  /\ UeAt(c, r) /\ rrcDown = {} /\ rrcUp = {}
           /\ \A d \in Cells, s \in Rntis : Serving(d, s) => d = c /\ s = r
  BY DEF Stages, ServingHasUe, UeAt

\* The source of every preparation message.
LEMMA PreparationSource ==
    ASSUME TypeOK, Stages, NEW l \in Links, NEW m \in On(x2, l), m.type \in PrepTypes
    PROVE  /\ m.oldId \in Rntis
           /\ \E c \in {l[1], l[2]} :
                 c \in Cells /\ State(c, m.oldId) = "HANDOVER_PREPARATION"
  <1>1. m \in Messages
    BY LinkTypes
  <1>2. m.oldId \in Rntis
    BY <1>1, MessageTypes DEF PrepTypes
  <1>3. Preparation(l, m)
    BY DEF Stages, PreparationsHaveSource
  <1> QED
    BY <1>2, <1>3 DEF Preparation, PrepTypes

\* While a context is connected there is no preparation, and no other waits.
LEMMA ConnectedIsAlone ==
    ASSUME TypeOK, Stages, NEW c \in Cells, NEW r \in Rntis,
           State(c, r) = "CONNECTED_NORMALLY"
    PROVE  /\ NoneOf(x2, PrepTypes)
           /\ \A d \in Cells, s \in Rntis :
                 State(d, s) \notin {"HANDOVER_JOINING", "HANDOVER_PREPARATION"}
  <1>1. Serving(c, r)
    BY DEF Serving
  <1>2. ASSUME NEW d \in Cells, NEW s \in Rntis
        PROVE  State(d, s) \notin {"HANDOVER_JOINING", "HANDOVER_PREPARATION"}
    <2>1. State(d, s) # "HANDOVER_JOINING"
      BY DEF Stages, JoinerIsAlone
    <2>2. State(d, s) # "HANDOVER_PREPARATION"
      BY <1>1, ServingIsAlone DEF Serving
    <2> QED
      BY <2>1, <2>2
  <1>3. NoneOf(x2, PrepTypes)
    BY <1>2, PreparationSource DEF NoneOf
  <1> QED
    BY <1>2, <1>3

\* While the target has not answered, nobody waits and nothing has failed.
LEMMA OpenPreparation ==
    ASSUME TypeOK, Stages, NEW l \in Links, NEW m \in On(x2, l), m.type \in OpenTypes
    PROVE  /\ \A c \in Cells : ~FailedFrom(c)
           /\ \A c \in Cells, r \in Rntis :
                 /\ State(c, r) # "HANDOVER_JOINING"
                 /\ Timer("removal", c, r) \notin timers
           /\ \A c \in Cells, r \in Rntis : State(c, r) # "CONNECTED_NORMALLY"
  <1>1. ~NoneOf(x2, OpenTypes)
    BY DEF NoneOf
  <1>2. \A c \in Cells : ~FailedFrom(c)
    BY <1>1 DEF Stages, FailuresEndHandovers
  <1>3. \A c \in Cells, r \in Rntis : /\ State(c, r) # "HANDOVER_JOINING"
                                      /\ Timer("removal", c, r) \notin timers
    BY <1>1, <1>2 DEF Stages, FailuresEndHandovers, JoinerIsAlone
  <1>4. \A c \in Cells, r \in Rntis : State(c, r) # "CONNECTED_NORMALLY"
    BY ConnectedIsAlone DEF NoneOf, OpenTypes, PrepTypes
  <1> QED
    BY <1>2, <1>3, <1>4

-----------------------------------------------------------------------------
\* A step that changes neither the states of contexts, the air, the removal
\* timers, nor the messages of a preparation and of its failure.
LEMMA StagesKept ==
    ASSUME TypeOK, Stages,
           \A c \in Cells, r \in Rntis : State(c, r)' = State(c, r),
           \A c \in Cells, r \in Rntis :
               Timer("removal", c, r) \in timers' => Timer("removal", c, r) \in timers,
           ue' = ue, rrcDown' = rrcDown, rrcUp' \subseteq rrcUp,
           AtMostOneOf(x2', PrepTypes),
           \A l \in Links : \A m \in On(x2', l) :
               m.type \in PrepTypes \cup {"HandoverFailed"} => m \in On(x2, l),
           \A c \in Cells : FailedFrom(c) => FailedFrom(c)'
    PROVE  Stages'
  <1>0. rrcUp = {} => rrcUp' = {}
    OBVIOUS
  <1>1. \A c \in Cells : FailedFrom(c)' <=> FailedFrom(c)
    BY LinkTypes DEF FailedFrom, HandoverFailed
  <1>2. \A c \in Cells, r \in Rntis : Waits(c, r)' <=> Waits(c, r)
    BY <1>1 DEF Waits
  <1>3. NoneOf(x2, OpenTypes) => NoneOf(x2', OpenTypes)
    BY DEF NoneOf, OpenTypes, PrepTypes
  <1>4. ServingHasUe'
    BY <1>0 DEF Stages, ServingHasUe, Serving, UeAt
  <1>5. PreparationsHaveSource'
    <2> SUFFICES ASSUME NEW l \in Links, NEW m \in On(x2', l), m.type \in PrepTypes
                 PROVE  Preparation(l, m)'
      BY DEF PreparationsHaveSource, Preparation, PrepTypes
    <2>1. m \in On(x2, l)
      OBVIOUS
    <2>2. m \in Messages /\ Preparation(l, m)
      BY <2>1, LinkTypes DEF Stages, PreparationsHaveSource
    <2>3. m.oldId \in Rntis /\ (m.type = "HandoverRequestAck" => m.newId \in Rntis)
      BY <2>2, MessageTypes DEF PrepTypes
    <2> QED
      BY <1>2, <2>2, <2>3 DEF Preparation
  <1>6. JoinerIsAlone'
    BY <1>3 DEF Stages, JoinerIsAlone
  <1>7. AirFollowsStages'
    <2>1. ue.cell \in Cells /\ ue.rnti \in Rntis
      BY DEF TypeOK, TerminalType
    <2>2. /\ \A m \in rrcUp : m.cell \in Cells /\ m.rnti \in Rntis
          /\ \A m \in rrcDown : m.target \in Cells /\ m.newRnti \in Rntis
      BY DEF TypeOK, MessagesType
    <2> QED
      BY <1>0, <1>2, <2>1, <2>2 DEF Stages, AirFollowsStages, UeAt
  <1>8. FailuresEndHandovers'
    BY <1>1, <1>3 DEF Stages, FailuresEndHandovers
  <1> QED
    BY <1>4, <1>5, <1>6, <1>7, <1>8 DEF Stages

\* A message of another kind is sent.
LEMMA StagesSent ==
    ASSUME TypeOK, Stages, NEW a, NEW b, <<a, b>> \in Links, NEW m \in Messages,
           m.type \notin PrepTypes \cup {"HandoverFailed"},
           x2' = Sent(x2, a, b, m), UNCHANGED <<ueMan, timers, radio>>
    PROVE  Stages'
  <1>1. x2 \in Networks /\ \A c \in Cells : <<c, LteCell>> \in Links
    BY LinkTypes
  <1>2. AtMostOneOf(x2', PrepTypes)
    BY <1>1, SentKeepsOne DEF Stages, PreparationsHaveSource
  <1>3. /\ \A l \in Links : On(x2, l) \subseteq On(x2', l)
        /\ \A l \in Links : \A n \in On(x2', l) :
               n.type \in PrepTypes \cup {"HandoverFailed"} => n \in On(x2, l)
    BY <1>1, OnSent
  <1>4. \A c \in Cells : FailedFrom(c) => FailedFrom(c)'
    BY <1>1, <1>3 DEF FailedFrom
  <1>5. \A c \in Cells, r \in Rntis : State(c, r)' = State(c, r)
    BY DEF State
  <1> QED
    BY <1>2, <1>3, <1>4, <1>5, StagesKept DEF radio

\* What is on the links after the message at the head of one is taken.
LEMMA LinkTaken ==
    ASSUME TypeOK, NEW a, NEW b, NEW type, Arrives(x2, a, b, type)
    PROVE  /\ <<a, b>> \in Links /\ Taken(x2, a, b) \in Networks
           /\ Head(x2[<<a, b>>]) \in On(x2, <<a, b>>)
           /\ Head(x2[<<a, b>>]) \in Messages /\ Head(x2[<<a, b>>]).type = type
           /\ \A l \in Links : On(Taken(x2, a, b), l) \subseteq On(x2, l)
           /\ \A l \in Links : \A n \in On(x2, l) :
                 n.type # type => n \in On(Taken(x2, a, b), l)
           /\ \A types : AtMostOneOf(x2, types) =>
                 /\ AtMostOneOf(Taken(x2, a, b), types)
                 /\ type \in types => NoneOf(Taken(x2, a, b), types)
  <1>1. /\ <<a, b>> \in Links /\ x2[<<a, b>>] # <<>>
        /\ Head(x2[<<a, b>>]) \in Messages /\ Head(x2[<<a, b>>]).type = type
    BY LinkTypes, ArrivesType
  <1>2. /\ Taken(x2, a, b) \in Networks
        /\ Head(x2[<<a, b>>]) \in On(x2, <<a, b>>)
        /\ \A l \in Links : On(Taken(x2, a, b), l) \subseteq On(x2, l)
        /\ \A l \in Links : \A n \in On(x2, l) :
             n \in On(Taken(x2, a, b), l) \/ (l = <<a, b>> /\ n = Head(x2[l]))
    BY <1>1, LinkTypes, OnTaken
  <1>3. \A types : AtMostOneOf(x2, types) =>
                 /\ AtMostOneOf(Taken(x2, a, b), types)
                 /\ type \in types => NoneOf(Taken(x2, a, b), types)
    BY <1>1, LinkTypes, TakenKeepsOne
  <1> QED
    BY <1>1, <1>2, <1>3

\* A message of another kind is taken, and perhaps another one sent.
LEMMA StagesTaken ==
    ASSUME TypeOK, Stages, NEW a, NEW b, NEW type, Arrives(x2, a, b, type),
           type \notin PrepTypes \cup {"HandoverFailed"},
           \/ x2' = Taken(x2, a, b)
           \/ \E c, d : \E m \in Messages :
                  /\ <<c, d>> \in Links /\ m.type \notin PrepTypes \cup {"HandoverFailed"}
                  /\ x2' = Sent(Taken(x2, a, b), c, d, m),
           \A c \in Cells, r \in Rntis : State(c, r)' = State(c, r),
           timers' = timers, UNCHANGED radio
    PROVE  Stages'
  <1> DEFINE net == Taken(x2, a, b)
  <1>1. /\ net \in Networks /\ AtMostOneOf(net, PrepTypes)
        /\ \A l \in Links : On(net, l) \subseteq On(x2, l)
        /\ \A l \in Links : \A n \in On(x2, l) : n.type # type => n \in On(net, l)
    BY LinkTaken DEF Stages, PreparationsHaveSource
  <1> HIDE DEF net
  <1>2. /\ AtMostOneOf(x2', PrepTypes)
        /\ \A l \in Links : \A n \in On(x2', l) :
               n.type \in PrepTypes \cup {"HandoverFailed"} => n \in On(x2, l)
        /\ \A l \in Links : On(net, l) \subseteq On(x2', l)
    <2>1. CASE x2' = net
      BY <1>1, <2>1
    <2>2. ASSUME NEW c, NEW d, NEW m \in Messages, <<c, d>> \in Links,
                 m.type \notin PrepTypes \cup {"HandoverFailed"}, x2' = Sent(net, c, d, m)
          PROVE  <1>2
      <3>1. AtMostOneOf(x2', PrepTypes)
        BY <1>1, <2>2, SentKeepsOne
      <3>2. /\ \A l \in Links : On(net, l) \subseteq On(x2', l)
            /\ \A l \in Links : \A n \in On(x2', l) :
                   n \in On(net, l) \/ (l = <<c, d>> /\ n = m)
        BY <1>1, <2>2, OnSent
      <3> QED
        BY <1>1, <2>2, <3>1, <3>2
    <2> QED
      BY <2>1, <2>2 DEF net
  <1>3. \A c \in Cells : FailedFrom(c) => FailedFrom(c)'
    BY <1>1, <1>2, LinkTypes DEF FailedFrom, HandoverFailed
  <1> QED
    BY <1>2, <1>3, StagesKept DEF radio

\* The coordinator's steps leave the stages alone.
LEMMA StagesCoordinator ==
    ASSUME TypeOK, Stages, CoordinatorEffect
    PROVE  Stages'
  <1> USE DEF coordinator, contexts, terminal, air, view, radio
  <1>0. CoordinatorType /\ x2 \in Networks
        /\ \A c \in Cells : <<c, LteCell>> \in Links /\ <<LteCell, c>> \in Links
    BY LinkTypes DEF TypeOK
  <1>1. CASE Quiet
    <2>1. AtMostOneOf(x2', PrepTypes)
      BY <1>1 DEF Quiet, Stages, PreparationsHaveSource
    <2>2. \A c \in Cells : FailedFrom(c) => FailedFrom(c)'
      BY <1>1 DEF Quiet, FailedFrom
    <2> QED
      BY <1>1, <2>1, <2>2, StagesKept DEF Quiet, State
  <1>2. ASSUME NEW t \in Cells, Asked(t) PROVE Stages'
    <2>1. /\ McHandoverRequest(t) \in Messages
          /\ McHandoverRequest(t).type \notin PrepTypes \cup {"HandoverFailed"}
      BY DEF Messages, McHandoverRequest, PrepTypes
    <2>2. <<LteCell, last>> \in Links
      BY <1>0 DEF CoordinatorType
    <2> QED
      BY <1>2, <2>1, <2>2, StagesSent DEF Asked, RequestHandover
  <1>3. CASE SwitchedOff
    <2>1. /\ SwitchConnection(mmRnti) \in Messages
          /\ SwitchConnection(mmRnti).type \notin PrepTypes \cup {"HandoverFailed"}
      BY <1>0 DEF CoordinatorType, Messages, SwitchConnection, PrepTypes
    <2>2. <<LteCell, mmCell>> \in Links
      BY <1>0 DEF CoordinatorType
    <2> QED
      BY <1>3, <2>1, <2>2, StagesSent DEF SwitchedOff
  <1>4. ASSUME NEW c \in Cells, RecvSecondaryCellHandoverCompleted(c) PROVE Stages'
    <2> DEFINE m == Head(x2[<<c, LteCell>>])
    <2>1. Arrives(x2, c, LteCell, "SecondaryCellHandoverCompleted")
      BY <1>4 DEF RecvSecondaryCellHandoverCompleted
    <2>2. m.oldId \in Rntis
      BY <1>0, <2>1, ArrivesType, MessageTypes
    <2>3. /\ UeContextRelease(m.oldId) \in Messages
          /\ UeContextRelease(m.oldId).type \notin PrepTypes \cup {"HandoverFailed"}
      BY <2>2 DEF Messages, UeContextRelease, PrepTypes
    <2>4. "SecondaryCellHandoverCompleted" \notin PrepTypes \cup {"HandoverFailed"}
      BY DEF PrepTypes
    <2>5. /\ x2' = Sent(Taken(x2, c, LteCell), LteCell, mmCell, UeContextRelease(m.oldId))
          /\ <<LteCell, mmCell>> \in Links
          /\ UNCHANGED <<ueMan, timers, radio>>
      BY <1>0, <1>4 DEF RecvSecondaryCellHandoverCompleted, CoordinatorType
    <2>6. \A d \in Cells, r \in Rntis : State(d, r)' = State(d, r)
      BY <2>5 DEF State
    <2> HIDE DEF m
    <2> QED
      BY <2>1, <2>3, <2>4, <2>5, <2>6, StagesTaken
  <1> QED
    BY <1>1, <1>2, <1>3, <1>4 DEF CoordinatorEffect
-----------------------------------------------------------------------------
\* The links as the request for a handover left them.
LEMMA LinkRequested ==
    ASSUME TypeOK, NEW c \in Cells, NEW net, MayPrepare(c, net)
    PROVE  /\ net \in Networks
           /\ \A l \in Links : On(net, l) \subseteq On(x2, l)
           /\ \A l \in Links : \A n \in On(x2, l) :
                 n.type # "McHandoverRequest" => n \in On(net, l)
           /\ \A types : AtMostOneOf(x2, types) => AtMostOneOf(net, types)
           /\ FailureIsFinal => \A d \in Cells : ~FailedFrom(d)
  <1>1. CASE Arrives(x2, LteCell, c, "McHandoverRequest") /\ net = Taken(x2, LteCell, c)
    <2>1. /\ net \in Networks
          /\ \A l \in Links : On(net, l) \subseteq On(x2, l)
          /\ \A l \in Links : \A n \in On(x2, l) :
                n.type # "McHandoverRequest" => n \in On(net, l)
          /\ \A types : AtMostOneOf(x2, types) => AtMostOneOf(net, types)
          /\ <<LteCell, c>> \in Links
          /\ Head(x2[<<LteCell, c>>]) \in On(x2, <<LteCell, c>>)
          /\ Head(x2[<<LteCell, c>>]).type = "McHandoverRequest"
      BY <1>1, LinkTaken
    <2>2. ~NoneOf(x2, {"McHandoverRequest"})
      BY <2>1 DEF NoneOf
    <2> QED
      BY <2>1, <2>2 DEF FailureIsFinal
  <1>2. CASE e2Event # NoEvent /\ net = x2
    BY <1>2, LinkTypes DEF FailureIsFinal
  <1> QED
    BY <1>1, <1>2 DEF MayPrepare

\* The serving context asks the target: it served the UE alone, and nothing
\* was being prepared.
LEMMA StagesPrepared ==
    ASSUME TypeOK, Stages, FailureIsFinal, NEW c \in Cells, NEW r \in Rntis,
           NEW t \in Cells, NEW net, Prepared(c, r, t, net)
    PROVE  Stages'
  <1> USE DEF radio
  <1> DEFINE m == HandoverRequest(r, ueMan[c][r].rlcRequests)
  <1>1. /\ net \in Networks
        /\ \A l \in Links : On(net, l) \subseteq On(x2, l)
        /\ \A d \in Cells : ~FailedFrom(d)
    BY LinkRequested DEF Prepared
  <1>2. /\ NoneOf(x2, PrepTypes)
        /\ \A d \in Cells, s \in Rntis :
                 State(d, s) \notin {"HANDOVER_JOINING", "HANDOVER_PREPARATION"}
        /\ Serving(c, r)
    BY ConnectedIsAlone DEF Prepared, Serving
  <1>3. UeAt(c, r) /\ rrcDown = {} /\ rrcUp = {}
    BY <1>2, ServingIsAlone
  <1>4. m \in Messages /\ m.type = "HandoverRequest" /\ m.oldId = r
    <2>1. ueMan[c][r] \in Contexts
      BY ContextsAre
    <2>2. ueMan[c][r].rlcRequests \in SUBSET Drbs
      BY <2>1 DEF Contexts
    <2>3. m \in Messages
      BY <2>2 DEF Messages
    <2> QED
      BY <2>3 DEF HandoverRequest
  <1>5. /\ x2' = Sent(net, c, t, m) /\ <<c, t>> \in Links
        /\ UNCHANGED <<timers, ue, rrcDown, rrcUp>>
    BY DEF Prepared
  <1>6. NoneOf(net, PrepTypes)
    BY <1>1, <1>2 DEF NoneOf
  <1> HIDE DEF m
  <1>7. /\ AtMostOneOf(x2', PrepTypes)
        /\ \A l \in Links : \A n \in On(x2', l) :
               n \in On(x2, l) \/ (l = <<c, t>> /\ n = m)
    BY <1>1, <1>4, <1>5, <1>6, OnSent, SentKeepsOne
  <1>8. /\ State(c, r)' = "HANDOVER_PREPARATION"
        /\ \A d \in Cells, s \in Rntis : <<d, s>> # <<c, r>> => State(d, s)' = State(d, s)
    <2> DEFINE x == [ueMan[c][r] EXCEPT !.state = "HANDOVER_PREPARATION",
                                        !.target = t, !.rlcRequests = {}]
    <2>1. ueMan[c][r] \in Contexts /\ x.state = "HANDOVER_PREPARATION"
      BY ContextType DEF TypeOK, ContextsType, Contexts
    <2>2. ueMan' = [ueMan EXCEPT ![c][r] = x]
      BY DEF Prepared
    <2> HIDE DEF x
    <2> QED
      BY <2>1, <2>2, ContextsAre DEF State
  <1>9. \A d \in Cells : ~FailedFrom(d)'
    BY <1>1, <1>4, <1>7, LinkTypes DEF FailedFrom, HandoverFailed
  <1>10. ServingHasUe'
    BY <1>2, <1>3, <1>5, <1>8, ServingIsAlone DEF ServingHasUe, Serving, UeAt
  <1>11. PreparationsHaveSource'
    <2>1. ASSUME NEW l \in Links, NEW n \in On(x2', l), n.type \in PrepTypes
          PROVE  l = <<c, t>> /\ n = m
      BY <1>2, <1>7, <2>1 DEF NoneOf
    <2> QED
      BY <1>4, <1>7, <1>8, <2>1 DEF PreparationsHaveSource, Preparation, PrepTypes
  <1>12. JoinerIsAlone'
    BY <1>2, <1>8 DEF JoinerIsAlone
  <1>13. AirFollowsStages'
    BY <1>3, <1>5 DEF AirFollowsStages, UeAt
  <1>14. FailuresEndHandovers'
    BY <1>1, <1>5, <1>9 DEF FailuresEndHandovers, Stages
  <1> QED
    BY <1>10, <1>11, <1>12, <1>13, <1>14 DEF Stages

\* A target kept for later, and news for a context that serves or leaves,
\* change no state.
LEMMA StagesDeferred ==
    ASSUME TypeOK, Stages, NEW c \in Cells, NEW r \in Rntis, NEW t \in Cells, NEW net,
           Deferred(c, r, t, net)
    PROVE  Stages'
  <1>1. /\ \A l \in Links : On(net, l) \subseteq On(x2, l)
        /\ \A l \in Links : \A n \in On(x2, l) :
                 n.type # "McHandoverRequest" => n \in On(net, l)
        /\ AtMostOneOf(net, PrepTypes)
        /\ x2' = net
    BY LinkRequested DEF Deferred, Stages, PreparationsHaveSource
  <1>2. \A d \in Cells : FailedFrom(d) => FailedFrom(d)'
    BY <1>1, LinkTypes DEF FailedFrom, HandoverFailed
  <1>3. \A d \in Cells, s \in Rntis : State(d, s)' = State(d, s)
    <2> DEFINE x == [ueMan[c][r] EXCEPT !.queued = t]
    <2>1. ueMan[c][r] \in Contexts /\ x.state = ueMan[c][r].state
      BY ContextType DEF TypeOK, ContextsType, Contexts
    <2>2. ueMan' = [ueMan EXCEPT ![c][r] = x]
      BY DEF Deferred
    <2> HIDE DEF x
    <2> QED
      BY <2>1, <2>2, ContextsAre DEF State
  <1>4. UNCHANGED <<timers, ue, rrcDown, rrcUp>>
    BY DEF Deferred, radio
  <1>5. \A l \in Links : \A n \in On(x2', l) :
               n.type \in PrepTypes \cup {"HandoverFailed"} => n \in On(x2, l)
    BY <1>1
  <1> QED
    BY <1>1, <1>2, <1>3, <1>4, <1>5, StagesKept

\* Forwarding data changes no stage.
LEMMA StagesForwarding ==
    ASSUME TypeOK, Stages, NEW c \in Cells, NEW r \in Rntis, Forwarding(c, r)
    PROVE  Stages'
  <1>1. \A d \in Cells, s \in Rntis : State(d, s)' = State(d, s)
    <2> DEFINE x == [ueMan[c][r] EXCEPT !.target = LteCell]
    <2>1. ueMan[c][r] \in Contexts /\ x.state = ueMan[c][r].state
      BY ContextType DEF TypeOK, ContextsType, Contexts
    <2>2. ueMan' = [ueMan EXCEPT ![c][r] = x]
      BY DEF Forwarding
    <2> HIDE DEF x
    <2> QED
      BY <2>1, <2>2, ContextsAre DEF State
  <1>2. /\ Arrives(x2, LteCell, c, "SwitchConnection")
        /\ x2' = Taken(x2, LteCell, c)
        /\ timers' = timers /\ UNCHANGED radio
    BY DEF Forwarding
  <1>3. "SwitchConnection" \notin PrepTypes \cup {"HandoverFailed"}
    BY DEF PrepTypes
  <1> QED
    BY <1>1, <1>2, <1>3, StagesTaken

\* The target answers the only request: there is no other preparation.
LEMMA LinkAnswered ==
    ASSUME TypeOK, Stages, NEW a \in Cells, NEW c \in Cells,
           Arrives(x2, a, c, "HandoverRequest"),
           NEW m \in Messages, m.type \notin {"HandoverFailed"},
           x2' = Sent(Taken(x2, a, c), c, a, m)
    PROVE  /\ <<c, a>> \in Links
           /\ AtMostOneOf(x2', PrepTypes)
           /\ \A l \in Links : \A n \in On(x2', l) :
                 /\ n \in On(x2, l) \/ (l = <<c, a>> /\ n = m)
                 /\ n.type \in PrepTypes => l = <<c, a>> /\ n = m
           /\ m \in On(x2', <<c, a>>)
           /\ \A d \in Cells : ~FailedFrom(d)'
           /\ Head(x2[<<a, c>>]).oldId \in Rntis
           /\ State(a, Head(x2[<<a, c>>]).oldId) = "HANDOVER_PREPARATION"
           /\ \A d \in Cells : ~FailedFrom(d)
           /\ \A d \in Cells, s \in Rntis :
                 /\ State(d, s) \notin {"HANDOVER_JOINING", "CONNECTED_NORMALLY"}
                 /\ Timer("removal", d, s) \notin timers
  <1> DEFINE net == Taken(x2, a, c)
             req == Head(x2[<<a, c>>])
  <1>1. /\ net \in Networks /\ NoneOf(net, PrepTypes)
        /\ \A l \in Links : On(net, l) \subseteq On(x2, l)
        /\ <<a, c>> \in Links /\ <<c, a>> \in Links
        /\ req \in On(x2, <<a, c>>) /\ req \in Messages /\ req.type = "HandoverRequest"
    BY LinkTaken DEF Stages, PreparationsHaveSource, PrepTypes, Links
  <1> HIDE DEF net, req
  <1>2. x2' = Sent(net, c, a, m)
    BY DEF net
  <1>3. /\ AtMostOneOf(x2', PrepTypes) /\ m \in On(x2', <<c, a>>)
        /\ \A l \in Links : \A n \in On(x2', l) :
               n \in On(net, l) \/ (l = <<c, a>> /\ n = m)
    BY <1>1, <1>2, OnSent, SentKeepsOne
  <1>4. \A l \in Links : \A n \in On(x2', l) :
                 /\ n \in On(x2, l) \/ (l = <<c, a>> /\ n = m)
                 /\ n.type \in PrepTypes => l = <<c, a>> /\ n = m
    BY <1>1, <1>3 DEF NoneOf
  <1>5. /\ \A d \in Cells : ~FailedFrom(d)
        /\ \A d \in Cells, s \in Rntis :
                 /\ State(d, s) \notin {"HANDOVER_JOINING", "CONNECTED_NORMALLY"}
                 /\ Timer("removal", d, s) \notin timers
    BY <1>1, OpenPreparation DEF OpenTypes
  <1>6. \A d \in Cells : ~FailedFrom(d)'
    BY <1>4, <1>5, LinkTypes DEF FailedFrom, HandoverFailed
  <1>7. req.oldId \in Rntis /\ State(a, req.oldId) = "HANDOVER_PREPARATION"
    BY <1>1, MessageTypes DEF Stages, PreparationsHaveSource, Preparation
  <1> QED
    BY <1>1, <1>3, <1>4, <1>5, <1>6, <1>7 DEF req

\* A request that is refused leaves the UE where it is.
LEMMA StagesRejected ==
    ASSUME TypeOK, Stages, NEW a \in Cells, NEW c \in Cells, Rejected(a, c)
    PROVE  Stages'
  <1> USE DEF radio, contexts
  <1> DEFINE old == Head(x2[<<a, c>>]).oldId
             m == HandoverPreparationFailure(old)
  <1>1. /\ Arrives(x2, a, c, "HandoverRequest")
        /\ x2' = Sent(Taken(x2, a, c), c, a, m)
        /\ UNCHANGED <<ueMan, timers, ue, rrcDown, rrcUp>>
    BY DEF Rejected
  <1>2. old \in Rntis
    BY <1>1, LinkTaken, MessageTypes
  <1>3. m \in Messages /\ m.type = "HandoverPreparationFailure" /\ m.oldId = old
    BY <1>2 DEF Messages, HandoverPreparationFailure
  <1> HIDE DEF old, m
  <1>4. /\ AtMostOneOf(x2', PrepTypes)
        /\ \A l \in Links : \A n \in On(x2', l) :
                 n.type \in PrepTypes => l = <<c, a>> /\ n = m
        /\ \A d \in Cells : ~FailedFrom(d)'
        /\ State(a, old) = "HANDOVER_PREPARATION"
        /\ \A d \in Cells, s \in Rntis :
                 /\ State(d, s) \notin {"HANDOVER_JOINING", "CONNECTED_NORMALLY"}
                 /\ Timer("removal", d, s) \notin timers
    BY <1>1, <1>3, LinkAnswered DEF old
  <1>5. \A d \in Cells, s \in Rntis : State(d, s)' = State(d, s)
    BY <1>1 DEF State
  <1>6. UeAt(a, old) /\ rrcDown = {} /\ rrcUp = {}
    BY <1>2, <1>4, ServingIsAlone DEF Serving
  <1>7. ServingHasUe'
    BY <1>1, <1>5 DEF Stages, ServingHasUe, Serving, UeAt
  <1>8. PreparationsHaveSource'
    BY <1>3, <1>4, <1>5, <1>2 DEF PreparationsHaveSource, Preparation, PrepTypes
  <1>9. JoinerIsAlone'
    BY <1>4, <1>5 DEF JoinerIsAlone
  <1>10. AirFollowsStages'
    BY <1>1, <1>6 DEF AirFollowsStages, UeAt
  <1>11. FailuresEndHandovers'
    BY <1>1, <1>4 DEF FailuresEndHandovers
  <1> QED
    BY <1>7, <1>8, <1>9, <1>10, <1>11 DEF Stages

\* A request that is admitted makes a context that waits for the UE.
LEMMA StagesAdmitted ==
    ASSUME TypeOK, Stages, NEW a \in Cells, NEW c \in Cells, NEW r \in Rntis,
           Admitted(a, c, r)
    PROVE  Stages'
  <1> USE DEF radio
  <1> DEFINE old == Head(x2[<<a, c>>]).oldId
             m == HandoverRequestAck(old, r)
             x == JoiningContext(a, Head(x2[<<a, c>>]))
  <1>1. /\ Arrives(x2, a, c, "HandoverRequest")
        /\ x2' = Sent(Taken(x2, a, c), c, a, m)
        /\ ueMan' = [ueMan EXCEPT ![c][r] = x]
        /\ timers' = timers \cup {Timer("joining", c, r)}
        /\ UNCHANGED <<ue, rrcDown, rrcUp>>
        /\ State(c, r) = "NONE"
    <2>1. NoRnti \notin Rntis
      BY DEF NoRnti, Rntis
    <2> QED
      BY <2>1 DEF Admitted, Known, State
  <1>2. old \in Rntis
    BY <1>1, LinkTaken, MessageTypes
  <1>3. /\ m \in Messages /\ m.type = "HandoverRequestAck" /\ m.oldId = old /\ m.newId = r
        /\ x.state = "HANDOVER_JOINING"
    BY <1>2 DEF Messages, HandoverRequestAck, JoiningContext
  <1> HIDE DEF old, m, x
  <1>4. /\ AtMostOneOf(x2', PrepTypes)
        /\ \A l \in Links : \A n \in On(x2', l) :
                 n.type \in PrepTypes => l = <<c, a>> /\ n = m
        /\ \A d \in Cells : ~FailedFrom(d)'
        /\ \A d \in Cells : ~FailedFrom(d)
        /\ State(a, old) = "HANDOVER_PREPARATION"
        /\ \A d \in Cells, s \in Rntis :
                 /\ State(d, s) \notin {"HANDOVER_JOINING", "CONNECTED_NORMALLY"}
                 /\ Timer("removal", d, s) \notin timers
    BY <1>1, <1>3, LinkAnswered DEF old
  <1>5. /\ State(c, r)' = "HANDOVER_JOINING"
        /\ \A d \in Cells, s \in Rntis : <<d, s>> # <<c, r>> => State(d, s)' = State(d, s)
    BY <1>1, <1>3, ContextsAre DEF State
  <1>6. UeAt(a, old) /\ rrcDown = {} /\ rrcUp = {}
    BY <1>2, <1>4, ServingIsAlone DEF Serving
  <1>7. ServingHasUe'
    BY <1>1, <1>5 DEF Stages, ServingHasUe, Serving, UeAt
  <1>8. PreparationsHaveSource'
    <2>0. a # c
      BY <1>1, LinkTaken DEF Links
    <2>1. ueMan'[a][old].state = "HANDOVER_PREPARATION"
      BY <1>2, <1>4, <1>5, <2>0 DEF State
    <2>2. Waits(c, r)'
      BY <1>5 DEF Waits
    <2>3. ASSUME NEW n, n = m PROVE State(a, n.oldId)' = "HANDOVER_PREPARATION"
      BY <1>3, <2>1, <2>3 DEF State
    <2> QED
      BY <1>3, <1>4, <2>2, <2>3 DEF PreparationsHaveSource, Preparation, PrepTypes
  <1>9. JoinerIsAlone'
    <2>1. NoneOf(x2', OpenTypes)
      BY <1>3, <1>4 DEF NoneOf, OpenTypes, PrepTypes
    <2> QED
      BY <1>4, <1>5, <2>1 DEF JoinerIsAlone
  <1>10. AirFollowsStages'
    BY <1>1, <1>6 DEF AirFollowsStages, UeAt
  <1>11. FailuresEndHandovers'
    BY <1>1, <1>4 DEF FailuresEndHandovers, Timer
  <1> QED
    BY <1>7, <1>8, <1>9, <1>10, <1>11 DEF Stages

\* The source takes the answer to the only preparation from its link: none is
\* left, and the source still waits for it.
LEMMA LinkEmptied ==
    ASSUME TypeOK, Stages, NEW a \in Cells, NEW c \in Cells,
           NEW type \in {"HandoverRequestAck", "HandoverPreparationFailure"},
           Arrives(x2, a, c, type), x2' = Taken(x2, a, c), NEW m, m = Head(x2[<<a, c>>])
    PROVE  /\ a # c /\ m \in On(x2, <<a, c>>) /\ m \in Messages /\ m.type = type
           /\ m.oldId \in Rntis /\ State(c, m.oldId) = "HANDOVER_PREPARATION"
           /\ AtMostOneOf(x2', PrepTypes) /\ NoneOf(x2', PrepTypes)
           /\ \A d \in Cells : FailedFrom(d)' <=> FailedFrom(d)
           /\ UeAt(c, m.oldId) /\ rrcDown = {} /\ rrcUp = {}
           /\ \A d \in Cells, s \in Rntis : Serving(d, s) => d = c /\ s = m.oldId
  <1>1. /\ <<a, c>> \in Links /\ m \in On(x2, <<a, c>>) /\ m \in Messages /\ m.type = type
        /\ AtMostOneOf(x2', PrepTypes) /\ NoneOf(x2', PrepTypes)
        /\ \A l \in Links : On(x2', l) \subseteq On(x2, l)
        /\ \A l \in Links : \A n \in On(x2, l) : n.type # type => n \in On(x2', l)
    BY LinkTaken DEF Stages, PreparationsHaveSource, PrepTypes
  <1>2. m.oldId \in Rntis /\ State(c, m.oldId) = "HANDOVER_PREPARATION"
    BY <1>1, MessageTypes DEF Stages, PreparationsHaveSource, Preparation
  <1>3. \A d \in Cells : FailedFrom(d)' <=> FailedFrom(d)
    BY <1>1, LinkTypes DEF FailedFrom, HandoverFailed
  <1>4. /\ UeAt(c, m.oldId) /\ rrcDown = {} /\ rrcUp = {}
        /\ \A d \in Cells, s \in Rntis : Serving(d, s) => d = c /\ s = m.oldId
    BY <1>2, ServingIsAlone DEF Serving
  <1> QED
    BY <1>1, <1>2, <1>3, <1>4 DEF Links

\* The source lets the UE go, to a context that waits for it.
LEMMA StagesLeft ==
    ASSUME TypeOK, Stages, NEW a \in Cells, NEW c \in Cells, NEW r \in Rntis,
           NEW m \in Messages, Left(a, c, r, m)
    PROVE  Stages'
  <1>1. /\ Arrives(x2, a, c, "HandoverRequestAck") /\ x2' = Taken(x2, a, c)
        /\ m = Head(x2[<<a, c>>]) /\ r = m.oldId
        /\ rrcDown' = rrcDown \cup
               {[cell |-> c, rnti |-> r, target |-> a, newRnti |-> m.newId]}
        /\ timers' = timers \cup {Timer("leaving", c, r)}
        /\ ue' = ue /\ rrcUp' = rrcUp
    BY DEF Left
  <1>2. /\ a # c /\ m \in On(x2, <<a, c>>) /\ m.type = "HandoverRequestAck"
        /\ State(c, r) = "HANDOVER_PREPARATION"
        /\ AtMostOneOf(x2', PrepTypes) /\ NoneOf(x2', PrepTypes)
        /\ \A d \in Cells : FailedFrom(d)' <=> FailedFrom(d)
        /\ UeAt(c, r) /\ rrcDown = {} /\ rrcUp = {}
        /\ \A d \in Cells, s \in Rntis : Serving(d, s) => d = c /\ s = r
    BY <1>1, LinkEmptied
  <1>3. m.newId \in Rntis /\ Waits(a, m.newId)
    <2>1. <<a, c>> \in Links
      BY <1>1, LinkTaken
    <2>2. Preparation(<<a, c>>, m)
      BY <1>2, <2>1 DEF Stages, PreparationsHaveSource
    <2> QED
      BY <1>2, <2>2, MessageTypes DEF Preparation
  <1>4. /\ State(c, r)' = "HANDOVER_LEAVING"
        /\ \A d \in Cells, s \in Rntis : <<d, s>> # <<c, r>> => State(d, s)' = State(d, s)
    <2>1. ChangesState(c, r, "HANDOVER_LEAVING")
      BY DEF Left, ChangesState
    <2> QED
      BY <2>1, OneState DEF State
  <1>5. ServingHasUe'
    BY <1>2, <1>4 DEF ServingHasUe, Serving
  <1>6. PreparationsHaveSource'
    BY <1>2 DEF PreparationsHaveSource, Preparation, PrepTypes, NoneOf
  <1>7. JoinerIsAlone'
    <2>1. NoneOf(x2', OpenTypes)
      BY <1>2 DEF NoneOf, OpenTypes, PrepTypes
    <2> QED
      BY <1>4, <2>1 DEF Stages, JoinerIsAlone
  <1>8. AirFollowsStages'
    <2>1. Waits(a, m.newId)'
      BY <1>2, <1>3, <1>4 DEF Waits
    <2>2. UeAt(c, r)' /\ rrcUp' = {}
          /\ rrcDown' = {[cell |-> c, rnti |-> r, target |-> a, newRnti |-> m.newId]}
      BY <1>1, <1>2 DEF UeAt
    <2> QED
      BY <2>1, <2>2 DEF AirFollowsStages, UeAt
  <1>9. FailuresEndHandovers'
    <2>1. NoneOf(x2', OpenTypes)
      BY <1>2 DEF NoneOf, OpenTypes, PrepTypes
    <2>2. \A d \in Cells, s \in Rntis :
              Timer("removal", d, s) \in timers' => Timer("removal", d, s) \in timers
      BY <1>1 DEF Timer
    <2> QED
      BY <1>2, <1>4, <2>1, <2>2 DEF Stages, FailuresEndHandovers
  <1> QED
    BY <1>5, <1>6, <1>7, <1>8, <1>9 DEF Stages

\* The source takes the UE back.
LEMMA StagesResumed ==
    ASSUME TypeOK, Stages, NEW a \in Cells, NEW c \in Cells, NEW r \in Rntis,
           Resumed(a, c, r)
    PROVE  Stages'
  <1>0. PICK m : m = Head(x2[<<a, c>>])
    OBVIOUS
  <1>1. /\ Arrives(x2, a, c, "HandoverPreparationFailure") /\ x2' = Taken(x2, a, c)
        /\ r = m.oldId
        /\ UNCHANGED <<timers, ue, rrcDown, rrcUp>>
    BY <1>0 DEF Resumed, radio
  <1>2. /\ a # c /\ m \in On(x2, <<a, c>>) /\ m.type = "HandoverPreparationFailure"
        /\ State(c, r) = "HANDOVER_PREPARATION"
        /\ AtMostOneOf(x2', PrepTypes) /\ NoneOf(x2', PrepTypes)
        /\ \A d \in Cells : FailedFrom(d)' <=> FailedFrom(d)
        /\ UeAt(c, r) /\ rrcDown = {} /\ rrcUp = {}
        /\ \A d \in Cells, s \in Rntis : Serving(d, s) => d = c /\ s = r
    BY <1>0, <1>1, LinkEmptied
  <1>3. /\ \A d \in Cells : ~FailedFrom(d)
        /\ \A d \in Cells, s \in Rntis : /\ State(d, s) # "HANDOVER_JOINING"
                                         /\ Timer("removal", d, s) \notin timers
    <2>1. <<a, c>> \in Links
      BY <1>1, LinkTaken
    <2> QED
      BY <1>2, <2>1, OpenPreparation DEF OpenTypes
  <1>4. /\ State(c, r)' = "CONNECTED_NORMALLY"
        /\ \A d \in Cells, s \in Rntis : <<d, s>> # <<c, r>> => State(d, s)' = State(d, s)
    <2>1. ChangesState(c, r, "CONNECTED_NORMALLY")
      BY <1>2 DEF Resumed, ChangesState
    <2> QED
      BY <2>1, OneState DEF State
  <1>5. ServingHasUe'
    BY <1>1, <1>2, <1>4 DEF ServingHasUe, Serving, UeAt
  <1>6. PreparationsHaveSource'
    BY <1>2 DEF PreparationsHaveSource, Preparation, PrepTypes, NoneOf
  <1>7. JoinerIsAlone'
    BY <1>3, <1>4 DEF JoinerIsAlone
  <1>8. AirFollowsStages'
    BY <1>1, <1>2 DEF AirFollowsStages, UeAt
  <1>9. FailuresEndHandovers'
    BY <1>1, <1>2, <1>3 DEF FailuresEndHandovers
  <1> QED
    BY <1>5, <1>6, <1>7, <1>8, <1>9 DEF Stages

\* A context is removed that is neither being prepared nor expecting the UE.
LEMMA StagesWithout ==
    ASSUME TypeOK, Stages, NEW c \in Cells, NEW r \in Rntis, RemoveUe(c, r),
           State(c, r) # "HANDOVER_PREPARATION",
           State(c, r) = "HANDOVER_JOINING" => FailedFrom(c),
           timers' \subseteq timers, ue' = ue,
           AtMostOneOf(x2', PrepTypes),
           \A l \in Links : \A m \in On(x2', l) :
               m.type \in PrepTypes \cup {"HandoverFailed"} => m \in On(x2, l),
           \A d \in Cells : FailedFrom(d) => FailedFrom(d)'
    PROVE  Stages'
  <1>1. /\ rrcDown' = {m \in rrcDown : <<m.cell, m.rnti>> # <<c, r>>}
        /\ rrcUp' = {m \in rrcUp : <<m.cell, m.rnti>> # <<c, r>>}
    BY DEF RemoveUe
  <1>2. /\ State(c, r)' = "NONE"
        /\ \A d \in Cells, s \in Rntis : <<d, s>> # <<c, r>> => State(d, s)' = State(d, s)
    BY ContextsAre DEF RemoveUe, State, NoContext
  <1>3. \A d \in Cells : FailedFrom(d)' <=> FailedFrom(d)
    BY LinkTypes DEF FailedFrom, HandoverFailed
  <1>4. \A d \in Cells, s \in Rntis : Waits(d, s) => Waits(d, s)'
    BY <1>2, <1>3 DEF Waits
  <1>5. NoneOf(x2, OpenTypes) => NoneOf(x2', OpenTypes)
    BY DEF NoneOf, OpenTypes, PrepTypes
  <1>6. \A d \in Cells, s \in Rntis : State(d, s)' # "NONE" => State(d, s)' = State(d, s)
    BY <1>2
  <1>7. ServingHasUe'
    BY <1>1, <1>6 DEF Stages, ServingHasUe, Serving, UeAt
  <1>8. PreparationsHaveSource'
    <2> SUFFICES ASSUME NEW l \in Links, NEW m \in On(x2', l), m.type \in PrepTypes
                 PROVE  Preparation(l, m)'
      BY DEF PreparationsHaveSource, Preparation, PrepTypes
    <2>1. m \in On(x2, l)
      OBVIOUS
    <2>2. m \in Messages /\ Preparation(l, m)
      BY <2>1, LinkTypes DEF Stages, PreparationsHaveSource
    <2>3. m.oldId \in Rntis /\ (m.type = "HandoverRequestAck" => m.newId \in Rntis)
      BY <2>2, MessageTypes DEF PrepTypes
    <2>4. \A d \in Cells, s \in Rntis :
             State(d, s) = "HANDOVER_PREPARATION" => State(d, s)' = "HANDOVER_PREPARATION"
      BY <1>2
    <2> QED
      BY <1>4, <2>2, <2>3, <2>4 DEF Preparation
  <1>9. JoinerIsAlone'
    BY <1>5, <1>6 DEF Stages, JoinerIsAlone
  <1>10. AirFollowsStages'
    <2>1. ue.cell \in Cells /\ ue.rnti \in Rntis
      BY DEF TypeOK, TerminalType
    <2>2. /\ \A m \in rrcUp : m.cell \in Cells /\ m.rnti \in Rntis
          /\ \A m \in rrcDown : m.target \in Cells /\ m.newRnti \in Rntis
      BY DEF TypeOK, MessagesType
    <2>3. /\ \A m \in rrcUp' : /\ m \in rrcUp /\ rrcDown' = {} /\ UeAt(m.cell, m.rnti)'
                               /\ State(m.cell, m.rnti)' = "HANDOVER_JOINING"
      <3> SUFFICES ASSUME NEW m \in rrcUp, <<m.cell, m.rnti>> # <<c, r>>
                   PROVE  /\ rrcDown = {} /\ UeAt(m.cell, m.rnti)'
                          /\ State(m.cell, m.rnti)' = "HANDOVER_JOINING"
        BY <1>1
      <3> QED
        BY <1>2, <2>2 DEF Stages, AirFollowsStages, UeAt
    <2>4. \A m \in rrcDown' : /\ UeAt(m.cell, m.rnti)' /\ rrcDown' = {m}
                              /\ Waits(m.target, m.newRnti)'
      <3> SUFFICES ASSUME NEW m \in rrcDown, m \in rrcDown'
                   PROVE  /\ UeAt(m.cell, m.rnti)' /\ rrcDown' = {m}
                          /\ Waits(m.target, m.newRnti)'
        BY <1>1
      <3>1. UeAt(m.cell, m.rnti) /\ rrcDown = {m} /\ Waits(m.target, m.newRnti)
        BY DEF Stages, AirFollowsStages
      <3>2. rrcDown' = {m}
        BY <1>1, <3>1
      <3> QED
        BY <1>4, <2>2, <3>1, <3>2 DEF UeAt
    <2>5. /\ ue'.state = "CONNECTED_NORMALLY" => ue'.ra = "idle"
          /\ ue'.state = "CONNECTED_HANDOVER" =>
                rrcDown' = {} /\ rrcUp' = {} /\ Waits(ue.cell, ue.rnti)'
      BY <1>1, <1>4, <2>1 DEF Stages, AirFollowsStages
    <2> QED
      BY <2>3, <2>4, <2>5 DEF AirFollowsStages
  <1>11. FailuresEndHandovers'
    BY <1>2, <1>3, <1>5 DEF Stages, FailuresEndHandovers
  <1> QED
    BY <1>7, <1>8, <1>9, <1>10, <1>11 DEF Stages

\* A context that is released was left by the UE.
LEMMA StagesReleased ==
    ASSUME TypeOK, Stages, NEW c \in Cells, NEW r \in Rntis, Released(c, r)
    PROVE  Stages'
  <1>1. /\ \A l \in Links : On(x2', l) \subseteq On(x2, l)
        /\ \A l \in Links : \A n \in On(x2, l) :
               n.type # "UeContextRelease" => n \in On(x2', l)
        /\ AtMostOneOf(x2', PrepTypes)
    BY LinkTaken DEF Released, Stages, PreparationsHaveSource
  <1>2. \A d \in Cells : FailedFrom(d) => FailedFrom(d)'
    BY <1>1, LinkTypes DEF FailedFrom, HandoverFailed
  <1>3. /\ State(c, r) = "HANDOVER_LEAVING" /\ RemoveUe(c, r)
        /\ timers' \subseteq timers /\ ue' = ue
    BY DEF Released
  <1>4. \A l \in Links : \A m \in On(x2', l) :
             m.type \in PrepTypes \cup {"HandoverFailed"} => m \in On(x2, l)
    BY <1>1
  <1> QED
    BY <1>1, <1>2, <1>3, <1>4, StagesWithout

\* A context that a timer removes is one that was left, or whose UE did not come.
LEMMA StagesRemoved ==
    ASSUME TypeOK, Stages, NEW c \in Cells, NEW r \in Rntis, Removed(c, r)
    PROVE  Stages'
  <1>1. RemoveUe(c, r) /\ timers' \subseteq timers /\ ue' = ue /\ x2' = x2
    BY DEF Removed
  <1>2. /\ State(c, r) # "HANDOVER_PREPARATION"
        /\ State(c, r) = "HANDOVER_JOINING" => FailedFrom(c)
    BY DEF Removed, Stages, FailuresEndHandovers
  <1>3. /\ AtMostOneOf(x2', PrepTypes)
        /\ \A d \in Cells : FailedFrom(d) => FailedFrom(d)'
        /\ \A l \in Links : \A m \in On(x2', l) : m \in On(x2, l)
    BY <1>1 DEF Stages, PreparationsHaveSource, FailedFrom
  <1> QED
    BY <1>1, <1>2, <1>3, StagesWithout
-----------------------------------------------------------------------------
\* The UE has reached the context that waits for it: it is the only one, and
\* nothing is being prepared.
LEMMA Arrival ==
    ASSUME TypeOK, Stages, NEW c \in Cells, NEW r \in Rntis,
           [cell |-> c, rnti |-> r] \in rrcUp
    PROVE  /\ State(c, r) = "HANDOVER_JOINING" /\ UeAt(c, r) /\ rrcDown = {}
           /\ rrcUp \ {[cell |-> c, rnti |-> r]} = {}
           /\ \A d \in Cells, s \in Rntis :
                 /\ State(d, s) \notin {"CONNECTED_NORMALLY", "HANDOVER_PREPARATION"}
                 /\ State(d, s) = "HANDOVER_JOINING" => d = c /\ s = r
           /\ NoneOf(x2, PrepTypes) /\ NoneOf(x2, OpenTypes)
           /\ ueMan[c][r].sourceId \in Rntis
  <1> DEFINE m == [cell |-> c, rnti |-> r]
  <1>1. \A n \in rrcUp : /\ UeAt(n.cell, n.rnti) /\ rrcDown = {}
                         /\ State(n.cell, n.rnti) = "HANDOVER_JOINING"
    BY DEF Stages, AirFollowsStages
  <1>2. UeAt(c, r) /\ rrcDown = {} /\ State(c, r) = "HANDOVER_JOINING"
    BY <1>1
  <1>3. rrcUp \ {m} = {}
    <2>1. rrcUp \subseteq [cell : Cells, rnti : Rntis]
      BY DEF TypeOK, MessagesType
    <2>2. \A n \in rrcUp : n.cell = c /\ n.rnti = r
      BY <1>1, <1>2 DEF UeAt
    <2> QED
      BY <2>1, <2>2
  <1>4. \A d \in Cells, s \in Rntis :
            /\ State(d, s) \notin {"CONNECTED_NORMALLY", "HANDOVER_PREPARATION"}
            /\ State(d, s) = "HANDOVER_JOINING" => d = c /\ s = r
    <2>1. rrcUp # {}
      OBVIOUS
    <2> QED
      BY <1>2, <2>1 DEF Stages, ServingHasUe, Serving, JoinerIsAlone
  <1>5. NoneOf(x2, PrepTypes)
    BY <1>4, PreparationSource DEF NoneOf
  <1>6. NoneOf(x2, OpenTypes)
    BY <1>5 DEF NoneOf, OpenTypes, PrepTypes
  <1>7. ueMan[c][r].sourceId \in Rntis
    <2>1. ueMan[c][r] \in Contexts /\ JoinersKnowSource(ueMan)
      BY ContextsAre DEF TypeOK, ContextsType
    <2> QED
      BY <1>2, <2>1 DEF JoinersKnowSource, Contexts, State
  <1> QED
    BY <1>2, <1>3, <1>4, <1>5, <1>6, <1>7

\* The completion that the target sends then.
Completion(c, r, m, net) ==
    /\ m = SecondaryCellHandoverCompleted(ueMan[c][r].sourceId, r)
    /\ net = Sent(x2, c, LteCell, m)

\* It is the only new message, and no preparation is left on the links.
CompletionIsAlone(c, r, m, net) ==
    /\ m \in Messages /\ m.type = "SecondaryCellHandoverCompleted"
    /\ m.oldId = ueMan[c][r].sourceId /\ m.rnti = r
    /\ net \in Networks /\ NoneOf(net, PrepTypes) /\ AtMostOneOf(net, PrepTypes)
    /\ m \in On(net, <<c, LteCell>>)
    /\ \A l \in Links : On(x2, l) \subseteq On(net, l)
    /\ \A l \in Links : \A n \in On(net, l) :
          n \in On(x2, l) \/ (l = <<c, LteCell>> /\ n = m)

\* A completion that is sent when the UE has confirmed is alone.
LEMMA CompletionSent ==
    ASSUME TypeOK, Stages, NEW c \in Cells, NEW r \in Rntis,
           [cell |-> c, rnti |-> r] \in rrcUp,
           NEW m, NEW net, Completion(c, r, m, net)
    PROVE  CompletionIsAlone(c, r, m, net)
  <1>0. x2 \in Networks /\ <<c, LteCell>> \in Links
    BY LinkTypes
  <1>1. m \in Messages
    BY Arrival DEF Messages, Completion
  <1>2. /\ m.type = "SecondaryCellHandoverCompleted"
        /\ m.oldId = ueMan[c][r].sourceId /\ m.rnti = r
    BY DEF SecondaryCellHandoverCompleted, Completion
  <1>3. /\ net \in Networks /\ m \in On(net, <<c, LteCell>>)
        /\ \A l \in Links : On(x2, l) \subseteq On(net, l)
        /\ \A l \in Links : \A n \in On(net, l) :
                 n \in On(x2, l) \/ (l = <<c, LteCell>> /\ n = m)
    BY <1>0, <1>1, OnSent DEF Completion
  <1>n. NoneOf(x2, PrepTypes)
    BY Arrival
  <1>4. NoneOf(net, PrepTypes)
    BY <1>2, <1>3, <1>n DEF NoneOf, PrepTypes
  <1>5. AtMostOneOf(net, PrepTypes)
    BY <1>0, <1>1, <1>n, SentKeepsOne DEF Completion
  <1> QED
    BY <1>1, <1>2, <1>3, <1>4, <1>5 DEF CompletionIsAlone

\* A UE that joins finds the context that waits for it.
LEMMA StagesJoined ==
    ASSUME TypeOK, Stages, NEW c \in Cells, NEW r \in Rntis, Joined(c, r)
    PROVE  Stages'
  <1>0. PICK m : m = SecondaryCellHandoverCompleted(ueMan[c][r].sourceId, r)
    OBVIOUS
  <1>b. PICK net : net = Sent(x2, c, LteCell, m)
    OBVIOUS
  <1>1. /\ [cell |-> c, rnti |-> r] \in rrcUp /\ rrcUp' = {}
        /\ x2' = net
        /\ timers' \subseteq timers /\ ue' = ue /\ rrcDown' = rrcDown
    BY <1>0, <1>b, Arrival DEF Joined
  <1>2. /\ UeAt(c, r) /\ rrcDown = {}
        /\ \A d \in Cells, s \in Rntis :
               /\ State(d, s) \notin {"CONNECTED_NORMALLY", "HANDOVER_PREPARATION"}
               /\ State(d, s) = "HANDOVER_JOINING" => d = c /\ s = r
    BY <1>1, Arrival
  <1>3. /\ m.type = "SecondaryCellHandoverCompleted"
        /\ NoneOf(x2', PrepTypes) /\ AtMostOneOf(x2', PrepTypes)
        /\ \A l \in Links : On(x2, l) \subseteq On(x2', l)
        /\ \A l \in Links : \A n \in On(x2', l) :
                 n \in On(x2, l) \/ (l = <<c, LteCell>> /\ n = m)
    <2>1. [cell |-> c, rnti |-> r] \in rrcUp
      BY <1>1
    <2>c. Completion(c, r, m, net)
      BY <1>0, <1>b DEF Completion
    <2>d. CompletionIsAlone(c, r, m, net)
      BY <2>1, <2>c, CompletionSent
    <2>2. /\ m.type = "SecondaryCellHandoverCompleted"
          /\ NoneOf(net, PrepTypes) /\ AtMostOneOf(net, PrepTypes)
          /\ \A l \in Links : On(x2, l) \subseteq On(net, l)
          /\ \A l \in Links : \A n \in On(net, l) :
                 n \in On(x2, l) \/ (l = <<c, LteCell>> /\ n = m)
      BY <2>1, <2>c, <2>d DEF CompletionIsAlone
    <2> QED
      BY <1>1, <2>2
  <1>4. /\ State(c, r)' = "CONNECTED_NORMALLY"
        /\ \A d \in Cells, s \in Rntis : <<d, s>> # <<c, r>> => State(d, s)' = State(d, s)
    <2>1. ChangesState(c, r, "CONNECTED_NORMALLY")
      BY DEF Joined, ChangesState
    <2> QED
      BY <2>1, OneState DEF State
  <1>5. \A d \in Cells : FailedFrom(d)' <=> FailedFrom(d)
    <2>1. m # HandoverFailed
      BY <1>3 DEF HandoverFailed
    <2>2. \A d \in Cells : <<d, LteCell>> \in Links
      BY LinkTypes
    <2> QED
      BY <1>3, <2>1, <2>2 DEF FailedFrom
  <1>6. ServingHasUe'
    BY <1>1, <1>2, <1>4 DEF ServingHasUe, Serving, UeAt
  <1>7. PreparationsHaveSource'
    BY <1>3 DEF PreparationsHaveSource, Preparation, PrepTypes, NoneOf
  <1>8. JoinerIsAlone'
    BY <1>2, <1>4 DEF JoinerIsAlone
  <1>9. AirFollowsStages'
    BY <1>1, <1>2 DEF AirFollowsStages, UeAt
  <1>10. FailuresEndHandovers'
    <2>1. NoneOf(x2', OpenTypes)
      BY <1>3 DEF NoneOf, OpenTypes, PrepTypes
    <2>2. \A d \in Cells, s \in Rntis : State(d, s)' # "HANDOVER_PREPARATION"
      BY <1>2, <1>4
    <2> QED
      BY <1>1, <1>5, <2>1, <2>2 DEF Stages, FailuresEndHandovers
  <1> QED
    BY <1>6, <1>7, <1>8, <1>9, <1>10 DEF Stages

\* A UE that joins may be asked to hand over at once.
LEMMA StagesJoinedAndPrepared ==
    ASSUME TypeOK, Stages, FailureIsFinal, NEW c \in Cells, NEW t \in Cells,
           NEW r \in Rntis, JoinedAndPrepared(c, r, t)
    PROVE  Stages'
  <1>0. PICK m : m = SecondaryCellHandoverCompleted(ueMan[c][r].sourceId, r)
    OBVIOUS
  <1>a. PICK q : q = HandoverRequest(r, ueMan[c][r].rlcRequests)
    OBVIOUS
  <1>b. PICK net : net = Sent(x2, c, LteCell, m)
    OBVIOUS
  <1>1. /\ [cell |-> c, rnti |-> r] \in rrcUp /\ rrcUp' = {}
        /\ x2' = Sent(net, c, t, q) /\ <<c, t>> \in Links
        /\ timers' \subseteq timers /\ ue' = ue /\ rrcDown' = rrcDown
    BY <1>0, <1>a, <1>b, Arrival DEF JoinedAndPrepared
  <1>2. /\ UeAt(c, r) /\ rrcDown = {}
        /\ \A d \in Cells, s \in Rntis :
               /\ State(d, s) \notin {"CONNECTED_NORMALLY", "HANDOVER_PREPARATION"}
               /\ State(d, s) = "HANDOVER_JOINING" => d = c /\ s = r
    BY <1>1, Arrival
  <1>3. /\ m.type = "SecondaryCellHandoverCompleted"
        /\ net \in Networks /\ NoneOf(net, PrepTypes)
        /\ \A l \in Links : \A n \in On(net, l) :
                 n \in On(x2, l) \/ (l = <<c, LteCell>> /\ n = m)
    <2>1. [cell |-> c, rnti |-> r] \in rrcUp
      BY <1>1
    <2>c. Completion(c, r, m, net)
      BY <1>0, <1>b DEF Completion
    <2>2. CompletionIsAlone(c, r, m, net)
      BY <2>1, <2>c, CompletionSent
    <2> QED
      BY <2>2 DEF CompletionIsAlone
  <1>4. q \in Messages /\ q.type = "HandoverRequest" /\ q.oldId = r
    <2>1. ueMan[c][r].rlcRequests \in SUBSET Drbs
      BY ContextsAre DEF Contexts
    <2>2. q \in Messages
      BY <1>a, <2>1 DEF Messages
    <2> QED
      BY <1>a, <2>2 DEF HandoverRequest
  <1>5. /\ AtMostOneOf(x2', PrepTypes)
        /\ \A l \in Links : \A n \in On(x2', l) :
               \/ n \in On(x2, l) \/ (l = <<c, LteCell>> /\ n = m)
               \/ l = <<c, t>> /\ n = q
        /\ \A l \in Links : \A n \in On(x2', l) :
               n.type \in PrepTypes => l = <<c, t>> /\ n = q
    <2>1. /\ AtMostOneOf(x2', PrepTypes)
          /\ \A l \in Links : \A n \in On(x2', l) :
                 n \in On(net, l) \/ (l = <<c, t>> /\ n = q)
      BY <1>1, <1>3, <1>4, OnSent, SentKeepsOne
    <2> QED
      BY <1>3, <2>1 DEF NoneOf
  <1>6. /\ State(c, r)' = "HANDOVER_PREPARATION"
        /\ \A d \in Cells, s \in Rntis : <<d, s>> # <<c, r>> => State(d, s)' = State(d, s)
    <2> DEFINE x == [ueMan[c][r] EXCEPT !.state = "HANDOVER_PREPARATION",
                                        !.target = t, !.rlcRequests = {}]
    <2>1. x.state = "HANDOVER_PREPARATION"
      BY ContextsAre DEF Contexts
    <2>2. ueMan' = [ueMan EXCEPT ![c][r] = x]
      BY DEF JoinedAndPrepared
    <2> HIDE DEF x
    <2> QED
      BY <2>1, <2>2, ContextsAre DEF State
  <1>7. \A d \in Cells : ~FailedFrom(d) /\ ~FailedFrom(d)'
    <2>1. \A d \in Cells : ~FailedFrom(d)
      BY DEF JoinedAndPrepared, FailureIsFinal
    <2> QED
      <3>1. m # HandoverFailed /\ q # HandoverFailed
        BY <1>3, <1>4 DEF HandoverFailed
      <3>2. \A d \in Cells : <<d, LteCell>> \in Links
        BY LinkTypes
      <3> QED
        BY <1>5, <2>1, <3>1, <3>2 DEF FailedFrom
  <1>8. ServingHasUe'
    BY <1>1, <1>2, <1>6 DEF ServingHasUe, Serving, UeAt
  <1>9. PreparationsHaveSource'
    BY <1>4, <1>5, <1>6 DEF PreparationsHaveSource, Preparation, PrepTypes
  <1>10. JoinerIsAlone'
    BY <1>2, <1>6 DEF JoinerIsAlone
  <1>11. AirFollowsStages'
    BY <1>1, <1>2 DEF AirFollowsStages, UeAt
  <1>12. FailuresEndHandovers'
    BY <1>1, <1>7 DEF Stages, FailuresEndHandovers
  <1> QED
    BY <1>8, <1>9, <1>10, <1>11, <1>12 DEF Stages

\* A confirmation that is of no use changes nothing but the air and a timer.
LEMMA StagesUnheard ==
    ASSUME TypeOK, Stages, NEW c \in Cells, NEW r \in Rntis, Unheard(c, r)
    PROVE  Stages'
  <1>1. /\ rrcUp' \subseteq rrcUp /\ timers' \subseteq timers /\ ue' = ue
        /\ rrcDown' = rrcDown /\ x2' = x2 /\ ueMan' = ueMan
    BY DEF Unheard
  <1>2. /\ AtMostOneOf(x2', PrepTypes)
        /\ \A d \in Cells : FailedFrom(d) => FailedFrom(d)'
        /\ \A l \in Links : \A m \in On(x2', l) : m \in On(x2, l)
        /\ \A d \in Cells, s \in Rntis : State(d, s)' = State(d, s)
    BY <1>1 DEF Stages, PreparationsHaveSource, FailedFrom, State
  <1> QED
    BY <1>1, <1>2, StagesKept

\* A UE that does not come is a failure, which the coordinator is told of.
LEMMA StagesExpired ==
    ASSUME TypeOK, Stages, NEW c \in Cells, NEW r \in Rntis, JoiningExpired(c, r)
    PROVE  Stages'
  <1>1. /\ RadioMayFail /\ State(c, r) = "HANDOVER_JOINING"
        /\ x2' = Sent(x2, c, LteCell, HandoverFailed)
        /\ timers' = (timers \ {Timer("joining", c, r)}) \cup {Timer("removal", c, r)}
        /\ UNCHANGED <<ueMan, ue, rrcDown, rrcUp>>
    BY DEF JoiningExpired, radio
  <1>2. HandoverFailed \in Messages /\ HandoverFailed.type = "HandoverFailed"
    BY DEF Messages, HandoverFailed
  <1>3. /\ AtMostOneOf(x2', PrepTypes)
        /\ \A l \in Links : On(x2, l) \subseteq On(x2', l)
        /\ HandoverFailed \in On(x2', <<c, LteCell>>)
        /\ \A l \in Links : \A n \in On(x2', l) :
                 n \in On(x2, l) \/ (l = <<c, LteCell>> /\ n = HandoverFailed)
    <2>1. x2 \in Networks /\ <<c, LteCell>> \in Links
      BY LinkTypes
    <2>2. AtMostOneOf(x2, PrepTypes) /\ HandoverFailed.type \notin PrepTypes
      BY <1>2 DEF Stages, PreparationsHaveSource, PrepTypes
    <2>3. AtMostOneOf(x2', PrepTypes)
      BY <1>1, <1>2, <2>1, <2>2, SentKeepsOne
    <2> QED
      BY <1>1, <1>2, <2>1, <2>3, OnSent
  <1>4. /\ \A d \in Cells : FailedFrom(d) => FailedFrom(d)'
        /\ FailedFrom(c)'
    BY <1>3, LinkTypes DEF FailedFrom
  <1>5. \A d \in Cells, s \in Rntis : State(d, s)' = State(d, s)
    BY <1>1 DEF State
  <1>6. NoneOf(x2, OpenTypes) /\ NoneOf(x2', OpenTypes)
    BY <1>1, <1>2, <1>3 DEF Stages, JoinerIsAlone, NoneOf, OpenTypes
  <1>7. \A d \in Cells, s \in Rntis : Waits(d, s) => Waits(d, s)'
    BY <1>4, <1>5 DEF Waits
  <1>8. ServingHasUe'
    BY <1>1, <1>5 DEF Stages, ServingHasUe, Serving, UeAt
  <1>9. PreparationsHaveSource'
    <2> SUFFICES ASSUME NEW l \in Links, NEW m \in On(x2', l), m.type \in PrepTypes
                 PROVE  Preparation(l, m)'
      BY <1>3 DEF PreparationsHaveSource, Preparation, PrepTypes
    <2>1. m \in On(x2, l)
      BY <1>2, <1>3 DEF PrepTypes
    <2>2. m \in Messages /\ Preparation(l, m)
      BY <2>1, LinkTypes DEF Stages, PreparationsHaveSource
    <2>3. m.oldId \in Rntis /\ (m.type = "HandoverRequestAck" => m.newId \in Rntis)
      BY <2>2, MessageTypes DEF PrepTypes
    <2> QED
      BY <1>5, <1>7, <2>2, <2>3 DEF Preparation
  <1>10. JoinerIsAlone'
    BY <1>5, <1>6 DEF Stages, JoinerIsAlone
  <1>11. AirFollowsStages'
    <2>1. ue.cell \in Cells /\ ue.rnti \in Rntis
      BY DEF TypeOK, TerminalType
    <2>2. /\ \A m \in rrcUp : m.cell \in Cells /\ m.rnti \in Rntis
          /\ \A m \in rrcDown : m.target \in Cells /\ m.newRnti \in Rntis
      BY DEF TypeOK, MessagesType
    <2> QED
      BY <1>1, <1>5, <1>7, <2>1, <2>2 DEF Stages, AirFollowsStages, UeAt
  <1>12. FailuresEndHandovers'
    <2>1. \A d \in Cells, s \in Rntis : Timer("removal", d, s) \in timers' =>
              Timer("removal", d, s) \in timers \/ (d = c /\ s = r)
      BY <1>1 DEF Timer
    <2> QED
      BY <1>1, <1>4, <1>5, <1>6, <2>1 DEF Stages, FailuresEndHandovers
  <1> QED
    BY <1>8, <1>9, <1>10, <1>11, <1>12 DEF Stages

\* The UE moves; no context, link or timer does.
LEMMA StagesUe ==
    ASSUME TypeOK, Stages, (\E m \in rrcDown : Followed(m)) \/ Reached \/ Missed
    PROVE  Stages'
  <1> USE DEF contexts
  <1>1. UNCHANGED <<ueMan, timers, x2>>
    BY DEF Followed, Reached, Missed
  <1>2. \A c \in Cells, r \in Rntis : ~Serving(c, r)
    <2>1. CASE \E m \in rrcDown : Followed(m)
      BY <2>1 DEF Stages, ServingHasUe
    <2>2. CASE Reached \/ Missed
      BY <2>2 DEF Stages, ServingHasUe, UeAt, Reached, Missed
    <2> QED
      BY <2>1, <2>2
  <1>3. /\ \A c \in Cells, r \in Rntis : State(c, r)' = State(c, r)
        /\ \A c \in Cells, r \in Rntis : Waits(c, r) => Waits(c, r)'
    BY <1>1 DEF State, Waits, FailedFrom
  <1>4. ServingHasUe' /\ PreparationsHaveSource' /\ JoinerIsAlone' /\ FailuresEndHandovers'
    <2>1. ServingHasUe'
      BY <1>2, <1>3 DEF ServingHasUe, Serving
    <2>2. PreparationsHaveSource'
      BY <1>1 DEF Stages, PreparationsHaveSource, Preparation, Waits, FailedFrom, State
    <2>3. JoinerIsAlone'
      BY <1>1 DEF Stages, JoinerIsAlone, State
    <2>4. FailuresEndHandovers'
      BY <1>1 DEF Stages, FailuresEndHandovers, FailedFrom, State
    <2> QED
      BY <2>1, <2>2, <2>3, <2>4
  <1>5. AirFollowsStages'
    <2>0. /\ ue \in [state : {"CONNECTED_NORMALLY", "CONNECTED_HANDOVER"},
                     cell : Cells, rnti : Rntis, ra : {"idle", "running", "failed"}]
          /\ \A m \in rrcDown : m.target \in Cells /\ m.newRnti \in Rntis
      BY DEF TypeOK, TerminalType, MessagesType
    <2>1. CASE \E m \in rrcDown : Followed(m)
      <3>1. PICK m \in rrcDown : Followed(m)
        BY <2>1
      <3>2. rrcDown = {m} /\ rrcUp = {} /\ Waits(m.target, m.newRnti)
        BY DEF Stages, AirFollowsStages
      <3>3. rrcDown' = {} /\ rrcUp' = {} /\ ue'.state = "CONNECTED_HANDOVER"
            /\ ue'.cell = m.target /\ ue'.rnti = m.newRnti
        BY <3>1, <3>2 DEF Followed
      <3>4. ueMan'[ue'.cell][ue'.rnti] = ueMan[m.target][m.newRnti] /\ x2' = x2
        BY <1>1, <3>3
      <3> QED
        BY <3>2, <3>3, <3>4 DEF AirFollowsStages, Waits, FailedFrom, State
    <2>2. CASE Reached
      <3>1. ue.state = "CONNECTED_HANDOVER" /\ rrcDown = {} /\ rrcUp = {}
            /\ Waits(ue.cell, ue.rnti)
        BY <2>0, <2>2 DEF Stages, AirFollowsStages, Reached
      <3>2. State(ue.cell, ue.rnti) = "HANDOVER_JOINING"
        BY <2>2, <3>1 DEF Reached, Known, Waits, State
      <3>3. ue'.state = "CONNECTED_NORMALLY" /\ ue'.ra = "idle"
            /\ ue'.cell = ue.cell /\ ue'.rnti = ue.rnti
        BY <2>0, <2>2 DEF Reached
      <3>4. rrcDown' = {} /\ rrcUp' = {[cell |-> ue.cell, rnti |-> ue.rnti]}
        BY <2>2, <3>1 DEF Reached
      <3>5. ueMan'[ue.cell][ue.rnti].state = "HANDOVER_JOINING"
        BY <1>1, <3>2 DEF State
      <3> QED
        BY <3>3, <3>4, <3>5 DEF AirFollowsStages, UeAt, State
    <2>3. CASE Missed
      <3>1. ue.state = "CONNECTED_HANDOVER" /\ rrcDown = {} /\ rrcUp = {}
            /\ Waits(ue.cell, ue.rnti)
        BY <2>0, <2>3 DEF Stages, AirFollowsStages, Missed
      <3>2. ue'.state = "CONNECTED_HANDOVER" /\ ue'.cell = ue.cell /\ ue'.rnti = ue.rnti
            /\ rrcDown' = {} /\ rrcUp' = {}
        BY <2>0, <2>3, <3>1 DEF Missed
      <3> QED
        BY <1>1, <3>1, <3>2 DEF AirFollowsStages, Waits, FailedFrom, State
    <2> QED
      BY <2>1, <2>2, <2>3
  <1> QED
    BY <1>4, <1>5 DEF Stages

-----------------------------------------------------------------------------
\* The stages are inductive, as long as a failed handover is the last one.
LEMMA StagesInit == Init => Stages
  <1> SUFFICES ASSUME Init PROVE Stages
    OBVIOUS
  <1>1. \A l \in Links : On(x2, l) = {} /\ Len(x2[l]) = 0
    BY DEF Init, NoTraffic, On
  <1>2. /\ State(FirstCell, 1) = "CONNECTED_NORMALLY"
        /\ \A c \in Cells, r \in Rntis :
              <<c, r>> # <<FirstCell, 1>> => State(c, r) = "NONE"
    BY HandoverAssumption, RntiAssumption DEF Init, State, NoContext, Rntis
  <1>3. UeAt(FirstCell, 1) /\ rrcDown = {} /\ rrcUp = {} /\ timers = {}
    BY DEF Init, UeAt
  <1>4. ServingHasUe
    BY <1>2, <1>3 DEF ServingHasUe, Serving
  <1>5. PreparationsHaveSource
    BY <1>1 DEF PreparationsHaveSource, AtMostOneOf
  <1>6. JoinerIsAlone
    BY <1>2 DEF JoinerIsAlone
  <1>7. AirFollowsStages
    BY <1>3 DEF AirFollowsStages, UeAt
  <1>8. \A c \in Cells : <<c, LteCell>> \in Links
    BY CellsAssumption DEF Links, Nodes
  <1>9. FailuresEndHandovers
    BY <1>1, <1>3, <1>8 DEF FailuresEndHandovers, FailedFrom
  <1> QED
    BY <1>4, <1>5, <1>6, <1>7, <1>9 DEF Stages

\* Every step keeps the stages.
LEMMA StagesStep ==
    ASSUME TypeOK, Stages, FailureIsFinal, [Next]_vars
    PROVE  Stages'
  <1>1. CASE CoordinatorEffect
    BY <1>1, StagesCoordinator
  <1>2. CASE CellEffect
    <2>1. ASSUME NEW c \in Cells, NEW t \in Cells, NEW r \in Rntis, NEW net,
                 Prepared(c, r, t, net) \/ Deferred(c, r, t, net)
          PROVE  Stages'
      BY <2>1, StagesPrepared, StagesDeferred
    <2>2. ASSUME NEW a \in Cells, NEW c \in Cells, Rejected(a, c) PROVE Stages'
      BY <2>2, StagesRejected
    <2>3. ASSUME NEW a \in Cells, NEW c \in Cells, NEW r \in Rntis,
                 Admitted(a, c, r) \/ Resumed(a, c, r)
          PROVE  Stages'
      BY <2>3, StagesAdmitted, StagesResumed
    <2>4. ASSUME NEW a \in Cells, NEW c \in Cells, NEW r \in Rntis, NEW m \in Messages,
                 Left(a, c, r, m)
          PROVE  Stages'
      BY <2>4, StagesLeft
    <2>5. ASSUME NEW c \in Cells, NEW r \in Rntis, Released(c, r) \/ Forwarding(c, r)
          PROVE  Stages'
      BY <2>5, StagesReleased, StagesForwarding
    <2> QED
      BY <1>2, <2>1, <2>2, <2>3, <2>4, <2>5 DEF CellEffect
  <1>3. CASE UeEffect
    <2>1. ASSUME NEW c \in Cells, NEW r \in Rntis,
                 \/ Joined(c, r) \/ Unheard(c, r)
                 \/ JoiningExpired(c, r) \/ Removed(c, r)
          PROVE  Stages'
      BY <2>1, StagesJoined, StagesUnheard, StagesExpired, StagesRemoved
    <2>2. ASSUME NEW c \in Cells, NEW t \in Cells, NEW r \in Rntis,
                 JoinedAndPrepared(c, r, t)
          PROVE  Stages'
      BY <2>2, StagesJoinedAndPrepared
    <2> QED
      BY <1>3, <2>1, <2>2, StagesUe DEF UeEffect
  <1> QED
    BY <1>1, <1>2, <1>3, StepEffects
-----------------------------------------------------------------------------
\* While the radio works no handover fails.
LEMMA FailureNeedsRadio ==
    ASSUME ~RadioMayFail, Stages
    PROVE  FailureIsFinal /\ \A c \in Cells : ~FailedFrom(c)
  BY DEF Stages, FailuresEndHandovers, FailureIsFinal

\* While the radio works, the stages of every handover are those above, whoever
\* asks for it: the coordinator, the control file or the RIC.
THEOREM StagesFollow ==
    ASSUME ~RadioMayFail
    PROVE  Spec => []Stages
  <1>1. Init => Stages
    BY StagesInit
  <1>2. TypeOK /\ Stages /\ [Next]_vars => Stages'
    BY StagesStep, FailureNeedsRadio
  <1>3. Spec => []TypeOK
    BY TypeCorrect
  <1> QED
    BY <1>1, <1>2, <1>3, PTL DEF Spec

\* While the radio works, a UE that was told to move, and one that performs
\* random access, finds its context waiting in the target cell, whoever asked
\* for the handover.
THEOREM TargetIsReady ==
    ASSUME ~RadioMayFail
    PROVE  Spec => []TargetWaitsForUe
  <1>1. TypeOK /\ Stages => TargetWaitsForUe
    <2> SUFFICES ASSUME TypeOK, Stages PROVE TargetWaitsForUe
      OBVIOUS
    <2>1. /\ ue.cell \in Cells /\ ue.rnti \in Rntis
          /\ ue.state \in {"CONNECTED_NORMALLY", "CONNECTED_HANDOVER"}
          /\ \A m \in rrcDown : m.target \in Cells /\ m.newRnti \in Rntis
      BY DEF TypeOK, TerminalType, MessagesType
    <2>2. \A c \in Cells, r \in Rntis : Waits(c, r) => State(c, r) = "HANDOVER_JOINING"
      BY FailureNeedsRadio DEF Waits
    <2> QED
      BY <2>1, <2>2 DEF TargetWaitsForUe, Stages, AirFollowsStages, State
  <1>2. Spec => []TypeOK /\ []Stages
    BY TypeCorrect, StagesFollow
  <1> QED
    BY <1>1, <1>2, PTL
=============================================================================
