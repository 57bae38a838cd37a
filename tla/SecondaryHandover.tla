------------------------- MODULE SecondaryHandover -------------------------
(***************************************************************************)
(* The secondary cell of one dual-connected UE: an LTE cell (the           *)
(* coordinator) and several mmWave cells that hand the UE over to each     *)
(* other while the LTE cell keeps the bearers' PDCP and decides which leg  *)
(* carries them.                                                           *)
(*                                                                         *)
(* The state is that of three programs: class LteEnbRrc of the LTE cell    *)
(* (last ... asked), class LteEnbRrc and its UeManagers on every mmWave    *)
(* cell (ueMan ... e2Event), and the two LteUeRrc instances of the UE (ue, *)
(* uePdcp), with the messages between them.  The model starts when the     *)
(* dual connection has been set up on FirstCell.                           *)
(*                                                                         *)
(* NS_ASSERT and NS_FATAL_ERROR stop the simulation: "fault" names the one *)
(* that was hit, and no action is enabled after it.                        *)
(***************************************************************************)
EXTENDS X2Network

CONSTANTS
    FirstCell,          \* the mmWave cell of the initial access
    Sinrs,              \* the values, in dB, that the SINR of a cell may take
    OutageThreshold,    \* attribute OutageThreshold of LteEnbRrc
    HoSinrDifference,   \* attribute HoSinrDifference of LteEnbRrc
    Mode,               \* attribute SecondaryCellHandoverMode
    AdmittingCells,     \* cells whose attribute AdmitHandoverRequest is TRUE
    FileControl,        \* handover commands arrive in the control file
    RicControl,         \* RIC Control requests arrive over E2
    RadioMayFail,       \* random access may fail, and messages over the air
                        \* may take longer than the handover timers
    MaxSwitches         \* bound: switch commands on their way to the UE

ASSUME HandoverAssumption ==
    /\ FirstCell \in Cells
    /\ Sinrs \subseteq Int
    /\ OutageThreshold \in Int
    /\ HoSinrDifference \in Nat
    /\ Mode \in {"Ttt", "Threshold", "NoAuto"}
    /\ AdmittingCells \subseteq Cells
    /\ {FileControl, RicControl, RadioMayFail} \subseteq BOOLEAN
    /\ MaxSwitches \in Nat \ {0}

VARIABLES
    \* ---- LteEnbRrc of the LTE cell, entries of the UE
    last,           \* m_lastMmWaveCell
    setup,          \* m_mmWaveCellSetupCompleted: FALSE during a handover
    usingLte,       \* m_imsiUsingLte
    hoEvent,        \* m_imsiHandoverEventsMap: the scheduled PerformHandover
    e2Controlled,   \* membership in m_e2ControlledUes
    mmCell,         \* m_mmWaveCellId of the UeManager
    mmRnti,         \* m_mmWaveRnti of the UeManager
    pdcp,           \* McEnbPdcp of every bearer: cell and leg
    asked,          \* history: target of the last McHandoverRequest
    \* ---- LteEnbRrc of the mmWave cells
    ueMan,          \* m_ueMap: UeManager of every RNTI of every cell
    lastRnti,       \* m_lastAllocatedRnti
    rntiOf,         \* m_imsiRntiMap, entry of the UE
    teidFwd,        \* m_teidToBeForwardedMap of the cell's EpcX2, as bearers
    timers,         \* joining and leaving timers, and scheduled removals
    e2Event,        \* the scheduled PerformE2RCHO
    \* ---- LteUeRrc instances of the UE
    ue,             \* state of the mmWave RRC
    uePdcp,         \* McUePdcp: m_useMmWaveConnection
    \* ---- messages
    x2,             \* X2 links
    rrcDown,        \* handover commands on their way to the UE
    rrcUp,          \* RRC CONNECTION RECONFIGURATION COMPLETED to a cell
    switchDown,     \* RRC CONNECTION SWITCH, from the LTE cell to the UE
    \* ---- the simulation
    fault           \* the assertion or fatal error that ended it

coordinator == <<last, setup, usingLte, hoEvent, e2Controlled, mmCell, mmRnti,
                 pdcp, asked>>
contexts == <<ueMan, lastRnti, rntiOf, teidFwd, timers>>
terminal == <<ue, uePdcp>>
air == <<rrcDown, rrcUp, switchDown>>
vars == <<coordinator, contexts, e2Event, terminal, x2, air, fault>>

-----------------------------------------------------------------------------
(***************************************************************************)
(* Data                                                                    *)
(***************************************************************************)
NoFault == "none"
NoEvent == [source |-> NoCell, target |-> NoCell]
UeStates == {"NONE", "HANDOVER_JOINING", "CONNECTED_NORMALLY",
             "HANDOVER_PREPARATION", "HANDOVER_LEAVING"}

Contexts == [state : UeStates, target : Nodes \cup {NoCell},
             queued : Cells \cup {NoCell}, source : Cells \cup {NoCell},
             sourceId : Rntis \cup {NoRnti}, rlc : SUBSET Drbs,
             rlcRequests : SUBSET Drbs]
UeManagers == [Cells -> [Rntis -> Contexts]]
NoContext == [state |-> "NONE", target |-> NoCell, queued |-> NoCell,
              source |-> NoCell, sourceId |-> NoRnti, rlc |-> {},
              rlcRequests |-> {}]

Timers == [kind : {"joining", "leaving", "removal"}, cell : Cells, rnti : Rntis]
Timer(kind, c, r) == [kind |-> kind, cell |-> c, rnti |-> r]

Known(c, r) == r # NoRnti /\ ueMan[c][r].state # "NONE"
\* the bearer that a loop over m_drbMap visits first
FirstDrb == CHOOSE d \in Drbs : \A e \in Drbs : d <= e

\* The assertion or fatal error "why" ends the simulation.
Stop(why) ==
    /\ fault' = why
    /\ UNCHANGED <<coordinator, contexts, e2Event, terminal, x2, air>>

-----------------------------------------------------------------------------
Init ==
    /\ last = FirstCell
    /\ setup = TRUE
    /\ usingLte = FALSE
    /\ hoEvent = NoEvent
    /\ e2Controlled = FALSE
    /\ mmCell = FirstCell
    /\ mmRnti = 1
    /\ pdcp = [d \in Drbs |-> [cell |-> FirstCell, rnti |-> 1, mm |-> TRUE]]
    /\ asked = FirstCell
    /\ ueMan = [c \in Cells |-> [r \in Rntis |->
            IF c = FirstCell /\ r = 1
            THEN [NoContext EXCEPT !.state = "CONNECTED_NORMALLY",
                                   !.rlc = Drbs, !.rlcRequests = Drbs]
            ELSE NoContext]]
    /\ lastRnti = [c \in Cells |-> IF c = FirstCell THEN 1 ELSE NoRnti]
    /\ rntiOf = [c \in Cells |-> IF c = FirstCell THEN 1 ELSE NoRnti]
    /\ teidFwd = [c \in Cells |-> {}]
    /\ timers = {}
    /\ e2Event = NoEvent
    /\ ue = [state |-> "CONNECTED_NORMALLY", cell |-> FirstCell, rnti |-> 1,
             ra |-> "idle"]
    /\ uePdcp = TRUE
    /\ x2 = NoTraffic
    /\ rrcDown = {}
    /\ rrcUp = {}
    /\ switchDown = <<>>
    /\ fault = NoFault

-----------------------------------------------------------------------------
(***************************************************************************)
(* The coordinator's decisions.  Every 1.6 ms TriggerUeAssociationUpdate   *)
(* looks at the SINR the cells reported last; the reports are an input.    *)
(* The actions below are the branches that change state.                   *)
(***************************************************************************)
IsBest(sinr, best) == \A c \in Cells :
    sinr[best] > sinr[c] \/ (sinr[best] = sinr[c] /\ best <= c)

\* A cell that cannot serve the UE; 2 dB of hysteresis once the UE is on LTE.
\* If the best cell is in outage, so are all.
InOutage(sinr, c) == sinr[c] < OutageThreshold + (IF usingLte THEN 2 ELSE 0)

SinrMaps == [Cells -> Sinrs]

\* Mutant: m_mmWaveCellSetupCompleted is not reset.
RequestWithoutReset(target) ==
    /\ x2' = Sent(x2, LteCell, last, McHandoverRequest(target))
    /\ setup' = setup
    /\ asked' = target

\* X2 SendMcHandoverRequest to the serving cell and setup := FALSE.
RequestHandover(target) ==
    /\ x2' = Sent(x2, LteCell, last, McHandoverRequest(target))
    /\ setup' = FALSE
    /\ asked' = target

\* UeManager::SendRrcConnectionSwitch on the LTE cell
SendRrcConnectionSwitch(useMmWave) ==
    /\ Len(switchDown) < MaxSwitches
    /\ pdcp' = [d \in Drbs |-> [pdcp[d] EXCEPT !.mm = useMmWave]]
    /\ x2' = IF useMmWave THEN x2
             ELSE Sent(x2, LteCell, mmCell, SwitchConnection(mmRnti))
    /\ switchDown' = Append(switchDown, useMmWave)
    /\ usingLte' = ~useMmWave

\* Mutant: the event is forgotten only if it is one for the serving cell.
KeepOtherEvents ==
    hoEvent' = IF hoEvent.target = last THEN NoEvent ELSE hoEvent

\* The event scheduled for the UE, if any, is cancelled and deleted.
CancelHandoverEvent == hoEvent' = NoEvent

SwitchToLte ==
    /\ ~e2Controlled /\ ~usingLte
    /\ \E sinr \in SinrMaps : \A c \in Cells : InOutage(sinr, c)
    /\ ~\E i \in 1 .. Len(x2[<<LteCell, mmCell>>]) :    \* bound, as MaxSwitches
            x2[<<LteCell, mmCell>>][i] = SwitchConnection(mmRnti)
    /\ SendRrcConnectionSwitch(FALSE)
    /\ CancelHandoverEvent
    /\ UNCHANGED <<last, setup, e2Controlled, mmCell, mmRnti, asked, contexts,
                   e2Event, terminal, rrcDown, rrcUp, fault>>

\* On LTE, and the last mmWave cell is the best one again.
SwitchBackToMmWave ==
    /\ Mode # "NoAuto" /\ ~e2Controlled /\ usingLte /\ setup
    /\ \E sinr \in SinrMaps : IsBest(sinr, last) /\ ~InOutage(sinr, last)
    /\ SendRrcConnectionSwitch(TRUE)
    /\ UNCHANGED <<last, setup, hoEvent, e2Controlled, mmCell, mmRnti, asked,
                   contexts, e2Event, terminal, rrcDown, rrcUp, fault>>

\* On LTE, and another mmWave cell is the best one.
HandoverFromLte ==
    /\ Mode # "NoAuto" /\ ~e2Controlled /\ usingLte /\ setup
    /\ \E sinr \in SinrMaps, best \in Cells \ {last} :
        /\ IsBest(sinr, best) /\ ~InOutage(sinr, best)
        /\ RequestHandover(best)
    /\ UNCHANGED <<last, usingLte, hoEvent, e2Controlled, mmCell, mmRnti, pdcp,
                   contexts, e2Event, terminal, air, fault>>

\* ThresholdBasedSecondaryCellHandover, UE on mmWave
ThresholdHandover ==
    /\ Mode = "Threshold" /\ ~e2Controlled /\ ~usingLte /\ setup
    /\ \E sinr \in SinrMaps, best \in Cells \ {last} :
        /\ IsBest(sinr, best) /\ ~InOutage(sinr, best)
        /\ sinr[best] - sinr[last] > HoSinrDifference
        /\ RequestHandover(best)
    /\ UNCHANGED <<last, usingLte, hoEvent, e2Controlled, mmCell, mmRnti, pdcp,
                   contexts, e2Event, terminal, air, fault>>

(***************************************************************************)
(* TttBasedHandover, UE on mmWave.  The time to trigger is abstracted: the *)
(* scheduled event may run at any later moment.  An event for the best     *)
(* cell may be replaced (a shorter time to trigger, or the serving cell in *)
(* outage); one for another cell is replaced when the best cell is better  *)
(* by more than HoSinrDifference, and cancelled when the best cell is the  *)
(* serving one.                                                            *)
(***************************************************************************)
TttBasedHandover ==
    /\ Mode = "Ttt" /\ ~e2Controlled /\ ~usingLte /\ setup
    /\ \E sinr \in SinrMaps, best \in Cells :
        /\ IsBest(sinr, best) /\ ~InOutage(sinr, best)
        /\ \/ /\ best # last
              /\ \/ hoEvent = NoEvent
                 \/ hoEvent.target = best
                 \/ /\ hoEvent # NoEvent
                    /\ sinr[best] - sinr[hoEvent.target] > HoSinrDifference
              /\ hoEvent' = [source |-> last, target |-> best]
           \/ /\ best = last
              /\ hoEvent # NoEvent
              /\ hoEvent.target # best
              /\ CancelHandoverEvent
    /\ UNCHANGED <<last, setup, usingLte, e2Controlled, mmCell, mmRnti, pdcp,
                   asked, contexts, e2Event, terminal, x2, air, fault>>

\* The scheduled event runs.
PerformHandover ==
    /\ hoEvent # NoEvent
    /\ IF hoEvent.source # last
       THEN Stop("The secondary cell to which the UE is attached has changed")
       ELSE /\ hoEvent' = NoEvent
            /\ IF setup /\ last # hoEvent.target
               THEN RequestHandover(hoEvent.target)
               ELSE UNCHANGED <<x2, setup, asked>>
            /\ UNCHANGED <<last, usingLte, e2Controlled, mmCell, mmRnti, pdcp,
                           contexts, e2Event, terminal, air, fault>>

(***************************************************************************)
(* LteEnbNetDevice::ReadControlFile takes over the UE and schedules, with  *)
(* no delay, PerformHandoverToTargetCell.                                  *)
(***************************************************************************)
ReadControlFile ==
    /\ FileControl
    /\ e2Controlled' = TRUE
    /\ \E target \in Cells :
        IF setup THEN RequestHandover(target)
                 ELSE UNCHANGED <<x2, setup, asked>>
    /\ UNCHANGED <<last, usingLte, hoEvent, mmCell, mmRnti, pdcp, contexts,
                   e2Event, terminal, air, fault>>

-----------------------------------------------------------------------------
(***************************************************************************)
(* The mmWave cells                                                        *)
(***************************************************************************)
(***************************************************************************)
(* UeManager::PrepareHandover of RNTI r on cell c, called with the         *)
(* UeManagers "man" and the links "net" as its caller left them.  EpcX2    *)
(* asserts that there is a link to the target.                             *)
(***************************************************************************)
PrepareHandover(man, net, c, r, target) ==
    LET context == man[c][r]
    IN  \/ /\ context.state = "CONNECTED_NORMALLY" /\ <<c, target>> \in Links
           /\ ueMan' = [man EXCEPT ![c][r] =
                  [@ EXCEPT !.state = "HANDOVER_PREPARATION",
                            !.target = target, !.rlcRequests = {}]]
           /\ x2' = Sent(net, c, target, HandoverRequest(r, context.rlcRequests))
           /\ fault' = fault
        \/ /\ context.state = "CONNECTED_NORMALLY" /\ <<c, target>> \notin Links
           /\ fault' = "Missing infos for targetCellId"
           /\ UNCHANGED <<ueMan, x2>>
        \/ /\ context.state = "HANDOVER_JOINING"
           /\ ueMan' = [man EXCEPT ![c][r] = [@ EXCEPT !.queued = target]]
           /\ x2' = net
           /\ fault' = fault
        \/ /\ context.state \notin {"CONNECTED_NORMALLY", "HANDOVER_JOINING"}
           /\ fault' = "PrepareHandover: unexpected state"
           /\ UNCHANGED <<ueMan, x2>>

\* LteEnbRrc::SendHandoverRequest to the UeManager of the UE's last RNTI here
SendHandoverRequest(net, c, target) ==
    IF Known(c, rntiOf[c])
    THEN PrepareHandover(ueMan, net, c, rntiOf[c], target)
    ELSE fault' = "UE manager not found" /\ UNCHANGED <<ueMan, x2>>

RecvMcHandoverRequest(c) ==
    /\ Arrives(x2, LteCell, c, "McHandoverRequest")
    /\ SendHandoverRequest(Taken(x2, LteCell, c), c,
                           Head(x2[<<LteCell, c>>]).target)
    /\ UNCHANGED <<coordinator, lastRnti, rntiOf, teidFwd, timers, e2Event,
                   terminal, air>>

\* LteEnbRrc::AddUe: the next free RNTI after the last allocated one.  The
\* search of a uint16_t that wraps ends two values before its start.
FreeSteps(c) == {k \in 1 .. RntiSpace - 2 :
    LET r == (lastRnti[c] + k) % RntiSpace IN r # NoRnti /\ ~Known(c, r)}
IsNextRnti(c, r) == \E k \in FreeSteps(c) :
    /\ r = (lastRnti[c] + k) % RntiSpace
    /\ \A j \in FreeSteps(c) : k <= j

\* Mutant: the UeManager stays in m_ueMap.
RemoveUeFromMacOnly(c, r) ==
    /\ ueMan' = ueMan
    /\ rrcDown' = {m \in rrcDown : <<m.cell, m.rnti>> # <<c, r>>}
    /\ rrcUp' = {m \in rrcUp : <<m.cell, m.rnti>> # <<c, r>>}

\* RemoveUe drops the UeManager and with it the UE's SRB1 in this cell.
RemoveUe(c, r) ==
    /\ ueMan' = [ueMan EXCEPT ![c][r] = NoContext]
    /\ rrcDown' = {m \in rrcDown : <<m.cell, m.rnti>> # <<c, r>>}
    /\ rrcUp' = {m \in rrcUp : <<m.cell, m.rnti>> # <<c, r>>}

\* Mutants: the context does not wait for the UE; it does not remember the
\* RNTI of the source; it does not add the requests to its own vector.
JoiningAtOnce(s, m) ==
    [state |-> "CONNECTED_NORMALLY", target |-> NoCell, queued |-> NoCell,
     source |-> s, sourceId |-> m.oldId, rlc |-> m.rlc, rlcRequests |-> m.rlc]
JoiningWithoutSourceId(s, m) ==
    [state |-> "HANDOVER_JOINING", target |-> NoCell, queued |-> NoCell,
     source |-> s, sourceId |-> NoRnti, rlc |-> m.rlc, rlcRequests |-> m.rlc]
JoiningWithoutRequests(s, m) ==
    [state |-> "HANDOVER_JOINING", target |-> NoCell, queued |-> NoCell,
     source |-> s, sourceId |-> m.oldId, rlc |-> m.rlc, rlcRequests |-> {}]

\* The UeManager for the HandoverRequest m from cell s, with the RLC entities
\* of the bearers m lists
JoiningContext(s, m) ==
    [state |-> "HANDOVER_JOINING", target |-> NoCell, queued |-> NoCell,
     source |-> s, sourceId |-> m.oldId, rlc |-> m.rlc, rlcRequests |-> m.rlc]

RecvHandoverRequest(s, c) ==
    /\ Arrives(x2, s, c, "HandoverRequest")
    /\ LET m == Head(x2[<<s, c>>])
           net == Taken(x2, s, c)
       IN  \/ /\ c \notin AdmittingCells
              /\ x2' = Sent(net, c, s, HandoverPreparationFailure(m.oldId))
              /\ UNCHANGED <<contexts, fault>>
           \/ /\ c \in AdmittingCells
              /\ IF FreeSteps(c) = {}
                 THEN /\ fault' = "no more RNTIs available"
                      /\ UNCHANGED <<x2, contexts>>
                 ELSE \E r \in Rntis :
                      /\ IsNextRnti(c, r)
                      /\ ueMan' = [ueMan EXCEPT ![c][r] = JoiningContext(s, m)]
                      /\ lastRnti' = [lastRnti EXCEPT ![c] = r]
                      /\ rntiOf' = [rntiOf EXCEPT ![c] = r]
                      /\ timers' = timers \cup {Timer("joining", c, r)}
                      /\ x2' = Sent(net, c, s, HandoverRequestAck(m.oldId, r))
                      /\ UNCHANGED <<teidFwd, fault>>
    /\ UNCHANGED <<coordinator, e2Event, terminal, air>>

\* Mutant: the state stays HANDOVER_PREPARATION.
StartLeavingTimerOnly(c, r) ==
    /\ ueMan' = ueMan
    /\ timers' = timers \cup {Timer("leaving", c, r)}

\* The UE was told to leave: state HANDOVER_LEAVING for at most 45 s.
StartLeaving(c, r) ==
    /\ ueMan' = [ueMan EXCEPT ![c][r] = [@ EXCEPT !.state = "HANDOVER_LEAVING"]]
    /\ timers' = timers \cup {Timer("leaving", c, r)}

\* UeManager::RecvHandoverRequestAck: no check of the state it is in
RecvHandoverRequestAck(t, c) ==
    /\ Arrives(x2, t, c, "HandoverRequestAck")
    /\ LET m == Head(x2[<<t, c>>])
           r == m.oldId
       IN  IF ~Known(c, r)
           THEN Stop("UE manager not found")
           ELSE IF ueMan[c][r].rlc \cap teidFwd[c] # {}
           THEN Stop("TEID already in the map")
           ELSE /\ rrcDown' = rrcDown \cup
                       {[cell |-> c, rnti |-> r, target |-> t, newRnti |-> m.newId]}
                /\ StartLeaving(c, r)
                /\ teidFwd' = [teidFwd EXCEPT ![c] = @ \cup ueMan[c][r].rlc]
                /\ x2' = Taken(x2, t, c)
                /\ UNCHANGED <<coordinator, lastRnti, rntiOf, e2Event, terminal,
                               rrcUp, switchDown, fault>>

RecvHandoverPreparationFailure(t, c) ==
    /\ Arrives(x2, t, c, "HandoverPreparationFailure")
    /\ LET r == Head(x2[<<t, c>>]).oldId
           state == ueMan[c][r].state
       IN  IF ~Known(c, r)
           THEN Stop("UE manager not found")
           ELSE IF state \notin {"HANDOVER_PREPARATION", "HANDOVER_LEAVING"}
           THEN Stop("HandoverPreparationFailure: unexpected state")
           ELSE IF ueMan[c][r].target # t
           THEN Stop("HandoverPreparationFailure: cellId == m_targetCellId")
           ELSE /\ ueMan' = [ueMan EXCEPT ![c][r] = [@ EXCEPT !.state =
                       IF state = "HANDOVER_PREPARATION"
                       THEN "CONNECTED_NORMALLY" ELSE state]]
                /\ x2' = Taken(x2, t, c)
                /\ UNCHANGED <<coordinator, lastRnti, rntiOf, teidFwd, timers,
                               e2Event, terminal, air, fault>>

\* Mutant: forwarding goes on.
KeepTeids(c, bearers) == teidFwd' = teidFwd

\* EpcX2::DoRemoveTeidToBeForwarded of every RLC of a context
RemoveTeids(c, bearers) == teidFwd' = [teidFwd EXCEPT ![c] = @ \ bearers]

\* LteEnbRrc::DoRecvUeContextRelease
RecvUeContextRelease(c) ==
    /\ Arrives(x2, LteCell, c, "UeContextRelease")
    /\ LET r == Head(x2[<<LteCell, c>>]).oldId
       IN  IF ~Known(c, r)
           THEN Stop("UE manager not found")
           ELSE IF ueMan[c][r].state # "HANDOVER_LEAVING"
           THEN Stop("UeContextRelease: unexpected state")
           ELSE IF ~(ueMan[c][r].rlc \subseteq teidFwd[c])
           THEN Stop("TEID not in the map")
           ELSE /\ timers' = timers \ {Timer("leaving", c, r)}
                /\ RemoveTeids(c, ueMan[c][r].rlc)
                /\ RemoveUe(c, r)
                /\ x2' = Taken(x2, LteCell, c)
                /\ UNCHANGED <<coordinator, lastRnti, rntiOf, e2Event, terminal,
                               switchDown, fault>>

\* UeManager::RecvConnectionSwitchToMmWave, always a switch to LTE
RecvConnectionSwitchToMmWave(c) ==
    /\ Arrives(x2, LteCell, c, "SwitchConnection")
    /\ LET r == Head(x2[<<LteCell, c>>]).rnti
       IN  IF ~Known(c, r)
           THEN Stop("UE manager not found")
           ELSE IF ueMan[c][r].rlc # Drbs
           THEN Stop("drbid not found in m_rlcMap")
           ELSE /\ ueMan' = [ueMan EXCEPT ![c][r] = [@ EXCEPT !.target = LteCell]]
                /\ x2' = Taken(x2, LteCell, c)
                /\ UNCHANGED <<coordinator, lastRnti, rntiOf, teidFwd, timers,
                               e2Event, terminal, air, fault>>

\* UeManager::RecvRrcConnectionReconfigurationCompleted
RecvReconfigurationCompleted ==
    \E m \in rrcUp :
        LET c == m.cell
            r == m.rnti
            context == ueMan[c][r]
            man == [ueMan EXCEPT ![c][r] = [@ EXCEPT !.state = "CONNECTED_NORMALLY"]]
            net == Sent(x2, c, LteCell,
                        SecondaryCellHandoverCompleted(context.sourceId, r))
        IN  /\ rrcUp' = rrcUp \ {m}
            /\ CASE context.state = "HANDOVER_JOINING" ->
                      /\ timers' = timers \ {Timer("joining", c, r)}
                      /\ IF context.queued = NoCell
                         THEN ueMan' = man /\ x2' = net /\ fault' = fault
                         ELSE PrepareHandover(man, net, c, r, context.queued)
                 [] context.state \in {"CONNECTED_NORMALLY", "HANDOVER_LEAVING"} ->
                      UNCHANGED <<timers, ueMan, x2, fault>>
                 [] OTHER ->
                      /\ fault' = "ReconfigurationCompleted: unexpected state"
                      /\ UNCHANGED <<timers, ueMan, x2>>
            /\ UNCHANGED <<coordinator, lastRnti, rntiOf, teidFwd, e2Event,
                           terminal, rrcDown, switchDown>>

(***************************************************************************)
(* A RIC Control request reaches mmWave cell c.  The E2 thread looks the   *)
(* UE up, calls TakeUeHoControl on the RRC of cell c (which runs no        *)
(* automatic handovers: only the LTE cell does) and schedules              *)
(* PerformE2RCHO.  That one wants an entry in m_mmWaveCellSetupCompleted   *)
(* of cell c, which only the initial access creates, and does not read it. *)
(***************************************************************************)
ControlMessageReceived(c) ==
    /\ RicControl
    /\ e2Event = NoEvent
    /\ \E r \in Rntis : Known(c, r)
    /\ \E target \in Cells : e2Event' = [source |-> c, target |-> target]
    /\ UNCHANGED <<coordinator, contexts, terminal, x2, air, fault>>

PerformE2RCHO ==
    /\ e2Event # NoEvent
    /\ e2Event' = NoEvent
    /\ IF e2Event.source = FirstCell
       THEN SendHandoverRequest(x2, e2Event.source, e2Event.target)
       ELSE UNCHANGED <<ueMan, x2, fault>>
    /\ UNCHANGED <<coordinator, lastRnti, rntiOf, teidFwd, timers, terminal, air>>

\* No RRC CONNECTION RECONFIGURATION COMPLETED within 45 s of AddUe
HandoverJoiningTimeout(c, r) ==
    /\ RadioMayFail
    /\ Timer("joining", c, r) \in timers
    /\ IF ueMan[c][r].state # "HANDOVER_JOINING"
       THEN Stop("HandoverJoiningTimeout in unexpected state")
       ELSE /\ x2' = Sent(x2, c, LteCell, HandoverFailed)
            /\ timers' = (timers \ {Timer("joining", c, r)})
                            \cup {Timer("removal", c, r)}
            /\ UNCHANGED <<coordinator, ueMan, lastRnti, rntiOf, teidFwd, e2Event,
                           terminal, air, fault>>

(***************************************************************************)
(* No UE CONTEXT RELEASE within 45 s of the handover command.  The joining *)
(* timer of the target has the same duration and was started before it.    *)
(***************************************************************************)
HandoverLeavingTimeout(c, r) ==
    /\ RadioMayFail
    /\ Timer("leaving", c, r) \in timers
    /\ ~\E t \in timers : /\ t.kind = "joining"
                          /\ ueMan[t.cell][t.rnti].source = c
                          /\ ueMan[t.cell][t.rnti].sourceId = r
    /\ IF ueMan[c][r].state # "HANDOVER_LEAVING"
       THEN Stop("HandoverLeavingTimeout in unexpected state")
       ELSE /\ timers' = timers \ {Timer("leaving", c, r)}
            /\ RemoveUe(c, r)
            /\ UNCHANGED <<coordinator, lastRnti, rntiOf, teidFwd, e2Event,
                           terminal, x2, switchDown, fault>>

\* The RemoveUe that HandoverJoiningTimeout scheduled 300 ms ahead
ScheduledRemoveUe(c, r) ==
    /\ Timer("removal", c, r) \in timers
    /\ IF ~Known(c, r)
       THEN Stop("request to remove UE info with unknown rnti")
       ELSE /\ timers' = timers \ {Timer("removal", c, r)}
            /\ RemoveUe(c, r)
            /\ UNCHANGED <<coordinator, lastRnti, rntiOf, teidFwd, e2Event,
                           terminal, x2, switchDown, fault>>

-----------------------------------------------------------------------------
\* Mutant: the PDCP keeps sending to the RNTI of the old cell.
MovedWithoutRnti(p, c, rnti) == [p EXCEPT !.cell = c, !.mm = TRUE]
Moved(p, c, rnti) == [p EXCEPT !.cell = c, !.rnti = rnti, !.mm = TRUE]

(***************************************************************************)
(* The coordinator hears that a handover ended.  The loop over the bearers *)
(* updates m_lastMmWaveCell in its first round, and every later bearer     *)
(* finds "no difference" and keeps its PDCP as it is.                      *)
(***************************************************************************)
RecvSecondaryCellHandoverCompleted(c) ==
    /\ Arrives(x2, c, LteCell, "SecondaryCellHandoverCompleted")
    /\ LET m == Head(x2[<<c, LteCell>>])
       IN  /\ mmCell' = c
           /\ mmRnti' = m.rnti
           /\ IF last # c
              THEN /\ pdcp' = [pdcp EXCEPT ![FirstDrb] = Moved(@, c, m.rnti)]
                   /\ last' = c
                   /\ setup' = TRUE
                   /\ usingLte' = FALSE
              ELSE UNCHANGED <<pdcp, last, setup, usingLte>>
           /\ x2' = Sent(Taken(x2, c, LteCell), LteCell, mmCell,
                         UeContextRelease(m.oldId))
    /\ UNCHANGED <<hoEvent, e2Controlled, asked, contexts, e2Event, terminal,
                   air, fault>>

\* EpcX2 of the LTE cell has no case for the procedure of HandoverFailed.
RecvHandoverFailed(c) ==
    /\ Arrives(x2, c, LteCell, "HandoverFailed")
    /\ Stop("ProcedureCode NOT SUPPORTED!!!")

-----------------------------------------------------------------------------
(***************************************************************************)
(* The UE                                                                  *)
(***************************************************************************)
UeRecvReconfiguration ==
    \E m \in rrcDown :
        /\ <<m.cell, m.rnti>> = <<ue.cell, ue.rnti>>
        /\ IF ue.state = "CONNECTED_NORMALLY"
           THEN /\ ue' = [state |-> "CONNECTED_HANDOVER", cell |-> m.target,
                          rnti |-> m.newRnti, ra |-> "running"]
                /\ rrcDown' = rrcDown \ {m}
                /\ UNCHANGED <<coordinator, contexts, e2Event, uePdcp, x2, rrcUp,
                               switchDown, fault>>
           ELSE Stop("UE: RrcConnectionReconfiguration in unexpected state")

\* Mutant: the completion is not sent.
RandomAccessWithoutReport ==
    /\ ue.ra = "running"
    /\ Known(ue.cell, ue.rnti)
    /\ ue' = [ue EXCEPT !.state = "CONNECTED_NORMALLY", !.ra = "idle"]
    /\ UNCHANGED <<coordinator, contexts, e2Event, uePdcp, x2, air, fault>>

\* The target answers the dedicated preamble only while it has the context.
RandomAccessSuccessful ==
    /\ ue.ra = "running"
    /\ Known(ue.cell, ue.rnti)
    /\ ue' = [ue EXCEPT !.state = "CONNECTED_NORMALLY", !.ra = "idle"]
    /\ rrcUp' = rrcUp \cup {[cell |-> ue.cell, rnti |-> ue.rnti]}
    /\ UNCHANGED <<coordinator, contexts, e2Event, uePdcp, x2, rrcDown,
                   switchDown, fault>>

\* Only a trace: the UE stays in CONNECTED_HANDOVER.
RandomAccessFailed ==
    /\ RadioMayFail
    /\ ue.ra = "running"
    /\ ue' = [ue EXCEPT !.ra = "failed"]
    /\ UNCHANGED <<coordinator, contexts, e2Event, uePdcp, x2, air, fault>>

UeRecvRrcConnectionSwitch ==
    /\ switchDown # <<>>
    /\ uePdcp' = Head(switchDown)
    /\ switchDown' = Tail(switchDown)
    /\ UNCHANGED <<coordinator, contexts, e2Event, ue, x2, rrcDown, rrcUp, fault>>

-----------------------------------------------------------------------------
Decide ==
    \/ SwitchToLte
    \/ SwitchBackToMmWave
    \/ HandoverFromLte
    \/ ThresholdHandover
    \/ TttBasedHandover

Control ==
    \/ ReadControlFile
    \/ \E c \in Cells : ControlMessageReceived(c)

\* Arrival of the next message of a link, at a mmWave cell or at the LTE cell
RecvFromLte(c) ==
    \/ RecvMcHandoverRequest(c)
    \/ RecvUeContextRelease(c)
    \/ RecvConnectionSwitchToMmWave(c)

RecvFromCell(s, c) ==
    \/ RecvHandoverRequest(s, c)
    \/ RecvHandoverRequestAck(s, c)
    \/ RecvHandoverPreparationFailure(s, c)

RecvAtLte(c) ==
    \/ RecvSecondaryCellHandoverCompleted(c)
    \/ RecvHandoverFailed(c)

Deliver ==
    \/ \E c \in Cells : RecvFromLte(c) \/ RecvAtLte(c)
    \/ \E s, c \in Cells : RecvFromCell(s, c)
    \/ RecvReconfigurationCompleted
    \/ UeRecvReconfiguration
    \/ UeRecvRrcConnectionSwitch

Expire ==
    \E c \in Cells, r \in Rntis :
        \/ HandoverJoiningTimeout(c, r)
        \/ HandoverLeavingTimeout(c, r)
        \/ ScheduledRemoveUe(c, r)

Next ==
    /\ fault = NoFault
    /\ \/ Decide
       \/ Control
       \/ Deliver
       \/ PerformHandover
       \/ PerformE2RCHO
       \/ RandomAccessSuccessful
       \/ RandomAccessFailed
       \/ Expire

Spec == Init /\ [][Next]_vars

(***************************************************************************)
(* The event queue of the simulator runs every scheduled event, X2 links   *)
(* lose nothing, and, when RadioMayFail is FALSE, the radio delivers and   *)
(* random access succeeds.                                                 *)
(***************************************************************************)
Fairness ==
    /\ \A c \in Cells : /\ WF_vars(fault = NoFault /\ RecvFromLte(c))
                        /\ WF_vars(fault = NoFault /\ RecvAtLte(c))
    /\ \A s, c \in Cells : WF_vars(fault = NoFault /\ RecvFromCell(s, c))
    /\ WF_vars(fault = NoFault /\ RecvReconfigurationCompleted)
    /\ WF_vars(fault = NoFault /\ UeRecvReconfiguration)
    /\ WF_vars(fault = NoFault /\ RandomAccessSuccessful)

FairSpec == Spec /\ Fairness
-----------------------------------------------------------------------------
(***************************************************************************)
(* Properties                                                              *)
(***************************************************************************)
CoordinatorType ==
    /\ last \in Cells /\ asked \in Cells /\ mmCell \in Cells /\ mmRnti \in Rntis
    /\ setup \in BOOLEAN /\ usingLte \in BOOLEAN /\ e2Controlled \in BOOLEAN
    /\ hoEvent \in [source : Cells, target : Cells] \cup {NoEvent}
    /\ pdcp \in [Drbs -> [cell : Cells, rnti : Rntis, mm : BOOLEAN]]

JoinersKnowSource(man) == \A c \in Cells, r \in Rntis :
    man[c][r].state = "HANDOVER_JOINING" => man[c][r].sourceId # NoRnti

ContextsType ==
    /\ ueMan \in UeManagers /\ JoinersKnowSource(ueMan)
    /\ lastRnti \in [Cells -> Rntis \cup {NoRnti}]
    /\ rntiOf \in [Cells -> Rntis \cup {NoRnti}]
    /\ teidFwd \in [Cells -> SUBSET Drbs]
    /\ timers \subseteq Timers
    /\ e2Event \in [source : Cells, target : Cells] \cup {NoEvent}

TerminalType ==
    /\ ue \in [state : {"CONNECTED_NORMALLY", "CONNECTED_HANDOVER"},
               cell : Cells, rnti : Rntis, ra : {"idle", "running", "failed"}]
    /\ uePdcp \in BOOLEAN

MessagesType ==
    /\ x2 \in Networks
    /\ rrcDown \subseteq [cell : Cells, rnti : Rntis, target : Cells, newRnti : Rntis]
    /\ rrcUp \subseteq [cell : Cells, rnti : Rntis]
    /\ switchDown \in Seq(BOOLEAN)

\* Every variable holds a value of its type: the coordinator's cell ids and
\* RNTI stay those of real cells and allocated RNTIs, and a context that waits
\* for the UE knows its RNTI in the source cell.
TypeOK ==
    /\ CoordinatorType
    /\ ContextsType
    /\ TerminalType
    /\ MessagesType

\* No assertion and no fatal error of the code is ever hit.
NoAssertionFails == fault = NoFault

\* At most one cell holds the UE in a state from which it can hand it over.
OneServingContext ==
    \A c, d \in Cells : \A r, s \in Rntis :
        /\ ueMan[c][r].state \in {"CONNECTED_NORMALLY", "HANDOVER_PREPARATION"}
        /\ ueMan[d][s].state \in {"CONNECTED_NORMALLY", "HANDOVER_PREPARATION"}
        => c = d /\ r = s

\* When the coordinator believes that no handover is under way, the UE, the
\* serving cell and the coordinator agree on the cell and on the RNTI.
CoordinatorTracksUe ==
    setup => /\ last = mmCell
             /\ ue.state = "CONNECTED_NORMALLY"
             /\ <<ue.cell, ue.rnti>> = <<mmCell, mmRnti>>
             /\ ueMan[mmCell][mmRnti].state = "CONNECTED_NORMALLY"
             /\ rntiOf[mmCell] = mmRnti

\* A pending handover event starts from the cell that serves the UE, and no
\* handover or switch to LTE happened since it was scheduled.
EventFitsServingCell ==
    hoEvent # NoEvent => /\ setup /\ ~usingLte
                         /\ hoEvent.source = last
                         /\ hoEvent.target # last

\* X2-U forwards the bearers of exactly the contexts that are being left.
ForwardsWhileLeaving ==
    \A c \in Cells : teidFwd[c] =
        UNION {ueMan[c][r].rlc : r \in {s \in Rntis :
                                    ueMan[c][s].state = "HANDOVER_LEAVING"}}

\* A handover carries the RLC of every bearer along.
ContextsHaveRlc ==
    \A c \in Cells, r \in Rntis :
        Known(c, r) => ueMan[c][r].rlc = Drbs

\* A UE that was told to move finds its context in the target cell.
TargetWaitsForUe ==
    /\ \A m \in rrcDown : ueMan[m.target][m.newRnti].state = "HANDOVER_JOINING"
    /\ ue.ra = "running" => ueMan[ue.cell][ue.rnti].state = "HANDOVER_JOINING"

\* A handover is a token that is passed on: from the coordinator's request to
\* its completion it is in one place, a message or a context that waits for
\* the UE, it leads to the cell that the coordinator asked for, and while the
\* coordinator believes that no handover is under way it is nowhere.
HandoverToken ==
    /\ AtMostOneHandover(x2)
    /\ HandoversGoTo(x2, asked)
    /\ setup => NoHandover(x2)
    /\ \A c \in Cells, r \in Rntis :
        ueMan[c][r].state = "HANDOVER_JOINING" =>
            /\ c = asked /\ ~setup
            /\ NoHandover(x2)
            /\ \A s \in Rntis : ueMan[c][s].state = "HANDOVER_JOINING" => r = s
            /\ ueMan[c][r].queued = NoCell

\* With no handover under way every bearer's PDCP sends to the serving cell.
BearersFollowUe ==
    setup => \A d \in Drbs : <<pdcp[d].cell, pdcp[d].rnti>> = <<mmCell, mmRnti>>

\* When a scheduled handover event runs, the UE is still served by the cell
\* it was served by when the event was scheduled.
SourceUnchangedUntilEvent ==
    fault # "The secondary cell to which the UE is attached has changed"

\* A context that is being left is removed.
LeavingContextIsReleased ==
    \A c \in Cells, r \in Rntis :
        ueMan[c][r].state = "HANDOVER_LEAVING"
            ~> ueMan[c][r].state # "HANDOVER_LEAVING"

\* The coordinator implements the abstract secondary cell.
Abstract == INSTANCE SecondaryCell WITH
    serving <- last, target <- asked, busy <- ~setup, onLte <- usingLte

ImplementsSecondaryCell == Abstract!Spec
HandoversComplete == Abstract!FairSpec
=============================================================================
