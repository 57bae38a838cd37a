--------------------------- MODULE InitialAccess ---------------------------
(***************************************************************************)
(* How one UE gets its dual connection: its LTE RRC connects to the LTE    *)
(* cell, the EPC sets up the bearers, the LTE cell tells the UE which      *)
(* mmWave cell to connect to, the UE's mmWave RRC connects there, and the  *)
(* two cells and the UE split the bearers.  SecondaryHandover starts where *)
(* this module ends.                                                       *)
(*                                                                         *)
(* The UE has one LteUeRrc per leg and one EpcUeNas; every cell an         *)
(* LteEnbRrc with a UeManager per RNTI.  A connection may fail and be      *)
(* tried again, so a cell may hold contexts of earlier attempts.           *)
(*                                                                         *)
(* Timers (T300, 100 ms, and those of the eNB, 15, 30 and 150 ms) are much *)
(* longer than the way of a message: one expires only when what it waits   *)
(* for is lost.  T300 is shorter than the timer of the eNB for the same    *)
(* set-up and longer than the exchange with the EPC.                       *)
(***************************************************************************)
EXTENDS X2Network, FiniteSets

CONSTANTS
    Sinrs,              \* the values, in dB, that the SINR of a cell may take
    OutageThreshold,    \* attribute OutageThreshold of LteEnbRrc
    Mode,               \* attribute SecondaryCellHandoverMode
    AdmittingCells,     \* cells whose attribute AdmitRrcConnectionRequest is TRUE
    Lossy,              \* legs whose random access responses and messages on
                        \* SRB0 may be lost (LteUeRrcProtocolReal)
    MaxLosses,          \* bound: losses
    MaxFades            \* bound: changes of the SINR table

Legs == {"lte", "mm"}

ASSUME AccessAssumption ==
    /\ Sinrs \subseteq Int /\ Sinrs # {}
    /\ OutageThreshold \in Int
    /\ Mode \in {"Ttt", "Threshold", "NoAuto"}
    /\ AdmittingCells \subseteq Nodes
    /\ Lossy \subseteq Legs
    /\ MaxLosses \in Nat /\ MaxFades \in Nat
    /\ Cells # {} /\ IsFiniteSet(Cells)
    /\ Drbs # {} /\ IsFiniteSet(Drbs)     \* the EPC sets up a default bearer

VARIABLES
    \* ---- the UE
    ue,             \* LteUeRrc of each leg
    nas,            \* EpcUeNas: m_state = ACTIVE, m_mmWaveCellId
    retry,          \* LteAsSapProvider::Connect is scheduled (on the LTE RRC)
    ueLeg,          \* leg of each bearer's McUePdcp, "none" before its set-up
    \* ---- the cells
    ctx,            \* m_ueMap: UeManager of every RNTI of every cell
    lastRnti,       \* m_lastAllocatedRnti
    rntiOf,         \* m_imsiRntiMap, entry of the UE
    \* ---- LteEnbRrc of the LTE cell, entries of the UE
    associated,     \* the UE has an entry in m_mmWaveCellSetupCompleted
    setup,          \* that entry
    usingLte,       \* m_imsiUsingLte
    last,           \* m_lastMmWaveCell
    best,           \* m_bestMmWaveCellForImsiMap
    sinr,           \* m_imsiCellSinrMap
    pdcp,           \* McEnbPdcp of every bearer: cell, RNTI and leg
    \* ---- messages
    s1,             \* the EPC has been asked for the initial context
    rar,            \* random access response on its way to a leg
    srb0,           \* messages on SRB0 to a leg, in any order
    srb1,           \* messages on SRB1 from the LTE cell, in order
    up,             \* messages of a leg to its cell, in order
    x2,             \* X2 links
    \* ---- bounds, and the assertion or fatal error that ended the simulation
    losses, fades, fault

terminal == <<ue, nas, retry, ueLeg>>
contexts == <<ctx, lastRnti, rntiOf>>
coordinator == <<associated, setup, usingLte, last, best, pdcp>>
air == <<rar, srb0, srb1, up>>
bounds == <<losses, fades>>
vars == <<terminal, contexts, coordinator, sinr, s1, air, x2, bounds, fault>>

-----------------------------------------------------------------------------
(***************************************************************************)
(* Data                                                                    *)
(***************************************************************************)
NoFault == "none"

UeRrcStates == {"IDLE_START", "IDLE_WAIT_MIB", "IDLE_CAMPED_NORMALLY",
                "IDLE_WAIT_SIB2", "IDLE_RANDOM_ACCESS", "IDLE_CONNECTING",
                "CONNECTED_NORMALLY"}
UeRrcs == [state : UeRrcStates, cell : Nodes \cup {NoCell},
           rnti : Rntis \cup {NoRnti}, pending : BOOLEAN, sib2 : BOOLEAN]

UeStates == {"NONE", "INITIAL_RANDOM_ACCESS", "CONNECTION_SETUP",
             "CONNECTION_REJECTED", "CONNECTED_NORMALLY",
             "CONNECTION_RECONFIGURATION", "MC_CONNECTION_RECONFIGURATION"}
ConnectedStates == {"CONNECTED_NORMALLY", "CONNECTION_RECONFIGURATION",
                    "MC_CONNECTION_RECONFIGURATION"}
Contexts == [state : UeStates, pendingReconf : BOOLEAN,
             pendingConnect : BOOLEAN, allInOutage : BOOLEAN,
             available : BOOLEAN, mmCell : Cells \cup {NoCell},
             mmRnti : Rntis \cup {NoRnti}, drbs : SUBSET Drbs,
             mcDrbs : SUBSET Drbs, rlc : SUBSET Drbs]
NoContext == [state |-> "NONE", pendingReconf |-> FALSE,
              pendingConnect |-> FALSE, allInOutage |-> FALSE,
              available |-> FALSE, mmCell |-> NoCell, mmRnti |-> NoRnti,
              drbs |-> {}, mcDrbs |-> {}, rlc |-> {}]

NoPdcp == [d \in Drbs |-> [cell |-> NoCell, rnti |-> NoRnti, mm |-> FALSE]]

\* X2 messages of the set-up of a split bearer
RlcSetupRequest(d, rnti) == [type |-> "RlcSetupRequest", drb |-> d, rnti |-> rnti]
RlcSetupCompleted(d) == [type |-> "RlcSetupCompleted", drb |-> d]

\* RRC messages.  A Reconfiguration lists the bearers and which are split.
RrcConnectionSetup == [type |-> "Setup"]
RrcConnectionReject == [type |-> "Reject"]
RrcConnectToMmWave(c) == [type |-> "ConnectToMmWave", cell |-> c]
Reconfiguration(drbs, mc) == [type |-> "Reconfiguration", drbs |-> drbs, mc |-> mc]
RrcConnectionSwitch(drbs) == [type |-> "SwitchToLte", drbs |-> drbs]
\* Mutant: the cell and the RNTI are swapped.
RntiBeforeCell(c, r) ==
    [type |-> "SecondaryCellConnected", cell |-> r, rnti |-> c]
SecondaryCellConnected(c, r) ==
    [type |-> "SecondaryCellConnected", cell |-> c, rnti |-> r]
Uplink(type) == [type |-> type]

Known(c, r) == r # NoRnti /\ ctx[c][r].state # "NONE"

\* The bearers of a set in the order in which a loop over m_drbMap visits them
InOrder(S) == CHOOSE f \in [1 .. Cardinality(S) -> S] :
    \A i, j \in 1 .. Cardinality(S) : i < j => f[i] < f[j]
FirstDrb == InOrder(Drbs)[1]

\* The assertion or fatal error "why" ends the simulation.
Stop(why) ==
    /\ fault' = why
    /\ UNCHANGED <<terminal, contexts, coordinator, sinr, s1, air, x2, bounds>>

IsBest(table, b) == \A c \in Cells :
    table[b] > table[c] \/ (table[b] = table[c] /\ b <= c)
Threshold == OutageThreshold + (IF usingLte THEN 2 ELSE 0)
Outage == \A c \in Cells : sinr[c] < Threshold

-----------------------------------------------------------------------------
\* MmWaveHelper::AttachMcToClosestEnb has called Connect of the NAS, and the
\* cells have reported the SINR of the UE.
Init ==
    /\ ue = [k \in Legs |->
            [state |-> IF k = "lte" THEN "IDLE_WAIT_MIB" ELSE "IDLE_START",
             cell |-> IF k = "lte" THEN LteCell ELSE NoCell,
             rnti |-> NoRnti, pending |-> k = "lte", sib2 |-> FALSE]]
    /\ nas = [active |-> FALSE, cell |-> NoCell]
    /\ retry = FALSE
    /\ ueLeg = [d \in Drbs |-> "none"]
    /\ ctx = [c \in Nodes |-> [r \in Rntis |-> NoContext]]
    /\ lastRnti = [c \in Nodes |-> NoRnti]
    /\ rntiOf = [c \in Nodes |-> NoRnti]
    /\ associated = FALSE /\ setup = FALSE /\ usingLte = FALSE
    /\ last = NoCell
    /\ sinr \in [Cells -> Sinrs]
    /\ best \in Cells /\ IsBest(sinr, best)
    /\ pdcp = NoPdcp
    /\ s1 = FALSE
    /\ rar = [k \in Legs |-> NoRnti]
    /\ srb0 = [k \in Legs |-> {}]
    /\ srb1 = <<>>
    /\ up = [k \in Legs |-> <<>>]
    /\ x2 = NoTraffic
    /\ losses = 0 /\ fades = 0
    /\ fault = NoFault

-----------------------------------------------------------------------------
(***************************************************************************)
(* LteUeRrc: what a call does to the state "u" of an RRC                   *)
(***************************************************************************)
StartConnection(u) == [u EXCEPT !.pending = FALSE, !.state = "IDLE_RANDOM_ACCESS"]

\* SwitchToState (IDLE_WAIT_SIB2) and SwitchToState (IDLE_CAMPED_NORMALLY)
AwaitSib2(u) == IF u.sib2 THEN StartConnection(u)
                          ELSE [u EXCEPT !.state = "IDLE_WAIT_SIB2"]
Camp(u) == IF u.pending THEN AwaitSib2(u)
                        ELSE [u EXCEPT !.state = "IDLE_CAMPED_NORMALLY"]

ForceCampedOnEnb(u, c) ==
    IF u.state = "IDLE_START"
    THEN [u EXCEPT !.state = "IDLE_WAIT_MIB", !.cell = c]
    ELSE u

Connect(u) ==
    CASE u.state \in {"IDLE_START", "IDLE_WAIT_MIB"} -> [u EXCEPT !.pending = TRUE]
      [] u.state = "IDLE_CAMPED_NORMALLY" -> AwaitSib2([u EXCEPT !.pending = TRUE])
      [] OTHER -> u

RecvMib(k) ==
    /\ ue[k].state = "IDLE_WAIT_MIB"
    /\ ue' = [ue EXCEPT ![k] = Camp(@)]
    /\ UNCHANGED <<nas, retry, ueLeg, contexts, coordinator, sinr, s1, air, x2,
                   bounds, fault>>

RecvSib2(k) ==
    /\ ue[k].state \notin {"IDLE_START", "IDLE_WAIT_MIB"} /\ ~ue[k].sib2
    /\ ue' = [ue EXCEPT ![k] =
            LET u == [@ EXCEPT !.sib2 = TRUE]
            IN  IF u.state = "IDLE_WAIT_SIB2" THEN StartConnection(u) ELSE u]
    /\ UNCHANGED <<nas, retry, ueLeg, contexts, coordinator, sinr, s1, air, x2,
                   bounds, fault>>

\* EpcUeNas::DoNotifyConnectionFailed schedules a call of Connect on the LTE
\* RRC, whichever RRC has failed.
RetryConnect ==
    /\ retry
    /\ retry' = FALSE
    /\ ue' = [ue EXCEPT !["lte"] = Connect(@)]
    /\ UNCHANGED <<nas, ueLeg, contexts, coordinator, sinr, s1, air, x2, bounds,
                   fault>>

-----------------------------------------------------------------------------
(***************************************************************************)
(* Random access.  A preamble makes the cell allocate an RNTI; the MAC of  *)
(* the UE repeats the preamble when it gets no response.                   *)
(***************************************************************************)
FreeSteps(c) == {n \in 1 .. RntiSpace - 2 :
    LET r == (lastRnti[c] + n) % RntiSpace
    IN  r # NoRnti /\ ctx[c][r].state = "NONE"}
IsNextRnti(c, r) == \E n \in FreeSteps(c) :
    /\ \A m \in FreeSteps(c) : n <= m
    /\ r = (lastRnti[c] + n) % RntiSpace

\* LteEnbRrc::DoAllocateTemporaryCellRnti
AllocateTemporaryCellRnti(k) ==
    /\ ue[k].state = "IDLE_RANDOM_ACCESS" /\ rar[k] = NoRnti
    /\ LET c == ue[k].cell
       IN  IF FreeSteps(c) = {}
           THEN Stop("no more RNTIs available")
           ELSE \E r \in Rntis :
                /\ IsNextRnti(c, r)
                /\ lastRnti' = [lastRnti EXCEPT ![c] = r]
                /\ ctx' = [ctx EXCEPT ![c][r] =
                       [NoContext EXCEPT !.state = "INITIAL_RANDOM_ACCESS"]]
                /\ rar' = [rar EXCEPT ![k] = r]
                /\ UNCHANGED <<terminal, rntiOf, coordinator, sinr, s1, srb0,
                               srb1, up, x2, bounds, fault>>

RandomAccessSuccessful(k) ==
    /\ rar[k] # NoRnti
    /\ rar' = [rar EXCEPT ![k] = NoRnti]
    /\ ue' = [ue EXCEPT ![k] = [@ EXCEPT !.state = "IDLE_CONNECTING", !.rnti = rar[k]]]
    /\ up' = [up EXCEPT ![k] = Append(@, Uplink("Request"))]
    /\ UNCHANGED <<nas, retry, ueLeg, contexts, coordinator, sinr, s1, srb0, srb1,
                   x2, bounds, fault>>

\* The MAC gives up.  Only that of LTE ever reports it.
RandomAccessFailed ==
    /\ "lte" \in Lossy /\ losses < MaxLosses
    /\ ue["lte"].state = "IDLE_RANDOM_ACCESS" /\ rar["lte"] = NoRnti
    /\ ue' = [ue EXCEPT !["lte"] = Camp(@)]
    /\ retry' = TRUE
    /\ losses' = losses + 1
    /\ UNCHANGED <<nas, ueLeg, contexts, coordinator, sinr, s1, air, x2, fades,
                   fault>>

\* Nothing that is sent on SRB1 is lost.
Lose(k) ==
    /\ k \in Lossy /\ losses < MaxLosses
    /\ losses' = losses + 1
    /\ \/ /\ rar[k] # NoRnti
          /\ rar' = [rar EXCEPT ![k] = NoRnti]
          /\ UNCHANGED srb0
       \/ /\ \E m \in srb0[k] : srb0' = [srb0 EXCEPT ![k] = @ \ {m}]
          /\ UNCHANGED rar
    /\ UNCHANGED <<terminal, contexts, coordinator, sinr, s1, srb1, up, x2, fades,
                   fault>>

-----------------------------------------------------------------------------
(***************************************************************************)
(* UeManager: the messages of the UE                                       *)
(***************************************************************************)
\* The uplink message of leg k that its cell receives next
ArrivesUp(k, type) == up[k] # <<>> /\ Head(up[k]).type = type
TakenUp(k) == [up EXCEPT ![k] = Tail(@)]

\* Leg k's context, and the new value x of that context
ContextOf(k) == ctx[ue[k].cell][ue[k].rnti]
WithContext(k, x) == [ctx EXCEPT ![ue[k].cell][ue[k].rnti] = x]

RecvRrcConnectionRequest(k) ==
    /\ ArrivesUp(k, "Request")
    /\ IF ContextOf(k).state # "INITIAL_RANDOM_ACCESS"
       THEN Stop("RecvRrcConnectionRequest: unexpected context")
       ELSE LET c == ue[k].cell
                admitted == c \in AdmittingCells
            IN  /\ ctx' = WithContext(k, [ContextOf(k) EXCEPT !.state =
                        IF admitted THEN "CONNECTION_SETUP" ELSE "CONNECTION_REJECTED"])
                /\ srb0' = [srb0 EXCEPT ![k] = @ \cup
                        {IF admitted THEN RrcConnectionSetup ELSE RrcConnectionReject}]
                /\ rntiOf' = IF admitted THEN [rntiOf EXCEPT ![c] = ue[k].rnti] ELSE rntiOf
                /\ IF admitted /\ k = "lte"
                   THEN associated' = TRUE /\ setup' = FALSE /\ s1' = TRUE
                   ELSE UNCHANGED <<associated, setup, s1>>
                /\ up' = TakenUp(k)
                /\ UNCHANGED <<terminal, lastRnti, usingLte, last, best, pdcp, sinr,
                               rar, srb1, x2, bounds, fault>>

\* Mutant: m_allMmWaveInOutageAtInitialAccess is not set.
ForgetOutage(x, all) == x
NoteOutage(x, all) == [x EXCEPT !.allInOutage = @ \/ all]

(***************************************************************************)
(* SwitchToState (CONNECTED_NORMALLY) with context x and m_imsiUsingLte as *)
(* the caller left them: what waited for that state happens now.           *)
(***************************************************************************)
ConnectedNormally(k, x, onLte) ==
    LET good == x.pendingConnect /\ sinr[best] > OutageThreshold
        outage == x.pendingConnect /\ ~good
    IN  /\ ctx' = WithContext(k, NoteOutage(
                [x EXCEPT !.pendingConnect = FALSE, !.pendingReconf = FALSE,
                          !.state = IF x.pendingReconf THEN "CONNECTION_RECONFIGURATION"
                                                       ELSE "CONNECTED_NORMALLY"],
                outage))
        /\ usingLte' = (onLte \/ outage)
        /\ srb0' = IF good THEN [srb0 EXCEPT ![k] = @ \cup {RrcConnectToMmWave(best)}]
                           ELSE srb0
        /\ srb1' = IF x.pendingReconf
                   THEN Append(srb1, Reconfiguration(x.drbs, x.mcDrbs))
                   ELSE srb1

RecvRrcConnectionSetupCompleted(k) ==
    /\ ArrivesUp(k, "SetupCompleted")
    /\ IF ContextOf(k).state # "CONNECTION_SETUP"
       THEN Stop("RecvRrcConnectionSetupCompleted: unexpected context")
       ELSE /\ ConnectedNormally(k, [ContextOf(k) EXCEPT !.pendingConnect = (k = "lte")],
                                 usingLte)
            /\ up' = TakenUp(k)
            /\ UNCHANGED <<terminal, lastRnti, rntiOf, associated, setup, last, best,
                           pdcp, sinr, s1, rar, x2, bounds, fault>>

(***************************************************************************)
(* EpcEnbApplication::DoInitialContextSetupRequest asks the RRC for one    *)
(* bearer after the other.  The first one that finds the UE connected      *)
(* starts a reconfiguration, the others wait for its end.                  *)
(***************************************************************************)
InitialContextSetup ==
    /\ s1
    /\ LET r == rntiOf[LteCell]
           context == ctx[LteCell][r]
           now == context.state = "CONNECTED_NORMALLY"
           x == [context EXCEPT
                    !.drbs = Drbs,
                    !.pendingReconf = ~now \/ Drbs # {FirstDrb},
                    !.state = IF now THEN "CONNECTION_RECONFIGURATION" ELSE @]
       IN  IF context.state \in {"NONE", "CONNECTION_REJECTED",
                                 "MC_CONNECTION_RECONFIGURATION"}
           THEN Stop("SetupDataRadioBearer: unexpected context")
           ELSE /\ ctx' = [ctx EXCEPT ![LteCell][r] = x]
                /\ srb1' = IF now THEN Append(srb1, Reconfiguration({FirstDrb}, {}))
                                  ELSE srb1
                /\ pdcp' = NoPdcp
                /\ s1' = FALSE
                /\ UNCHANGED <<terminal, lastRnti, rntiOf, associated, setup, usingLte,
                               last, best, sinr, rar, srb0, up, x2, bounds, fault>>

(***************************************************************************)
(* RecvRrcSecondaryCellInitialAccessSuccessful of context x, with the      *)
(* PDCPs p: the secondary cell is asked for the RLC of the bearers that    *)
(* have none there.                                                        *)
(***************************************************************************)
\* Mutant: bearers after the first one are left out.
FirstWithoutRlc(x, lastCell) ==
    {d \in x.drbs : d = FirstDrb /\ (d \notin x.mcDrbs \/ lastCell # x.mmCell)}
WithoutRlc(x, lastCell) == {d \in x.drbs : d \notin x.mcDrbs \/ lastCell # x.mmCell}

\* Mutant: the PDCP is not told the RNTI of the UE in the secondary cell.
DirectedWithoutRnti(p, x) == [p EXCEPT !.cell = x.mmCell]
Directed(p, x) == [p EXCEPT !.cell = x.mmCell, !.rnti = x.mmRnti]

SetupRemoteRlcs(x, p, lastCell) ==
    LET new == WithoutRlc(x, lastCell)
        order == InOrder(new)
    IN  /\ pdcp' = [d \in Drbs |-> IF d \in new THEN Directed(p[d], x) ELSE p[d]]
        /\ x2' = IF new = {} THEN x2
                 ELSE [x2 EXCEPT ![<<LteCell, x.mmCell>>] = @ \o
                        [i \in DOMAIN order |-> RlcSetupRequest(order[i], x.mmRnti)]]

RecvSecondaryCellConnected ==
    /\ ArrivesUp("lte", "SecondaryCellConnected")
    /\ IF ContextOf("lte").state = "NONE"
       THEN Stop("UE manager not found")
       ELSE LET m == Head(up["lte"])
                x == [ContextOf("lte") EXCEPT !.mmCell = m.cell, !.mmRnti = m.rnti,
                                              !.available = @ \/ ContextOf("lte").drbs = {}]
            IN  /\ ctx' = WithContext("lte", x)
                /\ SetupRemoteRlcs(x, pdcp, last)
                /\ up' = TakenUp("lte")
                /\ UNCHANGED <<terminal, lastRnti, rntiOf, associated, setup, usingLte,
                               last, best, sinr, s1, rar, srb0, srb1, bounds, fault>>

(***************************************************************************)
(* In MC_CONNECTION_RECONFIGURATION the split bearers go to mmWave, and    *)
(* then, as in CONNECTION_RECONFIGURATION, a secondary cell that could not *)
(* be set up without bearers is set up now.                                *)
(***************************************************************************)
RecvReconfigurationCompleted ==
    /\ ArrivesUp("lte", "ReconfCompleted")
    /\ LET x == ContextOf("lte")
           split == x.state = "MC_CONNECTION_RECONFIGURATION"
           p == [d \in Drbs |-> IF split /\ d \in x.mcDrbs
                    THEN [pdcp[d] EXCEPT !.mm = TRUE] ELSE pdcp[d]]
       IN  IF x.state \notin ConnectedStates
           THEN Stop("RecvRrcConnectionReconfigurationCompleted: unexpected state")
           ELSE /\ up' = TakenUp("lte")
                /\ IF x.state = "CONNECTED_NORMALLY"
                   THEN UNCHANGED <<ctx, setup, usingLte, last, pdcp, srb0, srb1, x2>>
                   ELSE /\ last' = IF split THEN x.mmCell ELSE last
                        /\ setup' = (setup \/ split)
                        /\ IF x.available THEN SetupRemoteRlcs(x, p, last')
                                          ELSE pdcp' = p /\ x2' = x2
                        /\ ConnectedNormally("lte", x, usingLte /\ ~split)
                /\ UNCHANGED <<terminal, lastRnti, rntiOf, associated, best, sinr, s1,
                               rar, bounds, fault>>

-----------------------------------------------------------------------------
(***************************************************************************)
(* The remote RLC of a split bearer                                        *)
(***************************************************************************)
RecvRlcSetupRequest(c) ==
    /\ Arrives(x2, LteCell, c, "RlcSetupRequest")
    /\ LET m == Head(x2[<<LteCell, c>>])
       IN  IF ~Known(c, m.rnti)
           THEN Stop("UE manager not found")
           ELSE /\ ctx' = [ctx EXCEPT ![c][m.rnti].rlc = @ \cup {m.drb}]
                /\ x2' = Sent(Taken(x2, LteCell, c), c, LteCell, RlcSetupCompleted(m.drb))
                /\ UNCHANGED <<terminal, lastRnti, rntiOf, coordinator, sinr, s1, air,
                               bounds, fault>>

\* A reconfiguration starts at once, whatever the state of the context.
RecvRlcSetupCompleted(c) ==
    /\ Arrives(x2, c, LteCell, "RlcSetupCompleted")
    /\ LET d == Head(x2[<<c, LteCell>>]).drb
           r == rntiOf[LteCell]
           x == [ctx[LteCell][r] EXCEPT !.mcDrbs = @ \cup {d}, !.pendingReconf = FALSE,
                                        !.state = "MC_CONNECTION_RECONFIGURATION"]
       IN  IF ~Known(LteCell, r) \/ d \notin x.drbs
           THEN Stop("The drbid does not match")
           ELSE /\ ctx' = [ctx EXCEPT ![LteCell][r] = x]
                /\ srb1' = Append(srb1, Reconfiguration(x.drbs, x.mcDrbs))
                /\ x2' = Taken(x2, c, LteCell)
                /\ UNCHANGED <<terminal, lastRnti, rntiOf, coordinator, sinr, s1, rar,
                               srb0, up, bounds, fault>>

\* Buffers go to the LTE cell, and the RLC is created again.
RecvConnectionSwitchToMmWave(c) ==
    /\ Arrives(x2, LteCell, c, "SwitchConnection")
    /\ LET m == Head(x2[<<LteCell, c>>])
       IN  IF ~Known(c, m.rnti) \/ ctx[c][m.rnti].rlc = {}
           THEN Stop("drbid not found in m_rlcMap")
           ELSE /\ x2' = Taken(x2, LteCell, c)
                /\ UNCHANGED <<terminal, contexts, coordinator, sinr, s1, air, bounds,
                               fault>>

-----------------------------------------------------------------------------
(***************************************************************************)
(* LteUeRrc and EpcUeNas: the messages of the cells                        *)
(***************************************************************************)
UeRecvRrcConnectionSetup(k) ==
    /\ RrcConnectionSetup \in srb0[k]
    /\ IF ue[k].state # "IDLE_CONNECTING"
       THEN Stop("DoRecvRrcConnectionSetup: unexpected state")
       ELSE LET u == [up EXCEPT ![k] = Append(@, Uplink("SetupCompleted"))]
            IN  /\ ue' = [ue EXCEPT ![k].state = "CONNECTED_NORMALLY"]
                /\ nas' = [nas EXCEPT !.active = TRUE]
                /\ up' = IF nas.active
                         THEN [u EXCEPT !["lte"] = Append(@,
                                SecondaryCellConnected(nas.cell, ue[k].rnti))]
                         ELSE u
                /\ srb0' = [srb0 EXCEPT ![k] = @ \ {RrcConnectionSetup}]
                /\ UNCHANGED <<retry, ueLeg, contexts, coordinator, sinr, s1, rar, srb1,
                               x2, bounds, fault>>

\* Mutant: the NAS does not retry.
FailForGood(k) ==
    /\ ue' = [ue EXCEPT ![k] = Camp([@ EXCEPT !.sib2 = FALSE])]
    /\ retry' = retry

\* DoNotifyConnectionFailed after a reject or T300: SIB2 is read again.
ConnectionFailed(k) ==
    /\ ue' = [ue EXCEPT ![k] = Camp([@ EXCEPT !.sib2 = FALSE])]
    /\ retry' = TRUE

UeRecvRrcConnectionReject(k) ==
    /\ RrcConnectionReject \in srb0[k]
    /\ ConnectionFailed(k)
    /\ srb0' = [srb0 EXCEPT ![k] = @ \ {RrcConnectionReject}]
    /\ UNCHANGED <<nas, ueLeg, contexts, coordinator, sinr, s1, rar, srb1, up, x2,
                   bounds, fault>>

\* Mutant: T300 is not cancelled when the connection is established.
TimeoutOfConnected(k) ==
    /\ ue[k].state \in {"IDLE_CONNECTING", "CONNECTED_NORMALLY"}
    /\ up[k] = <<>> /\ srb0[k] = {} /\ (k = "lte" => ~s1)
    /\ ConnectionFailed(k)
    /\ UNCHANGED <<nas, ueLeg, contexts, coordinator, sinr, s1, air, x2, bounds, fault>>

\* T300: the answer is lost.
ConnectionTimeout(k) ==
    /\ ue[k].state = "IDLE_CONNECTING"
    /\ up[k] = <<>> /\ srb0[k] = {} /\ (k = "lte" => ~s1)
    /\ ConnectionFailed(k)
    /\ UNCHANGED <<nas, ueLeg, contexts, coordinator, sinr, s1, air, x2, bounds, fault>>

\* EpcUeNas::DoNotifyConnectToMmWave
UeRecvRrcConnectToMmWave ==
    \E m \in srb0["lte"] :
        /\ m.type = "ConnectToMmWave"
        /\ nas' = [nas EXCEPT !.cell = m.cell]
        /\ ue' = [ue EXCEPT !["mm"] = Connect(ForceCampedOnEnb(@, m.cell))]
        /\ srb0' = [srb0 EXCEPT !["lte"] = @ \ {m}]
        /\ UNCHANGED <<retry, ueLeg, contexts, coordinator, sinr, s1, rar, srb1, up, x2,
                       bounds, fault>>

\* The leg of bearer d after Reconfiguration m: a bearer that the UE does not know
\* is set up on LTE, one that it knows is moved to mmWave when it is split.
LegAfter(m, d) ==
    CASE d \notin m.drbs -> ueLeg[d]
      [] ueLeg[d] = "none" -> "lte"
      [] d \in m.mc -> "mm"
      [] OTHER -> ueLeg[d]

UeRecvReconfiguration ==
    /\ srb1 # <<>> /\ Head(srb1).type = "Reconfiguration"
    /\ IF ue["lte"].state # "CONNECTED_NORMALLY"
       THEN Stop("DoRecvRrcConnectionReconfiguration: unexpected state")
       ELSE /\ ueLeg' = [d \in Drbs |-> LegAfter(Head(srb1), d)]
            /\ srb1' = Tail(srb1)
            /\ up' = [up EXCEPT !["lte"] = Append(@, Uplink("ReconfCompleted"))]
            /\ UNCHANGED <<ue, nas, retry, contexts, coordinator, sinr, s1, rar, srb0,
                           x2, bounds, fault>>

UeRecvRrcConnectionSwitch ==
    /\ srb1 # <<>> /\ Head(srb1).type = "SwitchToLte"
    /\ ueLeg' = [d \in Drbs |->
            IF d \in Head(srb1).drbs /\ ueLeg[d] # "none" THEN "lte" ELSE ueLeg[d]]
    /\ srb1' = Tail(srb1)
    /\ UNCHANGED <<ue, nas, retry, contexts, coordinator, sinr, s1, rar, srb0, up, x2,
                   bounds, fault>>

-----------------------------------------------------------------------------
(***************************************************************************)
(* Timers of the cells.  The context of an attempt that failed is removed; *)
(* m_imsiRntiMap keeps its RNTI.                                           *)
(***************************************************************************)
RemoveUe(c, r) ==
    /\ ctx' = [ctx EXCEPT ![c][r] = NoContext]
    /\ UNCHANGED <<terminal, lastRnti, rntiOf, coordinator, sinr, s1, air, x2, bounds,
                   fault>>

\* Mutant: the timers of a connection that is established are not cancelled.
InRandomAccess(k, c, r) == ue[k].cell = c /\ rar[k] = r

\* Leg k still uses, or is about to use, RNTI r of cell c.
InUse(k, c, r) ==
    /\ ue[k].cell = c
    /\ \/ rar[k] = r
       \/ ue[k].rnti = r /\ ue[k].state \in {"IDLE_CONNECTING", "CONNECTED_NORMALLY"}

ConnectionRequestTimeout(c, r) ==
    /\ ctx[c][r].state = "INITIAL_RANDOM_ACCESS"
    /\ \A k \in Legs : ~InUse(k, c, r)
    /\ RemoveUe(c, r)

\* 150 ms, longer than T300
ConnectionSetupTimeout(c, r) ==
    /\ ctx[c][r].state = "CONNECTION_SETUP"
    /\ \A k \in Legs : ~InUse(k, c, r)
    /\ RemoveUe(c, r)

\* 30 ms, shorter than T300
ConnectionRejectedTimeout(c, r) ==
    /\ ctx[c][r].state = "CONNECTION_REJECTED"
    /\ \A k \in Legs : InUse(k, c, r) => srb0[k] = {}
    /\ RemoveUe(c, r)

-----------------------------------------------------------------------------
(***************************************************************************)
(* The coordinator's periodic decision while the dual connection is not    *)
(* set up.                                                                 *)
(***************************************************************************)
LteContext == ctx[LteCell][rntiOf[LteCell]]

\* SendRrcConnectionSwitch (false) reaches the bearers that are split.
SwitchToLte ==
    /\ associated /\ Outage /\ ~usingLte
    /\ usingLte' = TRUE
    /\ pdcp' = [d \in Drbs |-> [pdcp[d] EXCEPT !.mm = @ /\ d \notin LteContext.mcDrbs]]
    /\ IF LteContext.mcDrbs = {}
       THEN UNCHANGED <<x2, srb1>>
       ELSE /\ x2' = Sent(x2, LteCell, LteContext.mmCell,
                          SwitchConnection(LteContext.mmRnti))
            /\ srb1' = Append(srb1, RrcConnectionSwitch(LteContext.mcDrbs))
    /\ UNCHANGED <<ctx, best, srb0>>

\* Mutant: the flag is not reset, as in ThresholdBasedSecondaryCellHandover.
KeepOutage(x) == x
EndOutage(x) == [x EXCEPT !.allInOutage = FALSE]

\* With TttBasedHandover a UE that found all cells in outage is told to connect.
SelectBest ==
    /\ ~(associated /\ Outage)
    /\ \E b \in Cells :
        /\ IsBest(sinr, b)
        /\ best' = b
        /\ IF Mode = "Ttt" /\ associated /\ usingLte /\ LteContext.allInOutage
           THEN /\ ctx' = [ctx EXCEPT ![LteCell][rntiOf[LteCell]] = EndOutage(@)]
                /\ srb0' = [srb0 EXCEPT !["lte"] = @ \cup {RrcConnectToMmWave(b)}]
           ELSE UNCHANGED <<ctx, srb0>>
    /\ UNCHANGED <<usingLte, pdcp, x2, srb1>>

\* The decisions that call GetUeManager (GetRntiFromImsi (imsi))
LooksUpUe == associated /\ (Outage \/ (Mode = "Ttt" /\ usingLte))

TriggerUeAssociationUpdate ==
    /\ ~setup
    /\ IF LooksUpUe /\ ~Known(LteCell, rntiOf[LteCell])
       THEN Stop("UE manager not found")
       ELSE /\ SwitchToLte \/ SelectBest
            /\ UNCHANGED <<terminal, lastRnti, rntiOf, associated, setup, last, sinr, s1,
                           rar, up, bounds, fault>>

SinrChanges ==
    /\ ~setup /\ fades < MaxFades
    /\ sinr' \in [Cells -> Sinrs]
    /\ fades' = fades + 1
    /\ UNCHANGED <<terminal, contexts, coordinator, s1, air, x2, losses, fault>>

-----------------------------------------------------------------------------
UeStep(k) ==
    \/ RecvMib(k)
    \/ RecvSib2(k)
    \/ RandomAccessSuccessful(k)
    \/ UeRecvRrcConnectionSetup(k)
    \/ UeRecvRrcConnectionReject(k)
    \/ ConnectionTimeout(k)

CellStep(k) ==
    \/ AllocateTemporaryCellRnti(k)
    \/ RecvRrcConnectionRequest(k)
    \/ RecvRrcConnectionSetupCompleted(k)

UeConfigured ==
    \/ RetryConnect
    \/ UeRecvRrcConnectToMmWave
    \/ UeRecvReconfiguration
    \/ UeRecvRrcConnectionSwitch

BearersStep ==
    \/ InitialContextSetup
    \/ RecvSecondaryCellConnected
    \/ RecvReconfigurationCompleted

X2Step(c) ==
    \/ RecvRlcSetupRequest(c)
    \/ RecvRlcSetupCompleted(c)
    \/ RecvConnectionSwitchToMmWave(c)

Expire == \E c \in Nodes, r \in Rntis :
    \/ ConnectionRequestTimeout(c, r)
    \/ ConnectionSetupTimeout(c, r)
    \/ ConnectionRejectedTimeout(c, r)

Next ==
    /\ fault = NoFault
    /\ \/ \E k \in Legs : UeStep(k) \/ CellStep(k) \/ Lose(k)
       \/ RandomAccessFailed
       \/ UeConfigured
       \/ BearersStep
       \/ \E c \in Cells : X2Step(c)
       \/ Expire
       \/ TriggerUeAssociationUpdate
       \/ SinrChanges

Spec == Init /\ [][Next]_vars

(***************************************************************************)
(* The simulator runs every event: system information is broadcast again   *)
(* and again, what is not lost arrives, timers expire, the coordinator     *)
(* decides every 1.6 ms.  Losses and fades need not happen.                *)
(***************************************************************************)
Fairness ==
    /\ \A k \in Legs : /\ WF_vars(fault = NoFault /\ UeStep(k))
                       /\ WF_vars(fault = NoFault /\ CellStep(k))
    /\ WF_vars(fault = NoFault /\ RetryConnect)
    /\ WF_vars(fault = NoFault /\ UeRecvRrcConnectToMmWave)
    /\ WF_vars(fault = NoFault /\ UeRecvReconfiguration)
    /\ WF_vars(fault = NoFault /\ BearersStep)
    /\ \A c \in Cells : WF_vars(fault = NoFault /\ X2Step(c))
    /\ WF_vars(fault = NoFault /\ TriggerUeAssociationUpdate)

FairSpec == Spec /\ Fairness
-----------------------------------------------------------------------------
(***************************************************************************)
(* Properties                                                              *)
(***************************************************************************)
SignalMessages == {RrcConnectionSetup, RrcConnectionReject}
    \cup {RrcConnectToMmWave(c) : c \in Cells}
BearerMessages == {Reconfiguration(S, T) : S \in SUBSET Drbs, T \in SUBSET Drbs}
    \cup {RrcConnectionSwitch(S) : S \in SUBSET Drbs}
UeMessages == {Uplink(t) : t \in {"Request", "SetupCompleted", "ReconfCompleted"}}
    \cup {SecondaryCellConnected(c, r) : c \in Cells, r \in Rntis}
AccessMessages == {SwitchConnection(r) : r \in Rntis}
    \cup {RlcSetupRequest(d, r) : d \in Drbs, r \in Rntis}
    \cup {RlcSetupCompleted(d) : d \in Drbs}

\* Every variable holds a value of its type.
TypeOK ==
    /\ ue \in [Legs -> UeRrcs]
    /\ nas \in [active : BOOLEAN, cell : Cells \cup {NoCell}]
    /\ {retry, associated, setup, usingLte, s1} \subseteq BOOLEAN
    /\ ueLeg \in [Drbs -> {"none", "lte", "mm"}]
    /\ ctx \in [Nodes -> [Rntis -> Contexts]]
    /\ lastRnti \in [Nodes -> Rntis \cup {NoRnti}]
    /\ rntiOf \in [Nodes -> Rntis \cup {NoRnti}]
    /\ last \in Cells \cup {NoCell} /\ best \in Cells
    /\ sinr \in [Cells -> Sinrs]
    /\ pdcp \in [Drbs -> [cell : Cells \cup {NoCell}, rnti : Rntis \cup {NoRnti},
                         mm : BOOLEAN]]
    /\ rar \in [Legs -> Rntis \cup {NoRnti}]
    /\ srb0 \in [Legs -> SUBSET SignalMessages]
    /\ srb1 \in Seq(BearerMessages)
    /\ up \in [Legs -> Seq(UeMessages)]
    /\ x2 \in [Links -> Seq(AccessMessages)]
    /\ losses \in 0 .. MaxLosses /\ fades \in 0 .. MaxFades

\* No assertion and no fatal error of the code is ever hit: no message finds its
\* context gone or in a state that does not expect it.
NoAssertionFails == fault = NoFault

\* A cell holds a connected context for the UE only under the RNTI with which
\* the UE is connected to it, and hence at most one.
ConnectedContextsAreInUse ==
    \A c \in Nodes, r \in Rntis : ctx[c][r].state \in ConnectedStates =>
        \E k \in Legs : /\ ue[k].state = "CONNECTED_NORMALLY"
                        /\ ue[k].cell = c /\ ue[k].rnti = r

\* The cell and the RNTI that the NAS reports to the coordinator, a pair put
\* together from the command to connect and the connection that followed, are
\* those of the connection.
ReportNamesServingCell ==
    \A r \in Rntis : LET x == ctx[LteCell][r] IN
        x.mmCell # NoCell => /\ ue["mm"].state = "CONNECTED_NORMALLY"
                             /\ x.mmCell = ue["mm"].cell /\ x.mmRnti = ue["mm"].rnti

\* A bearer is sent over mmWave only to an RLC that exists in the cell, under the
\* RNTI with which the UE is connected there.
SplitBearersHaveRlc ==
    \A d \in Drbs : pdcp[d].mm =>
        /\ Known(pdcp[d].cell, pdcp[d].rnti)
        /\ d \in ctx[pdcp[d].cell][pdcp[d].rnti].rlc
        /\ ue["mm"].state = "CONNECTED_NORMALLY"
        /\ ue["mm"].cell = pdcp[d].cell /\ ue["mm"].rnti = pdcp[d].rnti

\* When the coordinator counts the set-up as done and nothing is on its way, the
\* cells and the UE are as SecondaryHandover!Init expects them.
SetupIsComplete ==
    (/\ setup /\ srb1 = <<>> /\ x2 = NoTraffic
     /\ \A k \in Legs : up[k] = <<>> /\ srb0[k] = {}) =>
        LET x == LteContext
            y == ctx[x.mmCell][x.mmRnti]
        IN  /\ last = x.mmCell /\ rntiOf[last] = x.mmRnti /\ ~usingLte
            /\ x.state = "CONNECTED_NORMALLY" /\ y.state = "CONNECTED_NORMALLY"
            /\ y.rlc = Drbs
            /\ pdcp = [d \in Drbs |-> [cell |-> last, rnti |-> x.mmRnti, mm |-> TRUE]]

\* A connection that was started is established, whatever is lost on the way.
LteConnects == <>(ue["lte"].state = "CONNECTED_NORMALLY")

\* A mmWave connection that was started is established.
MmWaveConnects ==
    ue["mm"].state = "IDLE_CONNECTING" ~> ue["mm"].state = "CONNECTED_NORMALLY"

\* A UE gets its dual connection once a cell can serve it and continues to do so,
\* even if all were in outage when the UE connected to the LTE cell.
OutageEnds ==
    <>[](\E c \in Cells : sinr[c] >= OutageThreshold + 2) => <>setup
=============================================================================
