------------------------ MODULE E2Reporting_proof ------------------------
(***************************************************************************)
(* What holds of the reporting for any number of subscriptions, any PRB    *)
(* usage and any length of the window.                                     *)
(***************************************************************************)
EXTENDS E2Reporting, SequenceTheorems, TLAPS

\* The first report comes when no chain runs yet.
NoChainBeforeFlag == ~enabled => \A i \in Ids : reports[i] = 0

\* A subscription is in the map before it is stored and stored before a check.
SubscriptionComesFirst ==
    /\ agent = "storing" => subMap # NoCondition
    /\ sampling # NoCondition => valid

ReportingInv ==
    /\ TypeOK
    /\ WindowHasRoom
    /\ NoChainBeforeFlag
    /\ OneReportChain
    /\ SubscriptionComesFirst

\* What a message taken from the association leaves behind.
LEMMA ReceivesType ==
    ASSUME ReportingInv, NEW type, Receives(type)
    PROVE  /\ inbox' \in Seq(RicMessages)
           /\ Head(inbox) \in RicMessages
           /\ Head(inbox).type = type
BY DEF ReportingInv, TypeOK, Receives

\* Trimming a window that holds at most MaxPrbHistory samples makes room.
LEMMA TrimmedHasRoom ==
    ASSUME NEW window \in Seq(Prbs), Len(window) <= MaxPrbHistory, window # <<>>
    PROVE  /\ Trimmed(window) \in Seq(Prbs)
           /\ Len(Trimmed(window)) < MaxPrbHistory
<1>1. Len(window) \in Nat /\ Len(window) > 0
  OBVIOUS
<1>2. Tail(window) \in Seq(Prbs) /\ Len(Tail(window)) = Len(window) - 1
  OBVIOUS
<1>3. MaxPrbHistory \in Nat
  BY ReportingAssumption
<1>4. CASE Len(window) = MaxPrbHistory
  <2>1. Trimmed(window) = Tail(window)
    BY <1>4 DEF Trimmed
  <2> QED  BY <1>1, <1>2, <1>3, <1>4, <2>1
<1>5. CASE Len(window) # MaxPrbHistory
  <2>1. Trimmed(window) = window
    BY <1>5 DEF Trimmed
  <2> QED  BY <1>1, <1>3, <1>5, <2>1
<1> QED  BY <1>4, <1>5

\* Reporting starts in order.
LEMMA InitReporting == Init => ReportingInv
<1> SUFFICES ASSUME Init PROVE ReportingInv
  OBVIOUS
<1>1. inbox \in Seq(RicMessages)
  BY ReportingAssumption DEF Init
<1>2. TypeOK
  <2>1. history \in Seq(Prbs)
    BY DEF Init
  <2>2. subMap \in ConditionsOfIds /\ sampling \in ConditionsOfIds
    BY DEF Init, ConditionsOfIds
  <2>3. params \in Ids \cup {NoId}
    BY DEF Init
  <2>4. reports \in [Ids -> Nat] /\ checks \in Nat
    BY DEF Init
  <2> QED  BY <1>1, <2>1, <2>2, <2>3, <2>4 DEF Init, TypeOK
<1>3. WindowHasRoom
  BY ReportingAssumption DEF Init, WindowHasRoom
<1>4. NoChainBeforeFlag /\ OneReportChain
  BY DEF Init, NoChainBeforeFlag, OneReportChain
<1>5. SubscriptionComesFirst
  BY DEF Init, SubscriptionComesFirst
<1> QED  BY <1>2, <1>3, <1>4, <1>5 DEF ReportingInv

\* The callbacks of the E2 thread only ever empty the window; that of the LTE
\* cell begins a chain of reports when there is none.
LEMMA E2ThreadKeepsInv == ReportingInv /\ E2Thread => ReportingInv'
<1> SUFFICES ASSUME ReportingInv, E2Thread PROVE ReportingInv'
  OBVIOUS
<1> USE DEF shared, simulator
<1>1. CASE RecvSubscription
  <2>1. subMap' \in Subscriptions
    BY <1>1, ReceivesType
    DEF RecvSubscription, RicMessages, SubscriptionDelete, Shutdown
  <2>2. inbox' \in Seq(RicMessages)
    BY <1>1, ReceivesType DEF RecvSubscription
  <2>3. subMap' # NoCondition
    <3>1. subMap'.type = "subscribe"
      BY <2>1 DEF Subscriptions
    <3>2. DOMAIN subMap' = {"type", "id", "index", "threshold", "format4"}
      BY <2>1 DEF Subscriptions
    <3> QED  BY <3>2 DEF NoCondition
  <2> QED  BY <1>1, <2>1, <2>2, <2>3
           DEF RecvSubscription, ReportingInv, TypeOK, ConditionsOfIds, WindowHasRoom,
               NoChainBeforeFlag, OneReportChain, SubscriptionComesFirst
<1>2. CASE ValidateSubscription
  <2>1. subMap.id \in Ids
    BY <1>2 DEF ValidateSubscription, ReportingInv, TypeOK, SubscriptionComesFirst,
                ConditionsOfIds, Subscriptions
  <2> QED
    BY <1>2, <2>1
    DEF ValidateSubscription, StoreSubscription, ReportingInv, TypeOK, WindowHasRoom,
        NoChainBeforeFlag, OneReportChain, SubscriptionComesFirst
<1>3. CASE StartPrbMonitoring
  <2>1. history' \in Seq(Prbs) /\ Len(history') < MaxPrbHistory
    <3>1. CASE history' = <<>>
      BY <3>1, ReportingAssumption
    <3>2. CASE history' = history
      BY <3>2 DEF ReportingInv, TypeOK, WindowHasRoom
    <3> QED  BY <1>3, <3>1, <3>2 DEF StartPrbMonitoring
  <2>2. checks' \in Nat /\ exit' \in {"no", "send", "undefined"}
    BY <1>3 DEF StartPrbMonitoring, ReportingInv, TypeOK
  <2> QED
    BY <1>3, <2>1, <2>2
    DEF StartPrbMonitoring, ReportingInv, TypeOK, WindowHasRoom, NoChainBeforeFlag,
        OneReportChain, SubscriptionComesFirst
<1>4. CASE RecvSubscriptionDelete
  BY <1>4, ReceivesType
  DEF RecvSubscriptionDelete, ReportingInv, TypeOK, WindowHasRoom,
      NoChainBeforeFlag, OneReportChain, SubscriptionComesFirst
<1>5. CASE CloseConnection
  BY <1>5
  DEF CloseConnection, ReportingInv, TypeOK, WindowHasRoom, NoChainBeforeFlag,
      OneReportChain, SubscriptionComesFirst
<1>6. CASE RecvShutdown
  BY <1>6, ReceivesType
  DEF RecvShutdown, ReportingInv, TypeOK, WindowHasRoom, NoChainBeforeFlag,
      OneReportChain, SubscriptionComesFirst
<1>7. CASE RecvLteSubscription
  <2>1. Head(inbox) \in Subscriptions /\ inbox' \in Seq(RicMessages)
    BY <1>7, ReceivesType
    DEF RecvLteSubscription, RicMessages, SubscriptionDelete, Shutdown
  <2>2. Head(inbox).id \in Ids /\ agent # "storing"
    BY <1>7, <2>1 DEF Subscriptions, RecvLteSubscription, Receives
  <2>3. /\ reports' \in [Ids -> Nat] /\ enabled' \in BOOLEAN
        /\ NoChainBeforeFlag' /\ OneReportChain'
    <3>1. CASE UNCHANGED <<reports, enabled>>
      BY <3>1 DEF ReportingInv, TypeOK, NoChainBeforeFlag, OneReportChain
    <3>2. CASE /\ ~enabled /\ enabled' = TRUE
               /\ reports' = [reports EXCEPT ![Head(inbox).id] = @ + 1]
      BY <2>2, <3>2 DEF ReportingInv, TypeOK, NoChainBeforeFlag, OneReportChain
    <3> QED  BY <1>7, <3>1, <3>2 DEF RecvLteSubscription
  <2> QED  BY <1>7, <2>1, <2>2, <2>3
           DEF RecvLteSubscription, ReportingInv, TypeOK, ConditionsOfIds, WindowHasRoom,
               SubscriptionComesFirst
<1> QED  BY <1>1, <1>2, <1>3, <1>4, <1>5, <1>6, <1>7 DEF E2Thread

\* The simulator thread keeps it so.
LEMMA SimulatorKeepsInv == ReportingInv /\ SimulatorThread => ReportingInv'
<1> SUFFICES ASSUME ReportingInv, SimulatorThread PROVE ReportingInv'
  OBVIOUS
<1> USE DEF shared, simulator
<1>1. CASE CheckReportingFlag
  BY <1>1
  DEF CheckReportingFlag, ReportingInv, TypeOK, WindowHasRoom, NoChainBeforeFlag,
      OneReportChain, SubscriptionComesFirst
<1>2. CASE DecideToReport
  <2>2. PICK prb \in Prbs :
          LET window == Append(history, prb)
          IN  /\ history' = Trimmed(window)
              /\ \/ StartReports /\ ~enabled /\ exit' = exit
                 \/ UNCHANGED <<enabled, reports>>
                      /\ exit' \in {exit, "send", "undefined"}
              /\ checks' = checks + 1
    BY <1>2 DEF DecideToReport, ScheduleCheck
  <2> DEFINE window == Append(history, prb)
  <2>3. /\ window \in Seq(Prbs) /\ window # <<>>
        /\ Len(window) <= MaxPrbHistory
    <3>2. history \in Seq(Prbs) /\ Len(history) < MaxPrbHistory
      BY DEF ReportingInv, TypeOK, WindowHasRoom
    <3> QED  BY <3>2, ReportingAssumption
  <2>4. history' \in Seq(Prbs) /\ Len(history') < MaxPrbHistory
    BY <2>2, <2>3, TrimmedHasRoom
  <2> HIDE DEF window
  <2>5. /\ inbox' = inbox /\ agent' = agent /\ open' = open /\ subMap' = subMap
        /\ params' = params /\ valid' = valid /\ stopped' = stopped
        /\ sampling' = NoCondition /\ device' = device
    BY <1>2 DEF DecideToReport
  <2>6. \/ StartReports /\ ~enabled /\ exit' = exit
        \/ UNCHANGED <<enabled, reports>> /\ exit' \in {exit, "send", "undefined"}
    BY <2>2 DEF window
  <2>10. params \in Ids
    BY <1>2 DEF DecideToReport, ReportingInv, TypeOK, SubscriptionComesFirst
  <2>7. /\ enabled' \in BOOLEAN /\ exit' \in {"no", "send", "undefined"}
        /\ checks' \in Nat /\ reports' \in [Ids -> Nat]
    <3>1. enabled' \in BOOLEAN /\ exit' \in {"no", "send", "undefined"}
      BY <2>6 DEF ReportingInv, TypeOK, StartReports
    <3>2. checks' \in Nat
      BY <2>2 DEF ReportingInv, TypeOK
    <3>3. reports' \in [Ids -> Nat]
      <4>1. reports \in [Ids -> Nat]
        BY DEF ReportingInv, TypeOK
      <4>2. CASE reports' = reports
        BY <4>1, <4>2
      <4>3. CASE reports' = [reports EXCEPT ![params] = @ + 1]
        BY <4>1, <4>3, <2>10
      <4> QED  BY <2>6, <4>2, <4>3 DEF StartReports
    <3> QED  BY <3>1, <3>2, <3>3
  <2>9. NoChainBeforeFlag' /\ OneReportChain'
    BY <2>6, <2>10 DEF ReportingInv, TypeOK, StartReports, NoChainBeforeFlag, OneReportChain, SubscriptionComesFirst
  <2> QED  BY <2>4, <2>5, <2>7, <2>9
           DEF ReportingInv, TypeOK, WindowHasRoom, ConditionsOfIds, SubscriptionComesFirst
<1>3. CASE BuildAndSendReportMessage
  <2>1. /\ reports' \in [Ids -> Nat]
        /\ \A i \in Ids : reports'[i] <= reports[i]
        /\ exit' \in {"no", "send", "undefined"}
    <3>1. reports \in [Ids -> Nat] /\ exit \in {"no", "send", "undefined"}
      BY DEF ReportingInv, TypeOK
    <3>2. PICK id \in Ids : /\ reports[id] > 0
                            /\ \/ reports' = [reports EXCEPT ![id] = @ - 1]
                               \/ reports' = reports
                            /\ exit' \in {exit, "send"}
      BY <1>3 DEF BuildAndSendReportMessage, NextReport
    <3> QED  BY <3>1, <3>2
  <2>2. NoChainBeforeFlag' /\ OneReportChain'
    <3>1. reports \in [Ids -> Nat] /\ NoChainBeforeFlag /\ OneReportChain
      BY DEF ReportingInv, TypeOK
    <3>2. enabled' = enabled
      BY <1>3 DEF BuildAndSendReportMessage
    <3>3. \A i \in Ids : reports[i] \in Nat /\ reports'[i] \in Nat
      BY <2>1, <3>1
    <3>4. NoChainBeforeFlag'
      BY <2>1, <3>1, <3>2, <3>3 DEF NoChainBeforeFlag
    <3>5. OneReportChain'
      <4> SUFFICES ASSUME NEW i \in Ids, NEW j \in Ids, reports'[i] > 0, reports'[j] > 0
                   PROVE  i = j /\ reports'[i] = 1
        BY DEF OneReportChain
      <4>1. reports[i] > 0 /\ reports[j] > 0 /\ reports'[i] <= reports[i]
        BY <2>1, <3>3
      <4>2. i = j /\ reports[i] = 1
        BY <3>1, <4>1 DEF OneReportChain
      <4> QED  BY <3>3, <4>1, <4>2
    <3> QED  BY <3>4, <3>5
  <2> QED  BY <1>3, <2>1, <2>2
           DEF BuildAndSendReportMessage, ReportingInv, TypeOK, WindowHasRoom,
               SubscriptionComesFirst
<1> QED  BY <1>1, <1>2, <1>3 DEF SimulatorThread

\* Every reachable state is in order.
THEOREM ReportingInvariant == Spec => []ReportingInv
<1>1. ReportingInv /\ [Next]_vars => ReportingInv'
  <2> SUFFICES ASSUME ReportingInv, [Next]_vars PROVE ReportingInv'
    OBVIOUS
  <2>1. CASE Next
    BY <2>1, E2ThreadKeepsInv, SimulatorKeepsInv DEF Next
  <2>2. CASE UNCHANGED vars
    BY <2>2 DEF vars, shared, simulator, ReportingInv, TypeOK, WindowHasRoom,
                NoChainBeforeFlag, OneReportChain, SubscriptionComesFirst
  <2> QED  BY <2>1, <2>2
<1> QED  BY <1>1, InitReporting, PTL DEF Spec

\* Every field keeps its type.
THEOREM ReportingTypeCorrect == Spec => []TypeOK
BY ReportingInvariant, PTL DEF ReportingInv

\* However many subscriptions arrive, one chain of reports runs at most.
THEOREM OneChain == Spec => []OneReportChain
BY ReportingInvariant, PTL DEF ReportingInv

\* The window never outgrows MaxPrbHistory, so it goes on yielding averages.
THEOREM RoomInWindow == Spec => []WindowHasRoom
BY ReportingInvariant, PTL DEF ReportingInv

\* After a stop no chain of reports begins.
THEOREM NoChainAfterStop == Spec => ChainsDieAfterStop
<1> DEFINE Dies == stopped => \A i \in Ids : reports'[i] <= reports[i]
<1>1. ReportingInv /\ [Next]_vars => [Dies]_vars
  <2> SUFFICES ASSUME ReportingInv, Next, stopped, NEW i \in Ids
               PROVE  reports'[i] <= reports[i]
    BY DEF vars, shared, simulator
  <2>1. reports \in [Ids -> Nat]
    BY DEF ReportingInv, TypeOK
  <2>2. CASE reports' = reports
    BY <2>1, <2>2
  <2>3. CASE DecideToReport
    <3>1. StartReports \/ reports' = reports
      BY <2>3 DEF DecideToReport
    <3> QED  BY <2>1, <3>1 DEF StartReports
  <2>4. CASE BuildAndSendReportMessage
    <3>1. PICK id \in Ids : reports' = [reports EXCEPT ![id] = @ - 1] \/ reports' = reports
      BY <2>4 DEF BuildAndSendReportMessage, NextReport
    <3> QED  BY <2>1, <3>1
  <2>5. E2Thread \/ CheckReportingFlag => reports' = reports
    BY DEF RecvLteSubscription, E2Thread, RecvSubscription, ValidateSubscription, StartPrbMonitoring,
           RecvSubscriptionDelete, CloseConnection, RecvShutdown,
           CheckReportingFlag, shared, simulator
  <2> QED  BY <2>2, <2>3, <2>4, <2>5 DEF Next, SimulatorThread
<1> QED  BY <1>1, ReportingInvariant, PTL DEF Spec, ChainsDieAfterStop
=============================================================================
