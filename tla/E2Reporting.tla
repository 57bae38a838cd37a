---------------------------- MODULE E2Reporting ----------------------------
(***************************************************************************)
(* KPM reporting of one cell.  Two threads share the fields of its net     *)
(* device without a lock: the E2 thread runs E2Sim::run_loop and, in it,   *)
(* the callbacks of the RIC's requests; the simulator thread runs the      *)
(* scheduled events.  In a mmWave cell CheckReportingFlag samples the PRB  *)
(* usage and compares its average with the condition of the subscription,  *)
(* before BuildAndSendReportMessage sends the indications.  The LTE cell   *)
(* sends the first ones from the callback, whatever the condition.         *)
(*                                                                         *)
(* A callback of the E2 thread is cut where it changes a field that the    *)
(* simulator thread reads.  An event of the simulator thread is one step,  *)
(* but for CheckReportingFlag, which reads the condition before it walks   *)
(* over the UEs and the rest after it.  The model starts after E2 Setup.   *)
(***************************************************************************)
EXTENDS Integers, Sequences

CONSTANTS
    Ids,            \* RIC request identifiers of the subscriptions
    Scripts,        \* what the RIC may send, in order, on its association
    Prbs,           \* the values that a sample of the PRB usage may take
    MaxPrbHistory   \* MAX_PRB_HISTORY, 10 in the code

NoId == 0
Devices == {"MmWaveEnbNetDevice", "LteEnbNetDevice"}

(***************************************************************************)
(* Messages of the RIC.  The test condition is an index into               *)
(* MATH_CALL_BACKS, which holds equal, greaterThan and lessThan; KPM also  *)
(* defines contains and present.                                           *)
(***************************************************************************)
TestConditions == 0 .. 4
MathCallBacks == 0 .. 2

Subscribe(id, index, threshold, format4) ==
    [type |-> "subscribe", id |-> id, index |-> index, threshold |-> threshold,
     format4 |-> format4]
SubscriptionDelete == [type |-> "delete"]
Shutdown == [type |-> "shutdown"]

Subscriptions ==
    [type : {"subscribe"}, id : Ids, index : TestConditions, threshold : Int,
     format4 : BOOLEAN]
RicMessages == Subscriptions \cup {SubscriptionDelete, Shutdown}

ASSUME ReportingAssumption ==
    /\ Ids \subseteq Nat \ {NoId}
    /\ Scripts \subseteq Seq(RicMessages)
    /\ Prbs \subseteq 0 .. 100
    /\ MaxPrbHistory \in Nat \ {0}

VARIABLES
    device,     \* the net device of the cell
    \* ---- E2 thread
    inbox,      \* what the RIC sends and the E2 thread has not received
    agent,      \* where run_loop is
    open,       \* client_fd is open
    \* ---- fields shared by the two threads
    subMap,     \* E2Termination: the condition of the last subscription
    params,     \* m_lastSubscriptionParams, as its request identifier
    valid,      \* m_hasValidSubscription
    stopped,    \* m_stopSendingMessages
    history,    \* m_prbHistory
    \* ---- simulator thread
    sampling,   \* the condition CheckReportingFlag read, while it samples
    enabled,    \* m_isReportingEnabled (and m_is_reported, set together)
    checks,     \* scheduled CheckReportingFlag events
    reports,    \* scheduled BuildAndSendReportMessage events, by identifier
    \* ---- the process
    exit        \* why the process ended

shared == <<subMap, params, valid, stopped, history>>
simulator == <<sampling, enabled, checks, reports>>
vars == <<device, inbox, agent, open, shared, simulator, exit>>

NoCondition == [id |-> NoId]

Init ==
    /\ device \in Devices
    /\ inbox \in Scripts
    /\ agent = "receiving"
    /\ open = TRUE
    /\ subMap = NoCondition
    /\ params = NoId
    /\ valid = FALSE
    /\ stopped = FALSE
    /\ history = <<>>
    /\ sampling = NoCondition
    /\ enabled = FALSE
    /\ checks = 0
    /\ reports = [i \in Ids |-> 0]
    /\ exit = "no"

-----------------------------------------------------------------------------
(***************************************************************************)
(* The E2 thread                                                           *)
(***************************************************************************)
Receives(type) ==
    /\ agent = "receiving"
    /\ inbox # <<>>
    /\ Head(inbox).type = type
    /\ inbox' = Tail(inbox)

\* KpmSubscriptionCallback: ProcessRicSubscriptionRequest fills the map.
RecvSubscription ==
    /\ device = "MmWaveEnbNetDevice"
    /\ Receives("subscribe")
    /\ subMap' = Head(inbox)
    /\ agent' = "storing"
    /\ UNCHANGED <<device, open, params, valid, stopped, history, simulator, exit>>

\* Mutant: the parameters of the request are not stored.
FlagOnly ==
    /\ params' = params
    /\ valid' = TRUE

StoreSubscription ==
    /\ params' = subMap.id
    /\ valid' = TRUE

\* The parameters are stored before the subscription is looked at.
ValidateSubscription ==
    /\ agent = "storing"
    /\ StoreSubscription
    /\ agent' = IF subMap.index \in MathCallBacks /\ subMap.format4
                THEN "starting" ELSE "receiving"
    /\ UNCHANGED <<device, inbox, open, subMap, stopped, history, simulator, exit>>

(***************************************************************************)
(* m_prbHistory.clear() and the first check.  A clear that races with the  *)
(* push_back of the simulator thread may be lost; one that races with its  *)
(* erase may leave a vector that ends before it begins.                    *)
(***************************************************************************)
StartPrbMonitoring ==
    /\ agent = "starting"
    /\ \/ history' = <<>> /\ exit' = exit
       \/ sampling # NoCondition /\ history' = history /\ exit' = exit
       \/ sampling # NoCondition /\ history' = history /\ exit' = "undefined"
    /\ checks' = IF stopped THEN checks ELSE checks + 1
    /\ agent' = "receiving"
    /\ UNCHANGED <<device, inbox, open, subMap, params, valid, stopped, sampling,
                   enabled, reports>>

(***************************************************************************)
(* KpmSubscriptionCallback of the LTE cell, which calls                    *)
(* BuildAndSendReportMessage; the flag is set when the first report is     *)
(* sent.                                                                   *)
(***************************************************************************)
RecvLteSubscription ==
    /\ device = "LteEnbNetDevice"
    /\ Receives("subscribe")
    /\ subMap' = Head(inbox)
    /\ \/ /\ ~stopped /\ ~enabled
          /\ reports' = [reports EXCEPT ![Head(inbox).id] = @ + 1]
          /\ enabled' = TRUE
       \/ /\ stopped \/ enabled
          /\ UNCHANGED <<reports, enabled>>
    /\ UNCHANGED <<device, agent, open, params, valid, stopped, history, sampling, checks,
                   exit>>

\* stopSendingAndCancelSchedule, for whichever subscription is deleted
RecvSubscriptionDelete ==
    /\ Receives("delete")
    /\ stopped' = TRUE
    /\ agent' = "deleting"
    /\ UNCHANGED <<device, open, subMap, params, valid, history, simulator, exit>>

\* The response, and the end of run_loop
CloseConnection ==
    /\ agent = "deleting"
    /\ open' = FALSE
    /\ agent' = "ended"
    /\ UNCHANGED <<device, inbox, shared, simulator, exit>>

\* The RIC closes the association: recv returns 0.
RecvShutdown ==
    /\ Receives("shutdown")
    /\ open' = FALSE
    /\ agent' = "ended"
    /\ UNCHANGED <<device, shared, simulator, exit>>

-----------------------------------------------------------------------------
(***************************************************************************)
(* The simulator thread                                                    *)
(***************************************************************************)
Total(window) ==
    LET sum[n \in 0 .. Len(window)] ==
            IF n = 0 THEN 0 ELSE sum[n - 1] + window[n]
    IN  sum[Len(window)]

\* The average becomes an int when MATH_CALL_BACKS compares it; an index out
\* of range is undefined behaviour, here a crash or any outcome.
Outcomes(condition, window) ==
    LET average == Total(window) \div MaxPrbHistory
    IN  CASE condition.index = 0 -> {average = condition.threshold}
          [] condition.index = 1 -> {average > condition.threshold}
          [] condition.index = 2 -> {average < condition.threshold}
          [] OTHER -> BOOLEAN

\* CheckReportingFlag, up to the call of CalculatePrbAverage
CheckReportingFlag ==
    /\ sampling = NoCondition
    /\ checks > 0
    /\ \/ /\ ~stopped /\ valid
          /\ sampling' = subMap
       \/ /\ stopped \/ ~valid
          /\ sampling' = sampling
    /\ checks' = checks - 1
    /\ UNCHANGED <<device, inbox, agent, open, shared, enabled, reports, exit>>

\* Mutant: there is nothing to check any more once the reports run.
CheckUntilReporting(window) == checks' = IF enabled THEN checks ELSE checks + 1

ScheduleCheck(window) == checks' = checks + 1

\* Mutant: the oldest sample stays.
WholeWindow(window) == window

\* The oldest value leaves a full window.
Trimmed(window) == IF Len(window) = MaxPrbHistory THEN Tail(window) ELSE window

\* Mutant: the reports are started again and again.
StartWithoutFlag ==
    /\ enabled' = enabled
    /\ reports' = IF stopped THEN reports ELSE [reports EXCEPT ![params] = @ + 1]

\* Mutant: the stop was looked at when the check began.
StartWithoutStop ==
    /\ enabled' = TRUE
    /\ reports' = [reports EXCEPT ![params] = @ + 1]

\* The first report, sent from the check, and the chain of the later ones
StartReports ==
    /\ enabled' = TRUE
    /\ reports' = IF stopped THEN reports ELSE [reports EXCEPT ![params] = @ + 1]

(***************************************************************************)
(* CheckReportingFlag, from the new sample on.  Sending on a closed socket *)
(* ends the process (sctp_send_data calls exit).                           *)
(***************************************************************************)
DecideToReport ==
    /\ sampling # NoCondition
    /\ \E prb \in Prbs :
        LET window == Append(history, prb)
            full == Len(window) = MaxPrbHistory
        IN  /\ history' = Trimmed(window)
            /\ \/ /\ full /\ ~enabled /\ TRUE \in Outcomes(sampling, window)
                  /\ IF open
                     THEN StartReports /\ exit' = exit
                     ELSE exit' = "send" /\ UNCHANGED <<enabled, reports>>
               \/ /\ full => enabled \/ FALSE \in Outcomes(sampling, window)
                  /\ UNCHANGED <<enabled, reports, exit>>
               \/ /\ full /\ sampling.index \notin MathCallBacks
                  /\ exit' = "undefined"
                  /\ UNCHANGED <<enabled, reports>>
            /\ ScheduleCheck(window)
    /\ sampling' = NoCondition
    /\ UNCHANGED <<device, inbox, agent, open, subMap, params, valid, stopped>>

\* After the indications are sent, the next report, unless told to stop
NextReport(id) ==
    reports' = IF stopped THEN [reports EXCEPT ![id] = @ - 1] ELSE reports

BuildAndSendReportMessage ==
    /\ sampling = NoCondition
    /\ \E id \in Ids :
        /\ reports[id] > 0
        /\ IF open
           THEN NextReport(id) /\ exit' = exit
           ELSE exit' = "send" /\ UNCHANGED reports
    /\ UNCHANGED <<device, inbox, agent, open, shared, sampling, enabled, checks>>

-----------------------------------------------------------------------------
E2Thread ==
    \/ RecvSubscription
    \/ RecvLteSubscription
    \/ ValidateSubscription
    \/ StartPrbMonitoring
    \/ RecvSubscriptionDelete
    \/ CloseConnection
    \/ RecvShutdown

SimulatorThread ==
    \/ CheckReportingFlag
    \/ DecideToReport
    \/ BuildAndSendReportMessage

Next ==
    /\ exit = "no"
    /\ E2Thread \/ SimulatorThread

Spec == Init /\ [][Next]_vars

(***************************************************************************)
(* A callback that began goes on, and the simulator runs every event: two  *)
(* kinds of events are scheduled again and again, each is fair.            *)
(***************************************************************************)
Fairness ==
    /\ WF_vars(exit = "no" /\ (ValidateSubscription \/ StartPrbMonitoring
                                \/ CloseConnection))
    /\ WF_vars(exit = "no" /\ DecideToReport)
    /\ SF_vars(exit = "no" /\ CheckReportingFlag)
    /\ SF_vars(exit = "no" /\ BuildAndSendReportMessage)

FairSpec == Spec /\ Fairness
-----------------------------------------------------------------------------
(***************************************************************************)
(* Properties                                                              *)
(***************************************************************************)
ConditionsOfIds == Subscriptions \cup {NoCondition}

\* Every field of the net device and of E2Sim holds a value of its type;
\* the flag of a valid subscription is only set when its parameters are there.
TypeOK ==
    /\ device \in Devices
    /\ inbox \in Seq(RicMessages)
    /\ agent \in {"receiving", "storing", "starting", "deleting", "ended"}
    /\ open \in BOOLEAN /\ valid \in BOOLEAN /\ stopped \in BOOLEAN
    /\ subMap \in ConditionsOfIds /\ sampling \in ConditionsOfIds
    /\ params \in Ids \cup {NoId} /\ (valid => params \in Ids)
    /\ history \in Seq(Prbs)
    /\ enabled \in BOOLEAN
    /\ checks \in Nat
    /\ reports \in [Ids -> Nat]
    /\ exit \in {"no", "send", "undefined"}

\* At most one chain of reports runs, however many subscriptions arrive and
\* however their checks interleave.
OneReportChain ==
    \A i, j \in Ids :
        reports[i] > 0 /\ reports[j] > 0 => i = j /\ reports[i] = 1

\* Between two checks the window has room for the next sample: were it ever to
\* outgrow MAX_PRB_HISTORY, no average would be taken again.
WindowHasRoom == Len(history) < MaxPrbHistory

\* Once a subscription was deleted no chain of reports begins, not even from a
\* check that was under way, having found nothing to stop it, when the request
\* came.
ChainsDieAfterStop ==
    [][stopped => \A i \in Ids : reports'[i] <= reports[i]]_vars

\* The checks that a subscription starts go on until the window is full, after
\* every clearing of it, unless the reporting is stopped or the process ends.
WindowFills ==
    checks > 0 ~> (Len(history) = MaxPrbHistory - 1 \/ stopped \/ exit # "no")
=============================================================================
