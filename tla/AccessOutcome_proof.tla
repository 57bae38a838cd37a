------------------------ MODULE AccessOutcome_proof ------------------------
(***************************************************************************)
(* How the set-up of a dual connection ends: without an assertion, and     *)
(* complete.  On the invariants of InitialAccess_proof.                    *)
(***************************************************************************)
EXTENDS InitialAccess_proof

-----------------------------------------------------------------------------
(***************************************************************************)
(* The assertions.  A context that exists was created by a preamble, and a *)
(* context that reconfigures the UE for split bearers has some.            *)
(***************************************************************************)
HasSplit(x) == x.state = "MC_CONNECTION_RECONFIGURATION" => x.mcDrbs # {}

Continues(old, new) ==
    /\ new.state # "NONE" => old.state # "NONE"
    /\ HasSplit(old) => HasSplit(new)

ContextsContinue ==
    \A c \in Nodes, r \in Rntis : Continues(ctx[c][r], ctx'[c][r])

\* One context is replaced by one that continues it.
LEMMA ContinuesOne ==
    ASSUME Typed, NEW c \in Nodes, NEW r \in Rntis, NEW x \in Contexts,
           ctx' = [ctx EXCEPT ![c][r] = x], Continues(ctx[c][r], x)
    PROVE  ContextsContinue
  <1>1. \A d \in Nodes, s \in Rntis :
            ctx'[d][s] = IF d = c /\ s = r THEN x ELSE ctx[d][s]
    BY ContextSet DEF Typed
  <1> QED
    BY <1>1 DEF ContextsContinue, Continues

\* No context changes.
LEMMA ContinuesSame ==
    ASSUME ctx' = ctx
    PROVE  ContextsContinue
  BY DEF ContextsContinue, Continues

\* A context may end, or go on; only a preamble creates one.
LEMMA ContinuesCellStep ==
    ASSUME Typed, Attachment, NEW k \in Legs,
           RecvRrcConnectionRequest(k) \/ RecvRrcConnectionSetupCompleted(k)
    PROVE  ContextsContinue /\ lastRnti' = lastRnti
  <1>0. CellsTyped /\ AirTyped /\ LegInv(k)
    BY DEF Typed, Attachment
  <1>1. CASE RecvRrcConnectionRequest(k)
    <2>1. CASE ContextOf(k).state # "INITIAL_RANDOM_ACCESS"
      BY <1>1, <2>1, ContinuesSame DEF RecvRrcConnectionRequest, Stop, contexts
    <2>2. CASE ContextOf(k).state = "INITIAL_RANDOM_ACCESS"
      <3>1. PICK st :
                /\ ctx' = WithContext(k, [ContextOf(k) EXCEPT !.state = st])
                /\ st \in {"CONNECTION_SETUP", "CONNECTION_REJECTED"}
                /\ up[k] # <<>> /\ lastRnti' = lastRnti
        BY <1>1, <2>2 DEF RecvRrcConnectionRequest, ArrivesUp
      <3>2. PICK c, r, x : c = ue[k].cell /\ r = ue[k].rnti /\ x = [ContextOf(k) EXCEPT !.state = st]
        OBVIOUS
      <3>3. /\ c \in Nodes /\ r \in Rntis /\ ContextOf(k) \in Contexts
            /\ ContextOf(k) = ctx[c][r]
        BY <1>0, <3>1, <3>2, LegLocated, SenderIsAttached DEF ContextOf
      <3>4. x \in Contexts /\ x.state = st
        BY <3>1, <3>2, <3>3 DEF Contexts, UeStates
      <3>5. Continues(ctx[c][r], x)
        BY <2>2, <3>1, <3>3, <3>4 DEF Continues, HasSplit
      <3>6. ctx' = [ctx EXCEPT ![c][r] = x]
        BY <3>1, <3>2 DEF WithContext
      <3> QED
        BY <3>1, <3>3, <3>4, <3>5, <3>6, ContinuesOne
    <2> QED
      BY <2>1, <2>2
  <1>2. CASE RecvRrcConnectionSetupCompleted(k)
    <2>1. CASE ContextOf(k).state # "CONNECTION_SETUP"
      BY <1>2, <2>1, ContinuesSame DEF RecvRrcConnectionSetupCompleted, Stop, contexts
    <2>2. CASE ContextOf(k).state = "CONNECTION_SETUP"
      <3> DEFINE w == [ContextOf(k) EXCEPT !.pendingConnect = (k = "lte")]
                 good == w.pendingConnect /\ sinr[best] > OutageThreshold
                 outage == w.pendingConnect /\ ~good
      <3>0. PICK c, r, x : c = ue[k].cell /\ r = ue[k].rnti /\ x = Normally(w, outage)
        OBVIOUS
      <3>1. /\ ctx' = WithContext(k, x)
            /\ up[k] # <<>> /\ lastRnti' = lastRnti
        BY <1>2, <2>2, <3>0
           DEF RecvRrcConnectionSetupCompleted, ArrivesUp, ConnectedNormally, Normally
      <3>2. /\ c \in Nodes /\ r \in Rntis /\ ContextOf(k) \in Contexts
            /\ ContextOf(k) = ctx[c][r]
        BY <1>0, <3>0, <3>1, LegLocated, SenderIsAttached DEF ContextOf
      <3>3. w \in Contexts /\ w.pendingConnect \in BOOLEAN
        BY <3>2 DEF Contexts
      <3>4. outage \in BOOLEAN
        BY <3>3
      <3> HIDE DEF w, outage
      <3>5. /\ x \in Contexts
            /\ x.state \in {"CONNECTED_NORMALLY", "CONNECTION_RECONFIGURATION"}
        BY <3>0, <3>3, <3>4, NormallyIs
      <3>6. Continues(ctx[c][r], x)
        BY <2>2, <3>2, <3>5 DEF Continues, HasSplit
      <3>7. ctx' = [ctx EXCEPT ![c][r] = x]
        BY <3>0, <3>1 DEF WithContext
      <3> QED
        BY <3>1, <3>2, <3>5, <3>6, <3>7, ContinuesOne
    <2> QED
      BY <2>1, <2>2
  <1> QED
    BY <1>1, <1>2

\* The same for the steps that set up bearers.
LEMMA ContinuesBearers ==
    ASSUME Typed, Attachment, BearersStep
    PROVE  ContextsContinue /\ lastRnti' = lastRnti
  <1>0. CellsTyped /\ AirTyped /\ LteCell \in Nodes /\ Legs = {"lte", "mm"}
    BY DEF Typed, Nodes, Legs
  <1>1. CASE InitialContextSetup
    <2>1. PICK r, x : r = rntiOf[LteCell] /\ x = ctx[LteCell][r]
      OBVIOUS
    <2>2. CASE x.state \in {"NONE", "CONNECTION_REJECTED", "MC_CONNECTION_RECONFIGURATION"}
      BY <1>1, <2>1, <2>2, ContinuesSame DEF InitialContextSetup, Stop, contexts
    <2>3. CASE x.state \notin {"NONE", "CONNECTION_REJECTED",
                               "MC_CONNECTION_RECONFIGURATION"}
      <3> DEFINE now == x.state = "CONNECTED_NORMALLY"
                 y == [x EXCEPT !.drbs = Drbs, !.pendingReconf = ~now \/ Drbs # {FirstDrb},
                          !.state = IF now THEN "CONNECTION_RECONFIGURATION" ELSE @]
      <3>1. ctx' = [ctx EXCEPT ![LteCell][r] = y] /\ s1 /\ lastRnti' = lastRnti
        BY <1>1, <2>1, <2>3 DEF InitialContextSetup
      <3>3. r = ue["lte"].rnti /\ ue["lte"].state \in Attached /\ LegInv("lte")
        BY <1>0, <2>1, <3>1 DEF Attachment, ContextAsked
      <3>4. r \in Rntis /\ x \in Contexts
        BY <1>0, <2>1, <3>3, LegLocated DEF CellsTyped
      <3>5. y \in Contexts /\ y.state \in {x.state, "CONNECTION_RECONFIGURATION"}
        BY <3>4 DEF Contexts, UeStates
      <3>6. Continues(x, y)
        BY <2>3, <3>5 DEF Continues, HasSplit
      <3> HIDE DEF y, now
      <3> QED
        BY <1>0, <2>1, <3>1, <3>4, <3>5, <3>6, ContinuesOne
    <2> QED
      BY <2>2, <2>3
  <1>2. CASE RecvSecondaryCellConnected
    <2>1. CASE ContextOf("lte").state = "NONE"
      BY <1>2, <2>1, ContinuesSame DEF RecvSecondaryCellConnected, Stop, contexts
    <2>2. CASE ContextOf("lte").state # "NONE"
      <3>1. PICK m, y, r : m = Head(up["lte"]) /\ y = ContextOf("lte") /\ r = ue["lte"].rnti
        OBVIOUS
      <3> DEFINE x == [y EXCEPT !.mmCell = m.cell, !.mmRnti = m.rnti,
                                !.available = @ \/ y.drbs = {}]
      <3>2. /\ ctx' = WithContext("lte", x)
            /\ up' = TakenUp("lte") /\ up["lte"] # <<>>
            /\ m.type = "SecondaryCellConnected" /\ lastRnti' = lastRnti
        BY <1>2, <2>2, <3>1 DEF RecvSecondaryCellConnected, ArrivesUp
      <3>3. /\ Connected("lte") /\ up'["lte"] = Tail(up["lte"])
        BY <3>1, <3>2, TakesFromConnected
      <3>4. /\ r \in Rntis /\ y \in Contexts /\ y = ctx[LteCell][r]
            /\ ue["lte"].cell = LteCell
        BY <3>1, <3>3, LteContextIs DEF Connected
      <3>5. /\ m \in Items(up["lte"]) /\ m.cell \in SomeCell /\ m.rnti \in SomeRnti
        BY <1>0, <3>1, <3>2, <3>3, ItemsTail, TypedSent, FieldTypes DEF AirTyped
      <3>7. x \in Contexts /\ x.state = y.state /\ x.mcDrbs = y.mcDrbs
        BY <3>4, <3>5 DEF Contexts, SomeCell, SomeRnti
      <3>8. ctx' = [ctx EXCEPT ![LteCell][r] = x]
        BY <3>1, <3>2, <3>4 DEF WithContext
      <3> HIDE DEF x
      <3>9. Continues(y, x)
        BY <3>7 DEF Continues, HasSplit
      <3> QED
        BY <1>0, <3>2, <3>4, <3>7, <3>8, <3>9, ContinuesOne
    <2> QED
      BY <2>1, <2>2
  <1>3. CASE RecvReconfigurationCompleted
    <2>1. PICK x, r : x = ContextOf("lte") /\ r = ue["lte"].rnti
      OBVIOUS
    <2>2. CASE x.state \notin ConnectedStates
      BY <1>3, <2>1, <2>2, ContinuesSame DEF RecvReconfigurationCompleted, Stop, contexts
    <2>3. CASE x.state \in ConnectedStates
      <3>1. /\ up' = TakenUp("lte") /\ up["lte"] # <<>>
            /\ Head(up["lte"]).type = "ReconfCompleted" /\ lastRnti' = lastRnti
        BY <1>3, <2>1, <2>3 DEF RecvReconfigurationCompleted, ArrivesUp
      <3>2. Connected("lte") /\ up'["lte"] = Tail(up["lte"])
        BY <3>1, TakesFromConnected
      <3>4. /\ r \in Rntis /\ x \in Contexts /\ x = ctx[LteCell][r] /\ Bare(x)
            /\ ue["lte"].cell = LteCell
        BY <2>1, <3>2, LteContextIs
      <3>5. CASE x.state = "CONNECTED_NORMALLY"
        BY <1>3, <2>1, <2>3, <3>1, <3>5, ContinuesSame DEF RecvReconfigurationCompleted
      <3>6. CASE x.state # "CONNECTED_NORMALLY"
        <4>1. PICK onLte : ConnectedNormally("lte", x, onLte)
          BY <1>3, <2>1, <2>3, <3>6 DEF RecvReconfigurationCompleted
        <4> DEFINE good == x.pendingConnect /\ sinr[best] > OutageThreshold
                   outage == x.pendingConnect /\ ~good
        <4>2. PICK y : ctx' = WithContext("lte", y) /\ y = Normally(x, outage)
          BY <4>1 DEF ConnectedNormally, Normally
        <4>3. outage \in BOOLEAN
          BY <3>4 DEF Bare
        <4> HIDE DEF outage
        <4>4. /\ y \in Contexts
              /\ y.state \in {"CONNECTED_NORMALLY", "CONNECTION_RECONFIGURATION"}
          BY <3>4, <4>2, <4>3, NormallyIs
        <4>5. ctx' = [ctx EXCEPT ![LteCell][r] = y]
          BY <2>1, <3>4, <4>2 DEF WithContext
        <4>6. Continues(x, y)
          BY <2>3, <4>4 DEF Continues, HasSplit, ConnectedStates
        <4> QED
          BY <1>0, <3>1, <3>4, <4>4, <4>5, <4>6, ContinuesOne
      <3> QED
        BY <3>5, <3>6
    <2> QED
      BY <2>2, <2>3
  <1> QED
    BY <1>1, <1>2, <1>3 DEF BearersStep

\* The same for the steps on the X2 links.
LEMMA ContinuesX2 ==
    ASSUME Typed, Attachment, NEW c \in Cells, X2Step(c)
    PROVE  ContextsContinue /\ lastRnti' = lastRnti
  <1>0. CellsTyped /\ AirTyped /\ LteCell \in Nodes /\ c \in Nodes
    BY DEF Typed, Nodes
  <1>1. CASE RecvRlcSetupRequest(c)
    <2>1. PICK m : m = Head(x2[<<LteCell, c>>])
      OBVIOUS
    <2>2. CASE ~Known(c, m.rnti)
      BY <1>1, <2>1, <2>2, ContinuesSame DEF RecvRlcSetupRequest, Stop, contexts
    <2>3. CASE Known(c, m.rnti)
      <3>1. /\ ctx' = [ctx EXCEPT ![c][m.rnti].rlc = @ \cup {m.drb}]
            /\ Arrives(x2, LteCell, c, "RlcSetupRequest") /\ lastRnti' = lastRnti
        BY <1>1, <2>1, <2>3 DEF RecvRlcSetupRequest
      <3>2. m \in LinkMessages /\ m.type = "RlcSetupRequest"
        BY <1>0, <2>1, <3>1, TypedSent
      <3>3. m.drb \in Drbs /\ m.rnti \in Rntis
        BY <2>3, <3>2, FieldTypes DEF Known, SomeRnti
      <3>4. ctx[c][m.rnti] \in Contexts
        BY <1>0, <3>3 DEF CellsTyped
      <3> DEFINE x == [ctx[c][m.rnti] EXCEPT !.rlc = @ \cup {m.drb}]
      <3>5. /\ x \in Contexts /\ x.state = ctx[c][m.rnti].state
            /\ x.mcDrbs = ctx[c][m.rnti].mcDrbs
        BY <3>3, <3>4 DEF Contexts
      <3>6. ctx' = [ctx EXCEPT ![c][m.rnti] = x]
        BY <3>1
      <3> HIDE DEF x
      <3>7. Continues(ctx[c][m.rnti], x)
        BY <3>5 DEF Continues, HasSplit
      <3> QED
        BY <1>0, <3>1, <3>3, <3>5, <3>6, <3>7, ContinuesOne
    <2> QED
      BY <2>2, <2>3
  <1>2. CASE RecvRlcSetupCompleted(c)
    <2>1. PICK d, r : d = Head(x2[<<c, LteCell>>]).drb /\ r = rntiOf[LteCell]
      OBVIOUS
    <2> DEFINE x == [ctx[LteCell][r] EXCEPT !.mcDrbs = @ \cup {d}, !.pendingReconf = FALSE,
                                            !.state = "MC_CONNECTION_RECONFIGURATION"]
    <2>2. CASE ~Known(LteCell, r) \/ d \notin x.drbs
      BY <1>2, <2>1, <2>2, ContinuesSame DEF RecvRlcSetupCompleted, Stop, contexts
    <2>3. CASE ~(~Known(LteCell, r) \/ d \notin x.drbs)
      <3>1. /\ ctx' = [ctx EXCEPT ![LteCell][r] = x]
            /\ Arrives(x2, c, LteCell, "RlcSetupCompleted") /\ lastRnti' = lastRnti
        BY <1>2, <2>1, <2>3 DEF RecvRlcSetupCompleted
      <3>2. d \in Drbs
        BY <1>0, <2>1, <3>1, TypedSent, FieldTypes
      <3>3. r \in Rntis /\ ctx[LteCell][r] \in Contexts
        BY <2>1, <3>1, OnALink, LteContextIs
      <3>4. x \in Contexts /\ d \in x.mcDrbs
        BY <3>2, <3>3 DEF Contexts, UeStates
      <3> HIDE DEF x
      <3>5. ctx[LteCell][r].state # "NONE"
        BY <2>3 DEF Known
      <3>6. Continues(ctx[LteCell][r], x)
        BY <3>4, <3>5 DEF Continues, HasSplit
      <3> QED
        BY <1>0, <3>1, <3>3, <3>4, <3>6, ContinuesOne
    <2> QED
      BY <2>2, <2>3
  <1>3. CASE RecvConnectionSwitchToMmWave(c)
    <2>1. UNCHANGED <<ctx, lastRnti>>
      BY <1>3 DEF RecvConnectionSwitchToMmWave, Stop, contexts
    <2> QED
      BY <2>1, ContinuesSame
  <1> QED
    BY <1>1, <1>2, <1>3 DEF X2Step

\* The same for the timers and for the decision of the coordinator.
LEMMA ContinuesOther ==
    ASSUME Typed, Expire \/ TriggerUeAssociationUpdate
    PROVE  ContextsContinue /\ lastRnti' = lastRnti
  <1>0. CellsTyped /\ LteCell \in Nodes
    BY DEF Typed, Nodes
  <1>1. ASSUME NEW c \in Nodes, NEW r \in Rntis, RemoveUe(c, r)
        PROVE  ContextsContinue /\ lastRnti' = lastRnti
    <2>1. NoContext \in Contexts /\ Continues(ctx[c][r], NoContext)
      BY ContextFields DEF NoContext, Continues, HasSplit
    <2> QED
      BY <1>1, <2>1, ContinuesOne DEF RemoveUe
  <1>2. CASE Expire
    BY <1>1, <1>2 DEF Expire, ConnectionRequestTimeout, ConnectionSetupTimeout,
                      ConnectionRejectedTimeout
  <1>3. CASE TriggerUeAssociationUpdate
    <2>1. lastRnti' = lastRnti
      BY <1>3 DEF TriggerUeAssociationUpdate, Stop, contexts
    <2>2. CASE ctx' = ctx
      BY <2>1, <2>2, ContinuesSame
    <2>3. CASE ctx' # ctx
      <3>1. ~(LooksUpUe /\ ~Known(LteCell, rntiOf[LteCell])) /\ (SwitchToLte \/ SelectBest)
        BY <1>3, <2>3 DEF TriggerUeAssociationUpdate, Stop, contexts
      <3>2. PICK r, x : r = rntiOf[LteCell] /\ x = ctx[LteCell][r]
        OBVIOUS
      <3>3. /\ Mode = "Ttt" /\ associated /\ usingLte
            /\ ctx' = [ctx EXCEPT ![LteCell][r] = EndOutage(@)]
        BY <2>3, <3>1, <3>2 DEF SwitchToLte, SelectBest
      <3>4. r \in Rntis /\ x \in Contexts
        BY <1>0, <3>1, <3>2, <3>3 DEF LooksUpUe, Known, CellsTyped, SomeRnti
      <3> DEFINE y == EndOutage(x)
      <3>5. y \in Contexts /\ y.state = x.state /\ y.mcDrbs = x.mcDrbs
        BY <3>4 DEF EndOutage, Contexts
      <3>6. ctx' = [ctx EXCEPT ![LteCell][r] = y]
        BY <3>2, <3>3
      <3> HIDE DEF y
      <3>7. Continues(x, y)
        BY <3>5 DEF Continues, HasSplit
      <3> QED
        BY <1>0, <2>1, <3>2, <3>4, <3>5, <3>6, <3>7, ContinuesOne
    <2> QED
      BY <2>2, <2>3
  <1> QED
    BY <1>2, <1>3

\* Only a preamble creates a context, and gives out an RNTI.
LEMMA ContinuesStep ==
    ASSUME Typed, Attachment, [Next]_vars, \A k \in Legs : ~AllocateTemporaryCellRnti(k)
    PROVE  ContextsContinue /\ lastRnti' = lastRnti
  <1>1. CASE Next
    <2>1. CASE \E k \in Legs : UeStep(k) \/ Lose(k)
      <3>1. UNCHANGED contexts
        BY <2>1 DEF UeStep, RecvMib, RecvSib2, RandomAccessSuccessful, Lose, Stop,
                    UeRecvRrcConnectionSetup, UeRecvRrcConnectionReject, ConnectionTimeout
      <3> QED
        BY <3>1, ContinuesSame DEF contexts
    <2>2. CASE \E k \in Legs : CellStep(k)
      BY <2>2, ContinuesCellStep DEF CellStep
    <2>3. CASE UeConfigured \/ RandomAccessFailed \/ SinrChanges
      <3>1. UNCHANGED contexts
        BY <2>3 DEF UeConfigured, RetryConnect, UeRecvRrcConnectToMmWave, Stop,
                    UeRecvReconfiguration, UeRecvRrcConnectionSwitch, RandomAccessFailed,
                    SinrChanges
      <3> QED
        BY <3>1, ContinuesSame DEF contexts
    <2>4. CASE BearersStep
      BY <2>4, ContinuesBearers
    <2>5. CASE \E c \in Cells : X2Step(c)
      BY <2>5, ContinuesX2
    <2>6. CASE Expire \/ TriggerUeAssociationUpdate
      BY <2>6, ContinuesOther
    <2> QED
      BY <1>1, <2>1, <2>2, <2>3, <2>4, <2>5, <2>6 DEF Next
  <1>2. CASE UNCHANGED vars
    BY <1>2, ContinuesSame DEF vars, contexts
  <1> QED
    BY <1>1, <1>2

NewContext == [NoContext EXCEPT !.state = "INITIAL_RANDOM_ACCESS"]

\* A preamble of leg k makes cell c create a context under RNTI r.
Created(k, c, r) ==
    /\ IsNextRnti(c, r) /\ lastRnti' = [lastRnti EXCEPT ![c] = r]
    /\ \A d \in Nodes, s \in Rntis :
          ctx'[d][s] = IF d = c /\ s = r THEN NewContext ELSE ctx[d][s]
    /\ rar' = [rar EXCEPT ![k] = r]
    /\ UNCHANGED <<terminal, rntiOf, coordinator, sinr, s1, srb0, srb1, up, x2, bounds,
                   fault>>

\* What a preamble does: the end of the simulation, or a new context.
LEMMA Allocates ==
    ASSUME Typed, Attachment, NEW k \in Legs, AllocateTemporaryCellRnti(k),
           NEW c, c = ue[k].cell
    PROVE  /\ c \in Nodes /\ ue[k].state = "IDLE_RANDOM_ACCESS" /\ rar[k] = NoRnti
           /\ \/ FreeSteps(c) = {} /\ Stop("no more RNTIs available")
              \/ \E r \in Rntis : Created(k, c, r)
  <1>0. CellsTyped /\ LegInv(k)
    BY DEF Typed, Attachment
  <1>2. ue[k].state = "IDLE_RANDOM_ACCESS" /\ rar[k] = NoRnti
    BY DEF AllocateTemporaryCellRnti
  <1>3. c \in Nodes
    BY <1>0, <1>2, CellsDiffer DEF LegInv, AtItsCell, Nodes, Legs
  <1>4. CASE FreeSteps(c) = {}
    BY <1>2, <1>3, <1>4 DEF AllocateTemporaryCellRnti
  <1>5. CASE FreeSteps(c) # {}
    <2>1. PICK r \in Rntis :
              /\ IsNextRnti(c, r) /\ lastRnti' = [lastRnti EXCEPT ![c] = r]
              /\ ctx' = [ctx EXCEPT ![c][r] = NewContext]
              /\ rar' = [rar EXCEPT ![k] = r]
              /\ UNCHANGED <<terminal, rntiOf, coordinator, sinr, s1, srb0, srb1, up,
                             x2, bounds, fault>>
      BY <1>5 DEF AllocateTemporaryCellRnti, NewContext
    <2>2. NewContext \in Contexts
      BY ContextFields DEF UeStates, NewContext
    <2>3. \A d \in Nodes, s \in Rntis :
              ctx'[d][s] = IF d = c /\ s = r THEN NewContext ELSE ctx[d][s]
      BY <1>0, <2>1, <2>2, ContextSet
    <2>4. Created(k, c, r)
      BY <2>1, <2>3 DEF Created
    <2> QED
      BY <1>2, <1>3, <2>4
  <1> QED
    BY <1>4, <1>5

\* A context that reconfigures the UE for split bearers always has some.
SplitsExist == \A c \in Nodes, r \in Rntis : HasSplit(ctx[c][r])

\* No step leaves such a context without any.
LEMMA SplitsExistStep ==
    ASSUME Typed, Attachment, SplitsExist, [Next]_vars
    PROVE  SplitsExist'
  <1>1. CASE \A k \in Legs : ~AllocateTemporaryCellRnti(k)
    BY <1>1, ContinuesStep DEF SplitsExist, ContextsContinue, Continues
  <1>2. ASSUME NEW k \in Legs, AllocateTemporaryCellRnti(k) PROVE SplitsExist'
    <2>1. PICK c : c = ue[k].cell
      OBVIOUS
    <2>2. CASE Stop("no more RNTIs available")
      BY <2>2 DEF Stop, contexts, SplitsExist
    <2>3. CASE ~Stop("no more RNTIs available")
      <3>1. PICK r \in Rntis : Created(k, c, r)
        BY <1>2, <2>1, <2>3, Allocates
      <3>2. HasSplit(NewContext)
        BY DEF HasSplit, NoContext, NewContext
      <3> QED
        BY <3>1, <3>2 DEF SplitsExist, Created
    <2> QED
      BY <2>2, <2>3
  <1> QED
    BY <1>1, <1>2

-----------------------------------------------------------------------------
(***************************************************************************)
(* The coordinator looks the UE up in m_imsiRntiMap, which is not cleared  *)
(* when a context is removed.  It finds the context as long as no          *)
(* admission of the UE is lost, or the coordinator has no reason to look   *)
(* because no cell is ever in outage.                                      *)
(***************************************************************************)
Found == associated =>
    \/ ue["lte"].state = "CONNECTED_NORMALLY"
    \/ ue["lte"].state = "IDLE_CONNECTING" /\ RrcConnectionSetup \in srb0["lte"]

NoOutage == \A s \in Sinrs : s >= OutageThreshold + 2

Calm == ~usingLte

\* A step that admits no UE and takes no admission away.
LEMMA FoundKept ==
    ASSUME Found, associated' = associated,
           ue'["lte"].state = ue["lte"].state,
           RrcConnectionSetup \in srb0["lte"] => RrcConnectionSetup \in srb0'["lte"]
    PROVE  Found'
  BY DEF Found

\* The UE's side of its connection set-up.
LEMMA FoundUeStep ==
    ASSUME Typed, Attachment, Found, NEW k \in Legs, UeStep(k)
    PROVE  Found'
  <1>0. /\ UeTyped /\ AirTyped /\ LegInv("lte") /\ ue["lte"] \in UeRrcs
        /\ Legs = {"lte", "mm"} /\ associated' = associated
    BY UeFields, CellsDiffer
       DEF Typed, UeTyped, Attachment, UeStep, RecvMib, RecvSib2, RandomAccessSuccessful, Stop,
           UeRecvRrcConnectionSetup, UeRecvRrcConnectionReject, ConnectionTimeout, coordinator
  <1>1. CASE k = "mm"
    <2>1. ue'["lte"] = ue["lte"] /\ srb0'["lte"] = srb0["lte"]
      BY <1>0, <1>1
         DEF UeStep, RecvMib, RecvSib2, RandomAccessSuccessful, Stop, UeTyped, AirTyped,
             UeRecvRrcConnectionSetup, UeRecvRrcConnectionReject, ConnectionTimeout,
             ConnectionFailed, terminal, air
    <2> QED
      BY <1>0, <2>1, FoundKept
  <1>2. CASE k = "lte" /\ ~associated
    BY <1>0, <1>2 DEF Found
  <1>3. CASE k = "lte" /\ associated
    <2>1. CASE ue["lte"].state = "CONNECTED_NORMALLY"
      <3>1. RecvSib2(k)
        <4>1. RrcConnectionSetup \notin srb0["lte"] /\ RrcConnectionReject \notin srb0["lte"]
          BY <1>0, <2>1 DEF LegInv, Accepted, Answers
        <4>2. rar["lte"] = NoRnti
          BY <1>0, <2>1 DEF LegInv, Responding
        <4> QED
          BY <1>3, <2>1, <4>1, <4>2
             DEF UeStep, RecvMib, RandomAccessSuccessful, UeRecvRrcConnectionSetup,
                 UeRecvRrcConnectionReject, ConnectionTimeout
      <3>2. ue'["lte"].state = "CONNECTED_NORMALLY"
        BY <1>0, <1>3, <2>1, <3>1 DEF RecvSib2, UeTyped, UeRrcs
      <3> QED
        BY <3>2 DEF Found
    <2>2. CASE ue["lte"].state # "CONNECTED_NORMALLY"
      <3>1. ue["lte"].state = "IDLE_CONNECTING" /\ RrcConnectionSetup \in srb0["lte"]
        BY <1>3, <2>2 DEF Found
      <3>2. RrcConnectionReject \notin srb0["lte"] /\ rar["lte"] = NoRnti
        BY <1>0, <3>1 DEF LegInv, Connecting, Requesting, Answered, Answers, Responding
      <3>3. RecvSib2(k) \/ UeRecvRrcConnectionSetup(k)
        BY <1>3, <3>1, <3>2
           DEF UeStep, RecvMib, RandomAccessSuccessful, UeRecvRrcConnectionReject,
               ConnectionTimeout
      <3>4. CASE RecvSib2(k)
        <4>1. ue'["lte"].state = ue["lte"].state /\ srb0' = srb0
          BY <1>0, <1>3, <3>1, <3>4 DEF RecvSib2, UeTyped, UeRrcs, air
        <4> QED
          BY <1>0, <4>1, FoundKept
      <3>5. CASE UeRecvRrcConnectionSetup(k)
        <4>1. ue'["lte"].state = "CONNECTED_NORMALLY"
          BY <1>0, <1>3, <3>1, <3>5 DEF UeRecvRrcConnectionSetup, UeTyped, UeRrcs
        <4> QED
          BY <4>1 DEF Found
      <3> QED
        BY <3>3, <3>4, <3>5
    <2> QED
      BY <2>1, <2>2
  <1> QED
    BY <1>0, <1>1, <1>2, <1>3

\* The cells' side: an admission is on its way when the UE is put on the list.
LEMMA FoundCellStep ==
    ASSUME Typed, Attachment, Found, NEW k \in Legs, CellStep(k)
    PROVE  Found'
  <1>0. AirTyped /\ LegInv("lte") /\ Legs = {"lte", "mm"} /\ ue' = ue
    BY DEF Typed, Attachment, Legs, CellStep, AllocateTemporaryCellRnti, Stop, terminal,
           RecvRrcConnectionRequest, RecvRrcConnectionSetupCompleted
  <1>1. srb0["lte"] \subseteq srb0'["lte"]
    <2>1. srb0' = srb0 \/ \E S : srb0' = [srb0 EXCEPT ![k] = @ \cup S]
      <3>1. CASE AllocateTemporaryCellRnti(k)
        BY <3>1 DEF AllocateTemporaryCellRnti, Stop, air
      <3>2. CASE RecvRrcConnectionRequest(k)
        BY <3>2 DEF RecvRrcConnectionRequest, Stop, air
      <3>3. CASE RecvRrcConnectionSetupCompleted(k)
        BY <3>3 DEF RecvRrcConnectionSetupCompleted, ConnectedNormally, Stop, air
      <3> QED
        BY <3>1, <3>2, <3>3 DEF CellStep
    <2> QED
      BY <1>0, <2>1 DEF AirTyped
  <1>2. CASE associated' = associated
    BY <1>0, <1>1, <1>2, FoundKept
  <1>3. CASE associated' # associated
    <2>1. RecvRrcConnectionRequest(k) /\ ContextOf(k).state = "INITIAL_RANDOM_ACCESS"
      BY <1>3
         DEF CellStep, AllocateTemporaryCellRnti, Stop, coordinator, RecvRrcConnectionRequest,
             RecvRrcConnectionSetupCompleted
    <2>2. /\ k = "lte" /\ RrcConnectionSetup \in srb0'["lte"]
          /\ up["lte"] # <<>> /\ Head(up["lte"]).type = "Request"
      BY <1>0, <1>3, <2>1 DEF RecvRrcConnectionRequest, AirTyped, ArrivesUp
    <2>3. ue["lte"].state = "IDLE_CONNECTING"
      <3>1. ue["lte"].state \in Attached
        BY <1>0, <2>2, SenderIsAttached
      <3>2. ~Connected("lte")
        BY <2>1, <2>2 DEF Connected, ConnectedStates
      <3>3. ue["lte"].state = "CONNECTED_NORMALLY" => ContextOf("lte").state = "CONNECTION_SETUP"
        BY <1>0, <3>2 DEF LegInv, Accepted, Connected
      <3> QED
        BY <2>1, <2>2, <3>1, <3>3 DEF Attached
    <2> QED
      BY <1>0, <2>2, <2>3 DEF Found
  <1> QED
    BY <1>2, <1>3

\* If no message on SRB0 of LTE is lost, the coordinator's entry has a UE that is, or
\* is about to be, connected.
LEMMA FoundStep ==
    ASSUME "lte" \notin Lossy, Typed, Attachment, Found, [Next]_vars
    PROVE  Found'
  <1>0. /\ UeTyped /\ AirTyped /\ LegInv("lte") /\ ue["lte"] \in UeRrcs
        /\ Legs = {"lte", "mm"}
    BY UeFields, CellsDiffer DEF Typed, UeTyped, Attachment
  <1>1. CASE Next
    <2>1. CASE \E k \in Legs : UeStep(k) \/ CellStep(k)
      BY <2>1, FoundUeStep, FoundCellStep
    <2>2. ASSUME NEW k \in Legs, Lose(k) PROVE Found'
      <3>1. k = "mm"
        BY <1>0, <2>2 DEF Lose
      <3> QED
        BY <1>0, <2>2, <3>1, FoundKept DEF Lose, terminal, coordinator, AirTyped
    <2>3. CASE RandomAccessFailed
      BY <2>3 DEF RandomAccessFailed
    <2>4. CASE UeConfigured
      <3>1. CASE RetryConnect
        <4>1. ue["lte"].state \in Attached => ue'["lte"].state = ue["lte"].state
          BY <1>0, <3>1 DEF RetryConnect, Connect, UeTyped, Attached
        <4>2. srb0' = srb0 /\ associated' = associated
          BY <3>1 DEF RetryConnect, air, coordinator
        <4> QED
          BY <4>1, <4>2 DEF Found, Attached
      <3>2. CASE UeRecvRrcConnectToMmWave
        <4>1. /\ ue'["lte"] = ue["lte"] /\ associated' = associated
              /\ RrcConnectionSetup \in srb0["lte"] => RrcConnectionSetup \in srb0'["lte"]
          BY <1>0, <3>2 DEF UeRecvRrcConnectToMmWave, coordinator, UeTyped, AirTyped,
                           RrcConnectionSetup
        <4> QED
          BY <4>1, FoundKept
      <3>3. CASE UeRecvReconfiguration \/ UeRecvRrcConnectionSwitch
        <4>1. UNCHANGED <<ue, associated, srb0>>
          BY <3>3 DEF UeRecvReconfiguration, UeRecvRrcConnectionSwitch, Stop, terminal,
                      coordinator, air
        <4> QED
          BY <4>1, FoundKept
      <3> QED
        BY <2>4, <3>1, <3>2, <3>3 DEF UeConfigured
    <2>5. CASE BearersStep
      <3>1. UNCHANGED <<ue, associated>> /\ srb0["lte"] \subseteq srb0'["lte"]
        BY <1>0, <2>5 DEF BearersStep, InitialContextSetup, RecvSecondaryCellConnected,
                    RecvReconfigurationCompleted, ConnectedNormally, Stop, terminal,
                    coordinator, air, AirTyped
      <3> QED
        BY <3>1, FoundKept
    <2>6. CASE (\E c \in Cells : X2Step(c)) \/ Expire \/ SinrChanges
      <3>1. UNCHANGED <<ue, associated, srb0>>
        BY <2>6 DEF X2Step, RecvRlcSetupRequest, RecvRlcSetupCompleted, Stop,
                    RecvConnectionSwitchToMmWave, Expire, ConnectionRequestTimeout,
                    ConnectionSetupTimeout, ConnectionRejectedTimeout, RemoveUe, SinrChanges,
                    terminal, coordinator, air
      <3> QED
        BY <3>1, FoundKept
    <2>7. CASE TriggerUeAssociationUpdate
      <3>1. UNCHANGED <<ue, associated>> /\ srb0["lte"] \subseteq srb0'["lte"]
        BY <1>0, <2>7 DEF TriggerUeAssociationUpdate, Stop, SwitchToLte, SelectBest, terminal,
                    coordinator, air, AirTyped
      <3> QED
        BY <3>1, FoundKept
    <2> QED
      BY <1>1, <2>1, <2>2, <2>3, <2>4, <2>5, <2>6, <2>7 DEF Next
  <1>2. CASE UNCHANGED vars
    BY <1>2, FoundKept DEF vars, terminal, coordinator, air
  <1> QED
    BY <1>1, <1>2

\* The UE that is found has a context.
LEMMA FoundIsKnown ==
    ASSUME Typed, Attachment, Found, associated
    PROVE  Known(LteCell, rntiOf[LteCell])
  <1>0. "lte" \in Legs /\ LegInv("lte") /\ ue["lte"].state \in Attached
    BY DEF Attachment, Legs, Found, Attached
  <1>1. /\ ue["lte"].cell = LteCell /\ ue["lte"].rnti \in Rntis
    BY <1>0, LegLocated
  <1>2. rntiOf[LteCell] = ue["lte"].rnti /\ ContextOf("lte").state # "NONE"
    BY <1>0, <1>1
       DEF Found, LegInv, Connecting, Requesting, Answered, Accepted, Answers, ConnectedStates
  <1>3. ue["lte"].rnti # NoRnti
    BY <1>0 DEF LegInv, Connecting, Accepted, Attached
  <1> QED
    BY <1>1, <1>2, <1>3 DEF Known, ContextOf

\* If no cell can be in outage the coordinator never switches to LTE.
LEMMA CalmStep ==
    ASSUME NoOutage, Typed, Attachment, Calm, [Next]_vars
    PROVE  Calm'
  <1>0. best \in Cells /\ sinr \in [Cells -> Sinrs] /\ OutageThreshold \in Int
    BY AccessAssumption DEF Typed, CoordinatorTyped
  <1>9. \A c \in Cells : sinr[c] \in Int /\ sinr[c] >= OutageThreshold + 2
    BY <1>0, AccessAssumption DEF NoOutage
  <1>1. ~Outage
    <2>1. PICK c \in Cells : TRUE
      BY <1>0
    <2>2. sinr[c] \in Int /\ sinr[c] >= OutageThreshold + 2
      BY <1>9
    <2>3. Threshold = OutageThreshold
      BY <1>0 DEF Calm, Threshold
    <2> QED
      BY <1>0, <2>2, <2>3 DEF Outage
  <1>2. sinr[best] > OutageThreshold
    BY <1>0, <1>9
  <1>3. CASE usingLte' = usingLte
    BY <1>3 DEF Calm
  <1>4. CASE usingLte' # usingLte
    <2>1. \/ TriggerUeAssociationUpdate
          \/ \E k \in Legs : RecvRrcConnectionSetupCompleted(k)
          \/ RecvReconfigurationCompleted
      BY <1>4 DEF Next, vars, UeStep, CellStep, Lose, RandomAccessFailed, UeConfigured,
                  BearersStep, X2Step, Expire, SinrChanges, RecvMib, RecvSib2,
                  RandomAccessSuccessful, UeRecvRrcConnectionSetup, UeRecvRrcConnectionReject,
                  ConnectionTimeout, AllocateTemporaryCellRnti, RecvRrcConnectionRequest,
                  RetryConnect, UeRecvRrcConnectToMmWave, UeRecvReconfiguration,
                  UeRecvRrcConnectionSwitch, InitialContextSetup, RecvSecondaryCellConnected,
                  RecvRlcSetupRequest, RecvRlcSetupCompleted, RecvConnectionSwitchToMmWave,
                  ConnectionRequestTimeout, ConnectionSetupTimeout, ConnectionRejectedTimeout,
                  RemoveUe, Stop, coordinator
    <2>2. CASE TriggerUeAssociationUpdate
      BY <1>1, <1>4, <2>2 DEF TriggerUeAssociationUpdate, SwitchToLte, SelectBest, Stop, coordinator
    <2>3. ASSUME NEW k \in Legs, RecvRrcConnectionSetupCompleted(k) PROVE Calm'
      BY <1>2, <1>4, <2>3
         DEF RecvRrcConnectionSetupCompleted, ConnectedNormally, Calm, Stop, coordinator
    <2>4. CASE RecvReconfigurationCompleted
      BY <1>2, <1>4, <2>4
         DEF RecvReconfigurationCompleted, ConnectedNormally, Calm, Stop, coordinator
    <2> QED
      BY <2>1, <2>2, <2>3, <2>4
  <1> QED
    BY <1>3, <1>4

-----------------------------------------------------------------------------
(***************************************************************************)
(* RNTIs are given out in order, one for an attempt, and a new attempt     *)
(* needs a loss in the one before it.                                      *)
(***************************************************************************)
\* The attempt of leg k for which its cell gave out an RNTI is still under way.
Tries(k) ==
    \/ rar[k] # NoRnti \/ up[k] # <<>>
    \/ srb0[k] \cap Answers # {}
    \/ ue[k].state = "CONNECTED_NORMALLY"

Spent(k) == lastRnti[ue[k].cell] <= losses + (IF Tries(k) THEN 1 ELSE 0)

\* The states in which the mmWave leg can still come to send a preamble.
Early == {"IDLE_START", "IDLE_WAIT_MIB", "IDLE_WAIT_SIB2"}
Searching == {"IDLE_WAIT_MIB", "IDLE_WAIT_SIB2", "IDLE_RANDOM_ACCESS"}

NewerAreFree == \A c \in Nodes, r \in Rntis : r > lastRnti[c] => ctx[c][r].state = "NONE"

Attempts ==
    /\ NewerAreFree
    /\ RrcConnectionReject \notin srb0["lte"] /\ Spent("lte")
    /\ ue["mm"].state \in Searching => Spent("mm")
    /\ ue["mm"].state \notin Early => ~ue["mm"].pending
    /\ \A c \in Cells : c # ue["mm"].cell => lastRnti[c] = NoRnti

\* An attempt goes on, or what it waits for is lost.
GoesOn(k) == Tries(k) => Tries(k)' \/ losses' > losses

\* The RNTIs that were given out to a leg stay accounted for.
LEMMA SpentKept ==
    ASSUME Typed, NEW k \in Legs, ue[k].cell \in Nodes, Spent(k), GoesOn(k),
           lastRnti' = lastRnti, ue'[k].cell = ue[k].cell,
           losses' \in Nat, losses' >= losses
    PROVE  Spent(k)'
  <1>1. lastRnti[ue[k].cell] \in Nat /\ losses \in Nat
    BY DEF Typed, CellsTyped, BoundsTyped, SomeRnti, Rntis, NoRnti
  <1>2. CASE Tries(k)
    BY <1>1, <1>2 DEF Spent, GoesOn
  <1>3. CASE ~Tries(k)
    BY <1>1, <1>3 DEF Spent
  <1> QED
    BY <1>2, <1>3

\* The mmWave leg does not become one that searches, except by the command to connect.
MmGoesOn ==
    /\ ue'["mm"].cell = ue["mm"].cell
    /\ ue'["mm"].state \in Searching => ue["mm"].state \in Searching /\ GoesOn("mm")
    /\ ue'["mm"].state \notin Early =>
          ~ue'["mm"].pending \/ (/\ ue["mm"].state \notin Early
                                 /\ ue'["mm"].pending = ue["mm"].pending)

\* A step that gives out no RNTI.
LEMMA AttemptsKept ==
    ASSUME Typed, Attachment, Attempts, ContextsContinue, lastRnti' = lastRnti,
           RrcConnectionReject \notin srb0'["lte"],
           ue'["lte"].cell = ue["lte"].cell, GoesOn("lte"),
           losses' \in Nat, losses' >= losses, MmGoesOn
    PROVE  Attempts'
  <1>0. /\ "lte" \in Legs /\ "mm" \in Legs /\ ue["lte"].cell \in Nodes
        /\ ue["mm"].state # "IDLE_START" => ue["mm"].cell \in Nodes
    BY CellsDiffer
  <1>1. NewerAreFree'
    BY DEF Attempts, NewerAreFree, ContextsContinue, Continues
  <1>2. Spent("lte")'
    BY <1>0, SpentKept DEF Attempts
  <1>3. ue'["mm"].state \in Searching => Spent("mm")'
    BY <1>0, SpentKept DEF Attempts, MmGoesOn, Searching
  <1> QED
    BY <1>1, <1>2, <1>3 DEF Attempts, MmGoesOn

\* The leg itself does not change, and nothing of what its attempt waits for goes away.
LEMMA Undisturbed ==
    ASSUME NEW k \in Legs, ue'[k] = ue[k], rar'[k] = rar[k], up[k] # <<>> => up'[k] # <<>>,
           srb0[k] \cap Answers \subseteq srb0'[k]
    PROVE  GoesOn(k) /\ (k = "mm" => MmGoesOn)
  BY DEF GoesOn, Tries, MmGoesOn

\* A connected leg has no open attempt.
LEMMA ConnectedGoesOn ==
    ASSUME NEW k \in Legs, ue'[k] = ue[k], ue[k].state \in {"CONNECTED_NORMALLY"}
    PROVE  GoesOn(k) /\ (k = "mm" => MmGoesOn)
  BY DEF GoesOn, Tries, MmGoesOn, Searching

\* A leg that is not attached has nothing on its way but the response to its preamble.
LEMMA NothingOut ==
    ASSUME Attachment, NEW k \in Legs, ue[k].state \notin Attached, rar[k] = NoRnti
    PROVE  ~Tries(k)
  BY DEF Attachment, LegInv, Detached, Tries, Attached

\* What the RRC of the mmWave leg goes through on its own.
LEMMA SearchStates ==
    ASSUME NEW u \in UeRrcs
    PROVE  /\ Camp(u).state \notin Early => ~Camp(u).pending
           /\ Camp(u).cell = u.cell
           /\ ~u.pending => Camp(u).state = "IDLE_CAMPED_NORMALLY"
           /\ LET v == [u EXCEPT !.sib2 = TRUE]
                  w == IF v.state = "IDLE_WAIT_SIB2" THEN StartConnection(v) ELSE v
              IN  /\ w.cell = u.cell
                  /\ \/ w.state = u.state /\ w.pending = u.pending
                     \/ /\ u.state = "IDLE_WAIT_SIB2"
                        /\ w.state = "IDLE_RANDOM_ACCESS" /\ ~w.pending
           /\ LET v == [u EXCEPT !.sib2 = FALSE]
              IN  v \in UeRrcs /\ v.pending = u.pending /\ v.cell = u.cell
  BY DEF UeRrcs, Camp, AwaitSib2, StartConnection, Early

\* The steps of the UE's RRCs.
LEMMA AttemptsUeStep ==
    ASSUME Typed, Attachment, Attempts, NEW k \in Legs, UeStep(k)
    PROVE  Attempts'
  <1>0. /\ UeTyped /\ AirTyped /\ BoundsTyped /\ LegInv(k) /\ ue[k] \in UeRrcs
        /\ ue \in [Legs -> UeRrcs] /\ Legs = {"lte", "mm"} /\ RrcConnectionReject \in Answers
    BY UeFields, CellsDiffer DEF Typed, UeTyped, Attachment, Answers
  <1>1. /\ ContextsContinue /\ lastRnti' = lastRnti
        /\ losses' \in Nat /\ losses' >= losses
    <2>1. UNCHANGED <<ctx, lastRnti, losses>>
      BY DEF UeStep, RecvMib, RecvSib2, RandomAccessSuccessful, Stop, contexts, bounds,
             UeRecvRrcConnectionSetup, UeRecvRrcConnectionReject, ConnectionTimeout
    <2> QED
      BY <1>0, <2>1, ContinuesSame DEF BoundsTyped
  <1>2. ASSUME NEW j \in Legs, j # k,
               ue' = ue \/ (\E u : ue' = [ue EXCEPT ![k] = u]) \/ (\E s : ue' = [ue EXCEPT ![k].state = s]),
               rar'[j] = rar[j], up[j] # <<>> => up'[j] # <<>>, srb0'[j] = srb0[j]
        PROVE  /\ GoesOn(j) /\ (j = "mm" => MmGoesOn)
               /\ ue'[j] = ue[j]
    <2>1. ue'[j] = ue[j]
      BY <1>0, <1>2
    <2> QED
      BY <1>2, <2>1, Undisturbed
  <1>3. ASSUME NEW u, ue' = [ue EXCEPT ![k] = u], u.cell = ue[k].cell, UNCHANGED <<rar, up>>,
               \A j \in Legs : srb0'[j] \subseteq srb0[j] /\ (j # k => srb0'[j] = srb0[j]),
               k = "lte" => GoesOn("lte"), k = "mm" => MmGoesOn
        PROVE  Attempts'
    <2>1. ue'[k] = u
      BY <1>0, <1>3
    <2>2. \A j \in Legs : j # k => GoesOn(j) /\ (j = "mm" => MmGoesOn) /\ ue'[j] = ue[j]
      BY <1>2, <1>3
    <2>3. GoesOn("lte") /\ MmGoesOn /\ ue'["lte"].cell = ue["lte"].cell
      BY <1>0, <1>3, <2>1, <2>2
    <2>4. RrcConnectionReject \notin srb0'["lte"]
      BY <1>0, <1>3 DEF Attempts
    <2> QED
      BY <1>1, <2>3, <2>4, AttemptsKept
  <1>4. CASE RecvMib(k)
    <2>1. PICK u : u = Camp(ue[k])
      OBVIOUS
    <2>2. /\ ue' = [ue EXCEPT ![k] = u] /\ UNCHANGED <<rar, up, srb0>>
          /\ ue[k].state = "IDLE_WAIT_MIB"
      BY <1>4, <2>1 DEF RecvMib, air
    <2>3. /\ u.cell = ue[k].cell /\ (u.state \notin Early => ~u.pending) /\ ue'[k] = u
      BY <1>0, <2>1, <2>2, SearchStates
    <2>4. GoesOn(k)
      BY <2>2 DEF GoesOn, Tries
    <2>5. k = "mm" => MmGoesOn
      BY <2>2, <2>3, <2>4 DEF MmGoesOn, Searching
    <2> QED
      BY <1>3, <2>2, <2>3, <2>4, <2>5
  <1>5. CASE RecvSib2(k)
    <2> DEFINE v == [ue[k] EXCEPT !.sib2 = TRUE]
    <2>1. PICK u : u = IF v.state = "IDLE_WAIT_SIB2" THEN StartConnection(v) ELSE v
      OBVIOUS
    <2>2. ue' = [ue EXCEPT ![k] = u] /\ UNCHANGED <<rar, up, srb0>>
      BY <1>5, <2>1 DEF RecvSib2, air
    <2>3. /\ u.cell = ue[k].cell /\ ue'[k] = u
          /\ \/ u.state = ue[k].state /\ u.pending = ue[k].pending
             \/ ue[k].state = "IDLE_WAIT_SIB2" /\ u.state = "IDLE_RANDOM_ACCESS" /\ ~u.pending
      BY <1>0, <2>1, <2>2, SearchStates
    <2>4. GoesOn(k)
      BY <2>2, <2>3 DEF GoesOn, Tries
    <2>5. k = "mm" => MmGoesOn
      BY <2>3, <2>4 DEF MmGoesOn, Searching, Early
    <2> QED
      BY <1>3, <2>2, <2>3, <2>4, <2>5
  <1>6. CASE RandomAccessSuccessful(k)
    <2>1. PICK u : u = [ue[k] EXCEPT !.state = "IDLE_CONNECTING", !.rnti = rar[k]]
      OBVIOUS
    <2>2. /\ ue' = [ue EXCEPT ![k] = u] /\ rar[k] # NoRnti
          /\ rar' = [rar EXCEPT ![k] = NoRnti]
          /\ up' = [up EXCEPT ![k] = Append(@, Uplink("Request"))] /\ srb0' = srb0
      BY <1>6, <2>1 DEF RandomAccessSuccessful
    <2>3. /\ u.cell = ue[k].cell /\ ue'[k] = u /\ u.state = "IDLE_CONNECTING"
          /\ u.pending = ue[k].pending /\ ue[k].state = "IDLE_RANDOM_ACCESS"
      BY <1>0, <2>1, <2>2 DEF UeRrcs, LegInv, Responding
    <2>4. up'[k] # <<>>
      <3>1. up[k] \in Seq(UplinkMessages) /\ up'[k] = Append(up[k], Uplink("Request"))
        BY <1>0, <2>2 DEF AirTyped
      <3>2. Uplink("Request") \in UplinkMessages
        BY MessagesAre
      <3> QED
        BY <3>1, <3>2, ItemsAppend
    <2>5. GoesOn(k)
      BY <2>4 DEF GoesOn, Tries
    <2>6. k = "mm" => MmGoesOn
      BY <2>3 DEF MmGoesOn, Searching, Early
    <2>7. \A j \in Legs : j # k => rar'[j] = rar[j] /\ up'[j] = up[j]
      BY <1>0, <2>2 DEF AirTyped
    <2>8. \A j \in Legs : j # k => GoesOn(j) /\ (j = "mm" => MmGoesOn) /\ ue'[j] = ue[j]
      BY <1>2, <2>2, <2>7
    <2>9. GoesOn("lte") /\ MmGoesOn /\ ue'["lte"].cell = ue["lte"].cell
      BY <1>0, <2>3, <2>5, <2>6, <2>8
    <2> QED
      BY <1>1, <2>2, <2>9, AttemptsKept DEF Attempts
  <1>7. CASE UeRecvRrcConnectionSetup(k)
    <2>1. RrcConnectionSetup \in srb0[k] /\ ue[k].state = "IDLE_CONNECTING"
      BY <1>0, <1>7, AnswerFinds DEF UeRecvRrcConnectionSetup
    <2> DEFINE u == [up EXCEPT ![k] = Append(@, Uplink("SetupCompleted"))]
    <2>2. PICK m : m = SecondaryCellConnected(nas.cell, ue[k].rnti)
      OBVIOUS
    <2>3. /\ ue' = [ue EXCEPT ![k].state = "CONNECTED_NORMALLY"]
          /\ up' = IF nas.active THEN [u EXCEPT !["lte"] = Append(@, m)] ELSE u
          /\ srb0' = [srb0 EXCEPT ![k] = @ \ {RrcConnectionSetup}] /\ rar' = rar
      BY <1>7, <2>1, <2>2 DEF UeRecvRrcConnectionSetup
    <2>4. /\ ue'[k].cell = ue[k].cell /\ ue'[k].state = "CONNECTED_NORMALLY"
          /\ ue'[k].pending = ue[k].pending
      BY <1>0, <2>3 DEF UeRrcs
    <2>5. GoesOn(k)
      BY <2>4 DEF GoesOn, Tries
    <2>6. k = "mm" => MmGoesOn
      BY <2>1, <2>4 DEF MmGoesOn, Searching, Early
    <2>7. \A j \in Legs : j # k => /\ rar'[j] = rar[j] /\ srb0'[j] = srb0[j]
                                   /\ up[j] # <<>> => up'[j] # <<>>
      <3>1. u \in [Legs -> Seq(UplinkMessages)] /\ \A j \in Legs : j # k => u[j] = up[j]
        <4>1. Append(up[k], Uplink("SetupCompleted")) \in Seq(UplinkMessages)
          BY <1>0, MessagesAre, ItemsAppend DEF AirTyped
        <4> QED
          BY <1>0, <4>1 DEF AirTyped
      <3> HIDE DEF u
      <3>2. m \in UplinkMessages
        BY <1>0, <2>2, UeFields, MessagesAre
      <3>3. Append(u["lte"], m) # <<>>
        BY <1>0, <3>1, <3>2, ItemsAppend
      <3>4. up' = u \/ up' = [u EXCEPT !["lte"] = Append(@, m)]
        BY <2>3
      <3> QED
        BY <1>0, <2>3, <3>1, <3>3, <3>4 DEF AirTyped
    <2>8. \A j \in Legs : j # k => GoesOn(j) /\ (j = "mm" => MmGoesOn) /\ ue'[j] = ue[j]
      BY <1>2, <2>3, <2>7
    <2>9. GoesOn("lte") /\ MmGoesOn /\ ue'["lte"].cell = ue["lte"].cell
      BY <1>0, <2>4, <2>5, <2>6, <2>8
    <2>10. RrcConnectionReject \notin srb0'["lte"]
      BY <1>0, <2>3 DEF Attempts, AirTyped
    <2> QED
      BY <1>1, <2>9, <2>10, AttemptsKept
  <1>8. ASSUME ue[k].state = "IDLE_CONNECTING", ConnectionFailed(k), UNCHANGED <<rar, up>>,
               k = "lte" => ~Tries("lte"),
               \A j \in Legs : srb0'[j] \subseteq srb0[j] /\ (j # k => srb0'[j] = srb0[j])
        PROVE  Attempts'
    <2>0. PICK v : v = [ue[k] EXCEPT !.sib2 = FALSE]
      OBVIOUS
    <2>1. PICK u : u = Camp(v)
      OBVIOUS
    <2>2. v \in UeRrcs /\ v.pending = ue[k].pending /\ v.cell = ue[k].cell
      BY <1>0, <2>0, SearchStates
    <2>3. /\ u.cell = ue[k].cell /\ (u.state \notin Early => ~u.pending)
          /\ ~ue[k].pending => u.state = "IDLE_CAMPED_NORMALLY"
      BY <2>1, <2>2, SearchStates
    <2>4. ue' = [ue EXCEPT ![k] = u] /\ ue'[k] = u
      BY <1>0, <1>8, <2>0, <2>1 DEF ConnectionFailed
    <2>5. k = "lte" => GoesOn("lte")
      BY <1>8 DEF GoesOn
    <2>6. k = "mm" => MmGoesOn
      BY <1>8, <2>3, <2>4 DEF MmGoesOn, Searching, Early, Attempts
    <2> QED
      BY <1>3, <1>8, <2>3, <2>4, <2>5, <2>6
  <1>9. CASE UeRecvRrcConnectionReject(k)
    <2>1. ue[k].state = "IDLE_CONNECTING" /\ k # "lte"
      BY <1>0, <1>9, AnswerFinds DEF UeRecvRrcConnectionReject, Attempts
    <2>2. \A j \in Legs : srb0'[j] \subseteq srb0[j] /\ (j # k => srb0'[j] = srb0[j])
      BY <1>0, <1>9 DEF UeRecvRrcConnectionReject, AirTyped
    <2> QED
      BY <1>8, <1>9, <2>1, <2>2 DEF UeRecvRrcConnectionReject
  <1>10. CASE ConnectionTimeout(k)
    <2>1. ue[k].state = "IDLE_CONNECTING" /\ up[k] = <<>> /\ srb0[k] = {}
      BY <1>10 DEF ConnectionTimeout
    <2>2. ~Tries(k)
      BY <1>0, <2>1 DEF Tries, LegInv, Responding
    <2> QED
      BY <1>8, <1>10, <2>1, <2>2 DEF ConnectionTimeout, air
  <1> QED
    BY <1>4, <1>5, <1>6, <1>7, <1>9, <1>10 DEF UeStep

\* A free RNTI that is next to the last one given out is taken.
LEMMA NextRntiIs ==
    ASSUME Typed, NewerAreFree, NEW c \in Nodes, lastRnti[c] + 3 <= RntiSpace
    PROVE  /\ FreeSteps(c) # {}
           /\ \A r \in Rntis : IsNextRnti(c, r) => r = lastRnti[c] + 1
  <1>0. lastRnti[c] \in Nat /\ RntiSpace \in Nat /\ RntiSpace >= 3
    BY RntiAssumption DEF Typed, CellsTyped, SomeRnti, Rntis, NoRnti
  <1>1. PICK s : s = lastRnti[c] + 1
    OBVIOUS
  <1>2. s \in Rntis /\ s # NoRnti /\ s > lastRnti[c] /\ s < RntiSpace /\ s \in Nat
    BY <1>0, <1>1 DEF Rntis, NoRnti
  <1>3. ctx[c][s].state = "NONE"
    BY <1>2 DEF NewerAreFree
  <1>4. s % RntiSpace = s
    BY <1>0, <1>2
  <1>5. 1 \in FreeSteps(c)
    BY <1>0, <1>1, <1>2, <1>3, <1>4 DEF FreeSteps
  <1>6. ASSUME NEW r \in Rntis, IsNextRnti(c, r) PROVE r = lastRnti[c] + 1
    <2>1. PICK n \in FreeSteps(c) : /\ \A m \in FreeSteps(c) : n <= m
                                    /\ r = (lastRnti[c] + n) % RntiSpace
      BY <1>6 DEF IsNextRnti
    <2>2. n \in Nat /\ n >= 1 /\ n <= 1
      BY <1>0, <1>5, <2>1 DEF FreeSteps
    <2>3. n = 1
      BY <2>2
    <2> QED
      BY <1>1, <1>4, <2>1, <2>3
  <1> QED
    BY <1>5, <1>6

\* Fewer losses are possible than a cell has RNTIs.
LossesBound == MaxLosses + 3 <= RntiSpace

\* What the preamble of an attempt changes.
LEMMA AttemptsAllocate ==
    ASSUME LossesBound, Typed, Attachment, Attempts, NEW k \in Legs,
           AllocateTemporaryCellRnti(k)
    PROVE  Attempts' /\ fault' = fault
  <1>0. /\ LegInv(k) /\ ue["lte"].cell = LteCell /\ ue["mm"].cell # LteCell
        /\ Legs = {"lte", "mm"} /\ lastRnti \in [Nodes -> SomeRnti] /\ rar \in [Legs -> SomeRnti]
    BY CellsDiffer DEF Typed, Attachment, CellsTyped, AirTyped
  <1>1. PICK c : c = ue[k].cell
    OBVIOUS
  <1>2. c \in Nodes /\ ue[k].state = "IDLE_RANDOM_ACCESS" /\ rar[k] = NoRnti
    BY <1>1, Allocates
  <1>3. ~Tries(k)
    BY <1>2, NothingOut DEF Attached
  <1>4. Spent(k)
    BY <1>0, <1>2 DEF Attempts, Searching
  <1>5. /\ lastRnti[c] \in Nat /\ losses \in Nat /\ lastRnti[c] <= losses
        /\ lastRnti[c] + 3 <= RntiSpace
    <2>1. lastRnti[c] \in Nat /\ losses \in Nat /\ losses <= MaxLosses
      BY <1>0, <1>2, AccessAssumption DEF Typed, BoundsTyped, SomeRnti, Rntis, NoRnti
    <2>2. lastRnti[c] <= losses
      BY <1>1, <1>3, <1>4, <2>1 DEF Spent
    <2>3. MaxLosses \in Nat /\ RntiSpace \in Nat
      BY AccessAssumption, RntiAssumption
    <2> QED
      BY <2>1, <2>2, <2>3 DEF LossesBound
  <1>6. /\ FreeSteps(c) # {}
        /\ \A r \in Rntis : IsNextRnti(c, r) => r = lastRnti[c] + 1
    BY <1>2, <1>5, NextRntiIs DEF Attempts
  <1>7. PICK r \in Rntis : Created(k, c, r)
    BY <1>1, <1>6, Allocates
  <1>8. /\ r = lastRnti[c] + 1 /\ lastRnti' = [lastRnti EXCEPT ![c] = r]
        /\ rar' = [rar EXCEPT ![k] = r] /\ UNCHANGED <<ue, srb0, up, losses, fault>>
        /\ \A d \in Nodes, s \in Rntis :
              ctx'[d][s] = IF d = c /\ s = r THEN NewContext ELSE ctx[d][s]
    BY <1>6, <1>7 DEF Created, terminal, bounds
  <1>9. lastRnti'[c] = r /\ \A d \in Nodes : d # c => lastRnti'[d] = lastRnti[d]
    BY <1>0, <1>2, <1>8
  <1>10. Tries(k)' /\ r \in Nat /\ r <= losses + 1
    <2>1. rar'[k] = r /\ r # NoRnti
      BY <1>0, <1>8 DEF Rntis, NoRnti
    <2> QED
      BY <1>5, <1>8, <2>1 DEF Tries
  <1>11. Spent(k)'
    BY <1>1, <1>8, <1>9, <1>10 DEF Spent
  <1>12. ASSUME NEW j \in Legs, j # k, ue[j].cell \in Nodes, Spent(j) PROVE Spent(j)'
    <2>1. ue[j].cell # c
      BY <1>0, <1>1, <1>12
    <2>2. lastRnti'[ue[j].cell] = lastRnti[ue[j].cell]
      BY <1>9, <1>12, <2>1
    <2>3. rar'[j] = rar[j]
      BY <1>0, <1>8, <1>12
    <2>4. Tries(j)' = Tries(j)
      BY <1>8, <2>3 DEF Tries
    <2> QED
      BY <1>8, <1>12, <2>2, <2>4 DEF Spent
  <1>13. NewerAreFree'
    <2> SUFFICES ASSUME NEW d \in Nodes, NEW s \in Rntis, s > lastRnti'[d]
                 PROVE  ctx'[d][s].state = "NONE"
      BY DEF NewerAreFree
    <2>1. CASE d = c
      <3>1. s # r /\ s > lastRnti[c]
        BY <1>5, <1>8, <1>9, <1>10, <2>1 DEF Rntis
      <3> QED
        BY <1>8, <2>1, <3>1 DEF Attempts, NewerAreFree
    <2>2. CASE d # c
      BY <1>8, <1>9, <2>2 DEF Attempts, NewerAreFree
    <2> QED
      BY <2>1, <2>2
  <1>14. Spent("lte")' /\ (ue'["mm"].state \in Searching => Spent("mm")')
    <2>1. ue["lte"].cell \in Nodes
      BY CellsDiffer
    <2>2. ue["mm"].state \in Searching => ue["mm"].cell \in Nodes
      BY CellsDiffer DEF Searching
    <2> QED
      BY <1>0, <1>8, <1>11, <1>12, <2>1, <2>2 DEF Attempts
  <1>15. \A d \in Cells : d # ue'["mm"].cell => lastRnti'[d] = NoRnti
    <2> SUFFICES ASSUME NEW d \in Cells, d # ue["mm"].cell PROVE lastRnti'[d] = NoRnti
      BY <1>8
    <2>1. d # c /\ d \in Nodes
      BY <1>0, <1>1, CellsAssumption DEF Nodes
    <2> QED
      BY <1>9, <2>1 DEF Attempts
  <1> QED
    BY <1>8, <1>13, <1>14, <1>15 DEF Attempts

\* The steps of the cells during random access and connection set-up.
LEMMA AttemptsCellStep ==
    ASSUME LteCell \in AdmittingCells, LossesBound,
           Typed, Attachment, Attempts, NEW k \in Legs, CellStep(k)
    PROVE  Attempts'
  <1>0. /\ AirTyped /\ BoundsTyped /\ LegInv(k) /\ Legs = {"lte", "mm"} /\ ue["lte"].cell = LteCell
    BY CellsDiffer DEF Typed, Attachment
  <1>1. CASE AllocateTemporaryCellRnti(k)
    BY <1>1, AttemptsAllocate
  <1>2. CASE RecvRrcConnectionRequest(k) \/ RecvRrcConnectionSetupCompleted(k)
    <2>1. ContextsContinue /\ lastRnti' = lastRnti
      BY <1>2, ContinuesCellStep
    <2>2. UNCHANGED <<ue, rar, losses>> /\ losses' \in Nat /\ losses' >= losses
      <3>1. UNCHANGED <<ue, rar, losses>>
        BY <1>2 DEF RecvRrcConnectionRequest, RecvRrcConnectionSetupCompleted, Stop,
                    terminal, air, bounds
      <3>2. losses \in Nat
        BY <1>0, AccessAssumption DEF BoundsTyped
      <3> QED
        BY <3>1, <3>2
    <2>3. CASE Stop("RecvRrcConnectionRequest: unexpected context")
               \/ Stop("RecvRrcConnectionSetupCompleted: unexpected context")
      <3>1. UNCHANGED <<ue, rar, up, srb0>>
        BY <2>3 DEF Stop, terminal, air
      <3> QED
        BY <1>0, <2>1, <2>2, <3>1, Undisturbed, AttemptsKept DEF Attempts
    <2>4. CASE RecvRrcConnectionRequest(k) /\ ContextOf(k).state = "INITIAL_RANDOM_ACCESS"
      <3>1. PICK answer \in Answers :
                /\ srb0' = [srb0 EXCEPT ![k] = @ \cup {answer}]
                /\ up' = TakenUp(k) /\ up[k] # <<>>
                /\ k = "lte" => answer = RrcConnectionSetup
        BY <1>0, <2>4 DEF RecvRrcConnectionRequest, ArrivesUp, Answers
      <3>2. srb0'[k] = srb0[k] \cup {answer}
            /\ \A j \in Legs : j # k => srb0'[j] = srb0[j] /\ up'[j] = up[j]
        BY <1>0, <3>1 DEF AirTyped, TakenUp
      <3>3. GoesOn(k)
        BY <3>1, <3>2 DEF GoesOn, Tries
      <3>4. k = "mm" => MmGoesOn
        <4>1. ue[k].state \in Attached
          BY <1>0, <3>1, SenderIsAttached
        <4> QED
          BY <2>2, <4>1 DEF MmGoesOn, Attached, Searching, Early
      <3>5. \A j \in Legs : j # k => GoesOn(j) /\ (j = "mm" => MmGoesOn)
        BY <2>2, <3>2, Undisturbed
      <3>6. RrcConnectionReject \notin srb0'["lte"]
        BY <1>0, <3>1, <3>2, MessagesAre DEF Attempts
      <3> QED
        BY <1>0, <2>1, <2>2, <3>3, <3>4, <3>5, <3>6, AttemptsKept
    <2>5. CASE RecvRrcConnectionSetupCompleted(k) /\ ContextOf(k).state = "CONNECTION_SETUP"
      <3>1. PICK w, onLte : ConnectedNormally(k, w, onLte) /\ up' = TakenUp(k) /\ up[k] # <<>>
                            /\ Head(up[k]).type = "SetupCompleted"
        BY <2>5 DEF RecvRrcConnectionSetupCompleted, ArrivesUp
      <3>2. /\ \/ srb0' = srb0
               \/ srb0' = [srb0 EXCEPT ![k] = @ \cup {RrcConnectToMmWave(best)}]
            /\ \A j \in Legs : j # k => up'[j] = up[j]
        BY <1>0, <3>1 DEF ConnectedNormally, AirTyped, TakenUp
      <3>3. RrcConnectToMmWave(best) \notin Answers
        BY MessagesAre DEF Answers
      <3>4. \A j \in Legs : srb0[j] \cap Answers = srb0'[j] \cap Answers
        BY <1>0, <3>2, <3>3 DEF AirTyped
      <3>5. ue[k].state = "CONNECTED_NORMALLY"
        <4>1. ue[k].state \in Attached
          BY <1>0, <3>1, SenderIsAttached
        <4>2. up[k] # <<Uplink("Request")>>
          BY <3>1, MessagesAre
        <4> QED
          BY <1>0, <3>1, <4>1, <4>2 DEF LegInv, Connecting, Requesting, Answered, Attached
      <3>6. GoesOn(k) /\ (k = "mm" => MmGoesOn)
        BY <2>2, <3>5, ConnectedGoesOn
      <3>7. \A j \in Legs : j # k => GoesOn(j) /\ (j = "mm" => MmGoesOn)
        BY <2>2, <3>2, <3>4, Undisturbed
      <3>8. RrcConnectionReject \notin srb0'["lte"]
        BY <1>0, <3>4 DEF Attempts, Answers
      <3> QED
        BY <1>0, <2>1, <2>2, <3>6, <3>7, <3>8, AttemptsKept
    <2> QED
      BY <1>2, <2>3, <2>4, <2>5 DEF RecvRrcConnectionRequest, RecvRrcConnectionSetupCompleted
  <1> QED
    BY <1>1, <1>2 DEF CellStep

\* Losses, and random access that fails.
LEMMA AttemptsLose ==
    ASSUME Typed, Attachment, Attempts, RandomAccessFailed \/ \E k \in Legs : Lose(k)
    PROVE  Attempts'
  <1>0. /\ UeTyped /\ AirTyped /\ Legs = {"lte", "mm"} /\ ue["lte"] \in UeRrcs
        /\ losses \in Nat
    BY UeFields, CellsDiffer, AccessAssumption DEF Typed, BoundsTyped
  <1>1. /\ UNCHANGED <<ctx, lastRnti>> /\ losses' \in Nat /\ losses' > losses
        /\ losses' >= losses
    BY <1>0 DEF RandomAccessFailed, Lose, contexts
  <1>2. ContextsContinue
    BY <1>1, ContinuesSame
  <1>3. \A j \in Legs : srb0'[j] \subseteq srb0[j]
    BY <1>0 DEF RandomAccessFailed, Lose, air, AirTyped
  <1>4. GoesOn("lte") /\ GoesOn("mm")
    BY <1>1 DEF GoesOn
  <1>5. ue'["mm"] = ue["mm"] /\ ue'["lte"].cell = ue["lte"].cell
    BY <1>0, CampStates DEF RandomAccessFailed, Lose, terminal, UeTyped
  <1>6. MmGoesOn
    BY <1>4, <1>5 DEF MmGoesOn
  <1>7. RrcConnectionReject \notin srb0'["lte"]
    BY <1>0, <1>3 DEF Attempts
  <1> QED
    BY <1>1, <1>2, <1>4, <1>5, <1>6, <1>7, AttemptsKept

\* The steps after which both legs and what is on their way are as before, but for
\* further messages on SRB0 and uplink messages of the connected LTE leg.
LEMMA AttemptsSame ==
    ASSUME Typed, Attachment, Attempts, ContextsContinue, lastRnti' = lastRnti,
           UNCHANGED <<ue, rar, losses>>, up'["mm"] = up["mm"],
           up'["lte"] = up["lte"] \/ Connected("lte"),
           \A k \in Legs : srb0'[k] \cap Answers = srb0[k] \cap Answers
    PROVE  Attempts'
  <1>0. Legs = {"lte", "mm"} /\ losses' \in Nat /\ losses' >= losses
    BY AccessAssumption DEF Legs, Typed, BoundsTyped
  <1>1. MmGoesOn
    BY <1>0, Undisturbed
  <1>2. GoesOn("lte")
    BY <1>0, Undisturbed, ConnectedGoesOn DEF Connected
  <1>3. RrcConnectionReject \notin srb0'["lte"]
    BY <1>0 DEF Attempts, Answers
  <1> QED
    BY <1>0, <1>1, <1>2, <1>3, AttemptsKept

\* A command to connect is no answer.
LEMMA CommandsAreNoAnswers ==
    ASSUME Typed, NEW b, srb0' = [srb0 EXCEPT !["lte"] = @ \cup {RrcConnectToMmWave(b)}]
    PROVE  \A k \in Legs : srb0'[k] \cap Answers = srb0[k] \cap Answers
  <1>1. RrcConnectToMmWave(b) \notin Answers
    BY MessagesAre DEF Answers
  <1>2. srb0 \in [Legs -> SUBSET SignalMessages]
    BY DEF Typed, AirTyped
  <1> QED
    BY <1>1, <1>2

\* The assertion that ends the simulation.
LEMMA AttemptsStop ==
    ASSUME Typed, Attachment, Attempts, NEW why, Stop(why)
    PROVE  Attempts'
  <1>1. UNCHANGED <<ctx, lastRnti, ue, rar, losses, up, srb0>>
    BY DEF Stop, contexts, terminal, air, bounds
  <1> QED
    BY <1>1, ContinuesSame, AttemptsSame

\* The calls of the UE's NAS and the messages of its bearers.
LEMMA AttemptsConfigured ==
    ASSUME Typed, Attachment, Reporting, Attempts, UeConfigured
    PROVE  Attempts'
  <1>0. /\ UeTyped /\ AirTyped /\ Legs = {"lte", "mm"} /\ LegInv("mm")
        /\ ue["lte"] \in UeRrcs /\ ue["mm"] \in UeRrcs /\ losses \in Nat
    BY UeFields, CellsDiffer, AccessAssumption DEF Typed, BoundsTyped
  <1>1. CASE RetryConnect
    <2>1. PICK u : u = Connect(ue["lte"])
      OBVIOUS
    <2>2. /\ ue'["lte"] = u /\ ue'["mm"] = ue["mm"]
          /\ UNCHANGED <<ctx, lastRnti, losses, rar, srb0, up>>
      BY <1>0, <1>1, <2>1 DEF RetryConnect, contexts, air, bounds, UeTyped
    <2>3. /\ u.cell = ue["lte"].cell
          /\ u.state = ue["lte"].state \/ ue["lte"].state \in Waiting
      BY <1>0, <2>1, ConnectStates
    <2>4. GoesOn("lte")
      BY <2>2, <2>3 DEF GoesOn, Tries, Waiting
    <2>5. MmGoesOn
      BY <1>0, <2>2, Undisturbed
    <2>6. RrcConnectionReject \notin srb0'["lte"]
      BY <2>2 DEF Attempts
    <2>7. losses' \in Nat /\ losses' >= losses
      BY <1>0, <2>2
    <2> QED
      BY <2>2, <2>3, <2>4, <2>5, <2>6, <2>7, ContinuesSame, AttemptsKept
  <1>2. CASE UeRecvRrcConnectToMmWave
    <2>1. PICK m \in srb0["lte"] :
              /\ m.type = "ConnectToMmWave"
              /\ ue' = [ue EXCEPT !["mm"] = Connect(ForceCampedOnEnb(@, m.cell))]
              /\ srb0' = [srb0 EXCEPT !["lte"] = @ \ {m}]
              /\ UNCHANGED <<ctx, lastRnti, losses, rar, up>>
      BY <1>2 DEF UeRecvRrcConnectToMmWave, contexts, bounds
    <2>2. /\ m.cell \in Cells /\ m \in Commands /\ m \notin Answers
          /\ RrcConnectionSetup \in srb0["lte"] <=> RrcConnectionSetup \in srb0'["lte"]
          /\ RrcConnectionReject \in srb0["lte"] <=> RrcConnectionReject \in srb0'["lte"]
      BY <1>0, <2>1, FieldTypes, MessagesAre DEF AirTyped, Commands, Answers
    <2>3. ue["mm"].cell = NoCell /\ ue["mm"].state = "IDLE_START"
      <3>1. nas.cell = NoCell /\ ue["mm"].cell = NoCell
        BY <2>2 DEF Reporting, OneCommand
      <3> QED
        BY <1>0, <3>1, CellsAssumption DEF LegInv, AtItsCell, NoCell
    <2>4. PICK u : u = Connect(ForceCampedOnEnb(ue["mm"], m.cell))
      OBVIOUS
    <2>5. u.cell = m.cell /\ u.state = "IDLE_WAIT_MIB"
      BY <1>0, <2>3, <2>4 DEF Connect, ForceCampedOnEnb, UeRrcs
    <2>6. ue'["mm"] = u /\ ue'["lte"] = ue["lte"]
      BY <1>0, <2>1, <2>4 DEF UeTyped
    <2>7. \A c \in Cells : lastRnti[c] = NoRnti /\ c # NoCell
      BY <2>3, CellsAssumption DEF Attempts, NoCell
    <2>8. NewerAreFree' /\ RrcConnectionReject \notin srb0'["lte"]
      BY <2>1, <2>2 DEF Attempts, NewerAreFree
    <2>9. Spent("lte")'
      <3>1. Tries("lte") = Tries("lte")'
        BY <2>1, <2>2, <2>6 DEF Tries, Answers
      <3> QED
        BY <2>1, <2>6, <3>1 DEF Attempts, Spent
    <2>10. Spent("mm")'
      <3>1. lastRnti'[ue'["mm"].cell] = 0 /\ losses' \in Nat
        BY <1>0, <2>1, <2>2, <2>5, <2>6, <2>7 DEF NoRnti
      <3>2. (IF Tries("mm")' THEN 1 ELSE 0) \in {0, 1}
        OBVIOUS
      <3> QED
        BY <3>1, <3>2 DEF Spent
    <2>11. \A c \in Cells : lastRnti'[c] = NoRnti
      BY <2>1, <2>7
    <2> QED
      BY <2>5, <2>6, <2>8, <2>9, <2>10, <2>11 DEF Attempts, Early
  <1>3. CASE UeRecvReconfiguration
    <2>1. CASE ue["lte"].state # "CONNECTED_NORMALLY"
      BY <1>3, <2>1, AttemptsStop DEF UeRecvReconfiguration
    <2>2. CASE ue["lte"].state = "CONNECTED_NORMALLY"
      <3>1. /\ srb1 # <<>>
            /\ up' = [up EXCEPT !["lte"] = Append(@, Uplink("ReconfCompleted"))]
            /\ UNCHANGED <<ue, ctx, lastRnti, losses, rar, srb0>>
        BY <1>3, <2>2 DEF UeRecvReconfiguration, contexts, bounds
      <3>2. Connected("lte")
        BY <3>1 DEF Attachment, LteFirst, DualStarted
      <3>3. up'["mm"] = up["mm"]
        BY <1>0, <3>1 DEF AirTyped
      <3> QED
        BY <3>1, <3>2, <3>3, ContinuesSame, AttemptsSame
    <2> QED
      BY <2>1, <2>2
  <1>4. CASE UeRecvRrcConnectionSwitch
    <2>1. UNCHANGED <<ue, ctx, lastRnti, losses, rar, srb0, up>>
      BY <1>4 DEF UeRecvRrcConnectionSwitch, contexts, bounds
    <2> QED
      BY <2>1, ContinuesSame, AttemptsSame
  <1> QED
    BY <1>1, <1>2, <1>3, <1>4 DEF UeConfigured

\* The steps on the bearers, on the X2 links, of the timers and of the coordinator.
LEMMA AttemptsOther ==
    ASSUME Typed, Attachment, Attempts,
           \/ BearersStep \/ Expire \/ TriggerUeAssociationUpdate \/ SinrChanges
           \/ \E c \in Cells : X2Step(c)
    PROVE  Attempts'
  <1>1. ContextsContinue /\ lastRnti' = lastRnti
    <2>1. CASE SinrChanges
      BY <2>1, ContinuesSame DEF SinrChanges, contexts
    <2> QED
      BY <2>1, ContinuesBearers, ContinuesX2, ContinuesOther
  <1>2. CASE \E c \in Cells : X2Step(c)
    <2>1. UNCHANGED <<ue, rar, losses, up, srb0>>
      BY <1>2 DEF X2Step, RecvRlcSetupRequest, RecvRlcSetupCompleted,
                  RecvConnectionSwitchToMmWave, Stop, terminal, air, bounds
    <2> QED
      BY <1>1, <2>1, AttemptsSame
  <1>3. CASE Expire \/ SinrChanges
    <2>1. UNCHANGED <<ue, rar, losses, up, srb0>>
      BY <1>3 DEF Expire, ConnectionRequestTimeout, ConnectionSetupTimeout,
                  ConnectionRejectedTimeout, RemoveUe, SinrChanges, terminal, air, bounds
    <2> QED
      BY <1>1, <2>1, AttemptsSame
  <1>4. CASE TriggerUeAssociationUpdate
    <2>1. /\ UNCHANGED <<ue, rar, losses, up>>
          /\ srb0' = srb0 \/ \E b : srb0' = [srb0 EXCEPT !["lte"] = @ \cup {RrcConnectToMmWave(b)}]
      BY <1>4 DEF TriggerUeAssociationUpdate, SwitchToLte, SelectBest, Stop, terminal, air,
                  bounds
    <2>2. \A k \in Legs : srb0'[k] \cap Answers = srb0[k] \cap Answers
      BY <2>1, CommandsAreNoAnswers
    <2> QED
      BY <1>1, <2>1, <2>2, AttemptsSame
  <1>5. CASE BearersStep
    <2>1. CASE InitialContextSetup \/ \E why : Stop(why)
      <3>1. UNCHANGED <<ue, rar, losses, up, srb0>>
        BY <2>1 DEF InitialContextSetup, Stop, terminal, air, bounds
      <3> QED
        BY <1>1, <3>1, AttemptsSame
    <2>2. CASE RecvSecondaryCellConnected \/ RecvReconfigurationCompleted
      <3>1. PICK m : m = Head(up["lte"])
        OBVIOUS
      <3>2. CASE \A why : ~Stop(why)
        <4>1. /\ up["lte"] # <<>>
              /\ m.type \in {"SecondaryCellConnected", "ReconfCompleted"}
              /\ up' = TakenUp("lte") /\ UNCHANGED <<ue, rar, losses>>
              /\ \/ srb0' = srb0
                 \/ srb0' = [srb0 EXCEPT !["lte"] = @ \cup {RrcConnectToMmWave(best)}]
          BY <2>2, <3>1, <3>2
             DEF RecvSecondaryCellConnected, RecvReconfigurationCompleted, ArrivesUp,
                 ConnectedNormally, terminal, bounds
        <4>2. Connected("lte") /\ up'["mm"] = up["mm"]
          BY <3>1, <4>1, TakesFromConnected
        <4>3. \A k \in Legs : srb0'[k] \cap Answers = srb0[k] \cap Answers
          BY <4>1, CommandsAreNoAnswers
        <4> QED
          BY <1>1, <4>1, <4>2, <4>3, AttemptsSame
      <3> QED
        BY <3>2, <2>1
    <2> QED
      BY <1>5, <2>1, <2>2 DEF BearersStep
  <1> QED
    BY <1>2, <1>3, <1>4, <1>5

\* Every step.
LEMMA AttemptsStep ==
    ASSUME LteCell \in AdmittingCells, LossesBound,
           Typed, Attachment, Reporting, Attempts, [Next]_vars
    PROVE  Attempts'
  <1>1. CASE Next
    <2>1. CASE \E k \in Legs : UeStep(k) \/ CellStep(k)
      BY <2>1, AttemptsUeStep, AttemptsCellStep
    <2>2. CASE RandomAccessFailed \/ \E k \in Legs : Lose(k)
      BY <2>2, AttemptsLose
    <2>3. CASE UeConfigured
      BY <2>3, AttemptsConfigured
    <2> QED
      BY <1>1, <2>1, <2>2, <2>3, AttemptsOther DEF Next
  <1>2. CASE UNCHANGED vars
    <2>1. UNCHANGED <<ue, ctx, lastRnti, losses, rar, srb0, up>>
      BY <1>2 DEF vars, terminal, contexts, air, bounds
    <2> QED
      BY <2>1, ContinuesSame, AttemptsSame
  <1> QED
    BY <1>1, <1>2

\* At the start no RNTI has been given out, no UE is admitted and nothing is split.
LEMMA FaultsInit == Init => SplitsExist /\ Found /\ Calm /\ Attempts
  <1> SUFFICES ASSUME Init PROVE SplitsExist /\ Found /\ Calm /\ Attempts
    OBVIOUS
  <1>0. "lte" \in Legs /\ "mm" \in Legs /\ LteCell \in Nodes /\ Cells \subseteq Nodes
    BY DEF Legs, Nodes
  <1>1. \A c \in Nodes, r \in Rntis : ctx[c][r].state = "NONE"
    BY DEF Init, NoContext
  <1>2. SplitsExist
    BY <1>1 DEF SplitsExist, HasSplit
  <1>3. Found /\ Calm
    BY DEF Init, Found, Calm
  <1>4. NewerAreFree /\ RrcConnectionReject \notin srb0["lte"]
    BY <1>0, <1>1 DEF Init, NewerAreFree
  <1>5. Spent("lte")
    <2>1. lastRnti[ue["lte"].cell] = 0 /\ losses = 0
      BY <1>0 DEF Init, NoRnti
    <2> QED
      BY <2>1 DEF Spent
  <1>6. ue["mm"].state = "IDLE_START" /\ \A c \in Cells : lastRnti[c] = NoRnti
    BY <1>0 DEF Init
  <1> QED
    BY <1>2, <1>3, <1>4, <1>5, <1>6 DEF Attempts, Searching, Early

-----------------------------------------------------------------------------
(***************************************************************************)
(* With these facts every message finds the context that it needs.         *)
(***************************************************************************)
\* The UE's side: an answer to a request finds the leg that waits for it, and a
\* message on SRB1 finds the UE connected.
LEMMA UeMeetsNoFault ==
    ASSUME Typed, Attachment, UeConfigured \/ \E k \in Legs : UeStep(k)
    PROVE  fault' = fault
  <1>1. ASSUME NEW k \in Legs, UeStep(k) PROVE fault' = fault
    <2>1. CASE UeRecvRrcConnectionSetup(k)
      <3>1. ue[k].state = "IDLE_CONNECTING"
        BY <2>1, AnswerFinds DEF UeRecvRrcConnectionSetup, Attachment
      <3> QED
        BY <2>1, <3>1 DEF UeRecvRrcConnectionSetup
    <2> QED
      BY <1>1, <2>1 DEF UeStep, RecvMib, RecvSib2, RandomAccessSuccessful,
                        UeRecvRrcConnectionReject, ConnectionTimeout
  <1>2. CASE UeRecvReconfiguration
    <2>1. ue["lte"].state = "CONNECTED_NORMALLY"
      BY <1>2 DEF UeRecvReconfiguration, Attachment, LteFirst, DualStarted, Connected
    <2> QED
      BY <1>2, <2>1 DEF UeRecvReconfiguration
  <1> QED
    BY <1>1, <1>2 DEF UeConfigured, RetryConnect, UeRecvRrcConnectToMmWave,
                      UeRecvRrcConnectionSwitch

\* What the sender of a message of the connection set-up finds at its cell.
LEMMA SenderIsExpected ==
    ASSUME Typed, Attachment, NEW k \in Legs, up[k] # <<>>, NEW m, m = Head(up[k])
    PROVE  /\ m.type = "Request" => ContextOf(k).state = "INITIAL_RANDOM_ACCESS"
           /\ m.type = "SetupCompleted" => ContextOf(k).state = "CONNECTION_SETUP"
  <1>0. LegInv(k) /\ ue[k].state \in Attached
    BY SenderIsAttached DEF Attachment
  <1>1. m \in Items(up[k])
    <2>1. up[k] \in Seq(UplinkMessages)
      BY DEF Typed, AirTyped
    <2> QED
      BY <2>1, ItemsTail
  <1>2. /\ Uplink("Request").type = "Request"
        /\ Uplink("SetupCompleted").type = "SetupCompleted"
    BY MessagesAre
  <1>3. CASE ue[k].state = "IDLE_CONNECTING"
    <2>1. up[k] = <<Uplink("Request")>> /\ ContextOf(k).state = "INITIAL_RANDOM_ACCESS"
      BY <1>0, <1>3 DEF LegInv, Connecting, Requesting, Answered
    <2> QED
      BY <1>2, <2>1
  <1>4. CASE ue[k].state = "CONNECTED_NORMALLY"
    <2>1. \/ up[k] = <<Uplink("SetupCompleted")>> /\ ContextOf(k).state = "CONNECTION_SETUP"
          \/ \A n \in Items(up[k]) : n.type \notin {"Request", "SetupCompleted"}
      BY <1>0, <1>4 DEF LegInv, Accepted
    <2> QED
      BY <1>1, <1>2, <2>1
  <1> QED
    BY <1>0, <1>3, <1>4 DEF Attached

\* The cells' side of random access and connection set-up.
LEMMA CellMeetsNoFault ==
    ASSUME LossesBound, Typed, Attachment, Attempts, NEW k \in Legs, CellStep(k)
    PROVE  fault' = fault
  <1>1. CASE AllocateTemporaryCellRnti(k)
    BY <1>1, AttemptsAllocate
  <1>2. CASE RecvRrcConnectionRequest(k)
    <2>1. ContextOf(k).state = "INITIAL_RANDOM_ACCESS"
      BY <1>2, SenderIsExpected DEF RecvRrcConnectionRequest, ArrivesUp
    <2> QED
      BY <1>2, <2>1 DEF RecvRrcConnectionRequest
  <1>3. CASE RecvRrcConnectionSetupCompleted(k)
    <2>1. ContextOf(k).state = "CONNECTION_SETUP"
      BY <1>3, SenderIsExpected DEF RecvRrcConnectionSetupCompleted, ArrivesUp
    <2> QED
      BY <1>3, <2>1 DEF RecvRrcConnectionSetupCompleted
  <1> QED
    BY <1>1, <1>2, <1>3 DEF CellStep

\* The set-up of the bearers in the LTE cell.
LEMMA BearersMeetNoFault ==
    ASSUME Typed, Attachment, Bearers, SplitsExist, BearersStep
    PROVE  fault' = fault
  <1>1. CASE InitialContextSetup
    <2>1. PICK r, x : r = rntiOf[LteCell] /\ x = ctx[LteCell][r]
      OBVIOUS
    <2>2. s1
      BY <1>1 DEF InitialContextSetup
    <2>3. /\ ue["lte"].state \in Attached /\ r = ue["lte"].rnti
          /\ ContextOf("lte").state \in {"CONNECTION_SETUP"} \cup ConnectedStates
      BY <2>1, <2>2 DEF Attachment, ContextAsked
    <2>4. /\ r \in Rntis /\ LteCell \in Nodes /\ x = ContextOf("lte")
      <3>1. LegInv("lte") /\ "lte" \in Legs /\ ue["lte"].cell = LteCell
        BY <2>3, CellsDiffer
      <3> QED
        BY <2>1, <2>3, <3>1, LegLocated DEF ContextOf, Nodes
    <2>5. BearerFields(x) /\ HasSplit(x) /\ x.drbs = {}
      BY <2>1, <2>2, <2>4, FieldsOf DEF SplitsExist, Bearers, NotSetUpYet, LteX
    <2>6. x.state # "MC_CONNECTION_RECONFIGURATION"
      BY <2>5 DEF BearerFields, HasSplit
    <2> QED
      BY <1>1, <2>1, <2>3, <2>4, <2>6 DEF InitialContextSetup, ConnectedStates
  <1>2. CASE RecvSecondaryCellConnected \/ RecvReconfigurationCompleted
    <2>1. PICK m : m = Head(up["lte"])
      OBVIOUS
    <2>2. up["lte"] # <<>> /\ m.type \in {"SecondaryCellConnected", "ReconfCompleted"}
      BY <1>2, <2>1 DEF RecvSecondaryCellConnected, RecvReconfigurationCompleted, ArrivesUp
    <2>3. Connected("lte")
      BY <2>1, <2>2, TakesFromConnected
    <2> QED
      BY <1>2, <2>3 DEF RecvSecondaryCellConnected, RecvReconfigurationCompleted, Connected,
                        ConnectedStates
  <1> QED
    BY <1>1, <1>2 DEF BearersStep

\* The messages between the cells.
LEMMA X2MeetsNoFault ==
    ASSUME Typed, Attachment, Reporting, Bearers, NEW c \in Cells, X2Step(c)
    PROVE  fault' = fault
  <1>0. x2 \in [Links -> Seq(LinkMessages)] /\ LteCell \in Nodes /\ c \in Nodes /\ c # LteCell
    BY CellsAssumption DEF Typed, AirTyped, Nodes
  <1>1. PICK y, rlc : y = LteX /\ rlc = MmRlc
    OBVIOUS
  <1>2. Connected("lte")
    BY OnALink
       DEF X2Step, RecvRlcSetupRequest, RecvRlcSetupCompleted, RecvConnectionSwitchToMmWave
  <1>3. SplitOver(y, rlc, pdcp, x2)
    BY <1>1, <1>2 DEF Bearers, Splitting
  <1>4. CASE RecvRlcSetupRequest(c) \/ RecvConnectionSwitchToMmWave(c)
    <2>1. PICK m : m = Head(x2[<<LteCell, c>>])
      OBVIOUS
    <2>2. PICK type \in {"RlcSetupRequest", "SwitchConnection"} : Arrives(x2, LteCell, c, type)
      BY <1>4 DEF RecvRlcSetupRequest, RecvConnectionSwitchToMmWave
    <2>3. /\ m \in Items(x2[<<LteCell, c>>]) /\ m.type = type /\ <<LteCell, c>> \in Links
      <3>1. PICK net : net = Taken(x2, LteCell, c)
        OBVIOUS
      <3> QED
        BY <1>0, <2>1, <2>2, <3>1, TakenItems
    <2>4. Placed(y, rlc, pdcp, <<LteCell, c>>, m)
      BY <1>3, <2>3 DEF SplitOver
    <2>5. /\ y.mmCell # NoCell /\ y.mmCell = c /\ m.rnti = y.mmRnti
          /\ type = "SwitchConnection" => rlc # {}
      BY <2>2, <2>3, <2>4 DEF Placed
    <2>6. /\ m.rnti \in Rntis /\ ContextOf("mm") = ctx[c][m.rnti]
          /\ ContextOf("mm").state \in {"CONNECTION_SETUP"} \cup ConnectedStates
      BY <1>1, <1>2, <2>5, SecondaryContext
    <2>7. Known(c, m.rnti)
      BY <2>6 DEF Known, ConnectedStates, Rntis, NoRnti
    <2>8. RecvConnectionSwitchToMmWave(c) => ctx[c][m.rnti].rlc # {}
      <3>1. RecvConnectionSwitchToMmWave(c) => m.type = "SwitchConnection"
        BY <2>1 DEF RecvConnectionSwitchToMmWave, Arrives
      <3> QED
        BY <1>1, <2>3, <2>5, <2>6, <3>1 DEF MmRlc
    <2> QED
      BY <1>4, <2>1, <2>7, <2>8 DEF RecvRlcSetupRequest, RecvConnectionSwitchToMmWave
  <1>5. CASE RecvRlcSetupCompleted(c)
    <2>1. PICK m : m = Head(x2[<<c, LteCell>>])
      OBVIOUS
    <2>2. Arrives(x2, c, LteCell, "RlcSetupCompleted")
      BY <1>5 DEF RecvRlcSetupCompleted
    <2>3. m \in Items(x2[<<c, LteCell>>]) /\ m.type = "RlcSetupCompleted" /\ <<c, LteCell>> \in Links
      <3>1. PICK net : net = Taken(x2, c, LteCell)
        OBVIOUS
      <3> QED
        BY <1>0, <2>1, <2>2, <3>1, TakenItems
    <2>4. m.drb \in y.drbs
      BY <1>3, <2>3 DEF SplitOver, Placed
    <2>5. y = ctx[LteCell][rntiOf[LteCell]] /\ rntiOf[LteCell] \in Rntis
      BY <1>1, <1>2, LteContextIs DEF LteX
    <2>6. Known(LteCell, rntiOf[LteCell])
      BY <1>1, <1>2, <2>5 DEF Known, Connected, LteX, ConnectedStates, Rntis, NoRnti
    <2> QED
      BY <1>5, <2>1, <2>4, <2>5, <2>6 DEF RecvRlcSetupCompleted
  <1> QED
    BY <1>4, <1>5 DEF X2Step

\* The decision of the coordinator: the UE that it looks up has a context, or nothing
\* makes it look the UE up.
LEMMA DecisionMeetsNoFault ==
    ASSUME Typed, Attachment, Found \/ (NoOutage /\ Calm), TriggerUeAssociationUpdate
    PROVE  fault' = fault
  <1>1. ~LooksUpUe \/ Known(LteCell, rntiOf[LteCell])
    <2>1. CASE Found
      BY <2>1, FoundIsKnown DEF LooksUpUe
    <2>2. CASE NoOutage /\ Calm
      <3>1. /\ sinr \in [Cells -> Sinrs] /\ OutageThreshold \in Int /\ best \in Cells
            /\ Sinrs \subseteq Int
        BY AccessAssumption DEF Typed, CoordinatorTyped
      <3>2. sinr[best] \in Int /\ sinr[best] >= OutageThreshold + 2
        BY <2>2, <3>1 DEF NoOutage
      <3>3. Threshold = OutageThreshold + 0
        BY <2>2 DEF Threshold, Calm
      <3>4. ~(sinr[best] < Threshold)
        BY <3>1, <3>2, <3>3
      <3> QED
        BY <2>2, <3>1, <3>4 DEF LooksUpUe, Outage, Calm
    <2> QED
      BY <2>1, <2>2
  <1> QED
    BY <1>1 DEF TriggerUeAssociationUpdate

\* What holds of the assertions: with no message of the LTE leg lost the UE that the
\* coordinator looks up is there; with a good radio it is never looked up.
Faultless ==
    /\ SplitsExist /\ Attempts /\ NoAssertionFails
    /\ "lte" \notin Lossy => Found
    /\ NoOutage => Calm

\* Faultless is inductive together with the invariants of the layers before.
LEMMA FaultlessStep ==
    ASSUME LteCell \in AdmittingCells, LossesBound, "lte" \notin Lossy \/ NoOutage,
           Typed, Attachment, Reporting, Bearers, Faultless, [Next]_vars
    PROVE  Faultless'
  <1>1. /\ SplitsExist' /\ Attempts'
        /\ "lte" \notin Lossy => Found'
        /\ NoOutage => Calm'
    BY SplitsExistStep, AttemptsStep, FoundStep, CalmStep DEF Faultless
  <1>2. fault' = fault
    <2>1. CASE UNCHANGED vars
      BY <2>1 DEF vars
    <2>2. CASE UeConfigured \/ \E k \in Legs : UeStep(k)
      BY <2>2, UeMeetsNoFault
    <2>3. CASE \E k \in Legs : CellStep(k)
      BY <2>3, CellMeetsNoFault DEF Faultless
    <2>4. CASE BearersStep
      BY <2>4, BearersMeetNoFault DEF Faultless
    <2>5. CASE \E c \in Cells : X2Step(c)
      BY <2>5, X2MeetsNoFault
    <2>6. CASE TriggerUeAssociationUpdate
      BY <2>6, DecisionMeetsNoFault DEF Faultless
    <2>7. CASE \/ \E k \in Legs : Lose(k)
               \/ RandomAccessFailed \/ Expire \/ SinrChanges
      BY <2>7 DEF Lose, RandomAccessFailed, Expire, ConnectionRequestTimeout,
                  ConnectionSetupTimeout, ConnectionRejectedTimeout, RemoveUe, SinrChanges
    <2> QED
      BY <2>1, <2>2, <2>3, <2>4, <2>5, <2>6, <2>7 DEF Next
  <1> QED
    BY <1>1, <1>2 DEF Faultless, NoAssertionFails

\* NoAssertionFails, for every number of cells, bearers, RNTIs and losses: no message
\* finds its context gone or in a state that does not expect it, and the RNTIs do not
\* run out.  The LTE cell must admit the UE, there must be an RNTI for every loss, and
\* the coordinator, which looks up UEs that it has put on its list before they are
\* connected, must not be able to do so: either nothing of the LTE leg is lost, or no
\* cell is ever in outage.
THEOREM AccessMeetsNoAssertion ==
    ASSUME LteCell \in AdmittingCells, LossesBound, "lte" \notin Lossy \/ NoOutage
    PROVE  Spec => []NoAssertionFails
  <1>1. Init => Faultless
    BY FaultsInit DEF Faultless, Init, NoAssertionFails
  <1>2. (Typed /\ Attachment /\ Reporting /\ Bearers) /\ Faultless /\ [Next]_vars => Faultless'
    BY FaultlessStep
  <1>3. Faultless => NoAssertionFails
    BY DEF Faultless
  <1> QED
    BY <1>1, <1>2, <1>3, BearersAlways, PTL DEF Spec

-----------------------------------------------------------------------------
(***************************************************************************)
(* The end of the set-up: a reconfiguration that the LTE cell has started  *)
(* is under way, either no RLC has been asked for or all have, and the     *)
(* coordinator counts the set-up as done when bearers have been split.     *)
(***************************************************************************)
HasType(s, type) == \E m \in Items(s) : m.type = type

UnderWay == HasType(srb1, "Reconfiguration") \/ HasType(up["lte"], "ReconfCompleted")
Reconfiguring(x) == x.state # "CONNECTED_NORMALLY" => UnderWay

\* The RLC of bearer d has been asked for, set up or told to the UE.
Asked(x, net, d) ==
    \/ d \in x.mcDrbs
    \/ RlcSetupRequest(d, x.mmRnti) \in Items(net[<<LteCell, x.mmCell>>])
    \/ RlcSetupCompleted(d) \in Items(net[<<x.mmCell, LteCell>>])

RlcOnTheWay(net) == \E l \in Links :
    HasType(net[l], "RlcSetupRequest") \/ HasType(net[l], "RlcSetupCompleted")

AllAsked(x, net) == x.mcDrbs # {} \/ RlcOnTheWay(net) => \A d \in Drbs : Asked(x, net, d)

\* The coordinator and the PDCPs use the secondary cell, or the reconfiguration that
\* is under way is the one that makes them.
Concluded(x) ==
    /\ ~usingLte /\ last = x.mmCell /\ x.mcDrbs # {}
    /\ \A d \in x.mcDrbs : pdcp[d].mm \/ x.state = "MC_CONNECTION_RECONFIGURATION"

Proceeds(x) == Reconfiguring(x) /\ AllAsked(x, x2) /\ (setup => Concluded(x))

LteConnected == \E r \in Rntis : ctx[LteCell][r].state \in ConnectedStates

Progress ==
    /\ \A r \in Rntis : ctx[LteCell][r].state \in ConnectedStates => Proceeds(ctx[LteCell][r])
    /\ setup => LteConnected

\* A mmWave cell never reconfigures the UE.
Settled(x) ==
    /\ ~x.pendingReconf
    /\ x.state \in ConnectedStates => x.state = "CONNECTED_NORMALLY"
SettledContexts == \A c \in Cells, r \in Rntis : Settled(ctx[c][r])

\* A context of a mmWave cell is replaced, or one of the LTE cell.
LEMMA SettledOne ==
    ASSUME Typed, SettledContexts, NEW c \in Nodes, NEW r \in Rntis, NEW x \in Contexts,
           ctx' = [ctx EXCEPT ![c][r] = x], c # LteCell => Settled(x)
    PROVE  SettledContexts'
  <1>1. \A d \in Nodes, s \in Rntis :
            ctx'[d][s] = IF d = c /\ s = r THEN x ELSE ctx[d][s]
    BY ContextSet DEF Typed
  <1>2. \A d \in Cells : d \in Nodes /\ d # LteCell
    BY CellsAssumption DEF Nodes
  <1> QED
    BY <1>1, <1>2 DEF SettledContexts

\* A context of the LTE cell that may not exist.
LEMMA SettledLte ==
    ASSUME Typed, SettledContexts, NEW r, NEW x,
           ctx' = [ctx EXCEPT ![LteCell][r] = x]
    PROVE  SettledContexts'
  <1>1. \A d \in Cells : d \in Nodes /\ d # LteCell
    BY CellsAssumption DEF Nodes
  <1>2. \A d \in Cells : ctx'[d] = ctx[d]
    BY <1>1 DEF Typed, CellsTyped
  <1> QED
    BY <1>2 DEF SettledContexts

\* No context changes.
LEMMA SettledSame ==
    ASSUME SettledContexts, ctx' = ctx
    PROVE  SettledContexts'
  BY DEF SettledContexts

\* Random access and connection set-up.
LEMMA SettledCellStep ==
    ASSUME Typed, Attachment, SettledContexts, NEW k \in Legs, CellStep(k)
    PROVE  SettledContexts'
  <1>0. CellsTyped /\ AirTyped /\ LegInv(k) /\ Legs = {"lte", "mm"}
        /\ (k = "lte" => ue[k].cell = LteCell)
    BY CellsDiffer DEF Typed, Attachment
  <1>1. CASE AllocateTemporaryCellRnti(k)
    <2>1. PICK c : c = ue[k].cell
      OBVIOUS
    <2>2. CASE Stop("no more RNTIs available")
      BY <2>2, SettledSame DEF Stop, contexts
    <2>3. CASE \E r \in Rntis : Created(k, c, r)
      <3>1. PICK r \in Rntis : Created(k, c, r)
        BY <2>3
      <3>2. Settled(NewContext)
        BY DEF NewContext, NoContext, Settled, ConnectedStates
      <3>3. \A d \in Cells : d \in Nodes
        BY DEF Nodes
      <3> QED
        BY <3>1, <3>2, <3>3 DEF Created, SettledContexts
    <2> QED
      BY <1>1, <2>1, <2>2, <2>3, Allocates
  <1>2. CASE RecvRrcConnectionRequest(k)
    <2>1. CASE ContextOf(k).state # "INITIAL_RANDOM_ACCESS"
      BY <1>2, <2>1, SettledSame DEF RecvRrcConnectionRequest, Stop, contexts
    <2>2. CASE ContextOf(k).state = "INITIAL_RANDOM_ACCESS"
      <3>1. PICK st :
                /\ ctx' = WithContext(k, [ContextOf(k) EXCEPT !.state = st])
                /\ st \in {"CONNECTION_SETUP", "CONNECTION_REJECTED"}
                /\ up[k] # <<>>
        BY <1>2, <2>2 DEF RecvRrcConnectionRequest, ArrivesUp
      <3>2. PICK c, r, x : c = ue[k].cell /\ r = ue[k].rnti /\ x = [ContextOf(k) EXCEPT !.state = st]
        OBVIOUS
      <3>3. /\ c \in Nodes /\ r \in Rntis /\ ContextOf(k) \in Contexts
            /\ ContextOf(k) = ctx[c][r]
        BY <1>0, <3>1, <3>2, LegLocated, SenderIsAttached DEF ContextOf
      <3>4. /\ x \in Contexts /\ x.state = st
            /\ x.pendingReconf = ContextOf(k).pendingReconf
        BY <3>1, <3>2, <3>3 DEF Contexts, UeStates
      <3>5. c # LteCell => Settled(x)
        <4>1. c # LteCell => c \in Cells
          BY <3>3 DEF Nodes
        <4>2. x.state \notin ConnectedStates
          BY <3>1, <3>4 DEF ConnectedStates
        <4> QED
          BY <3>3, <3>4, <4>1, <4>2 DEF Settled, SettledContexts
      <3>6. ctx' = [ctx EXCEPT ![c][r] = x]
        BY <3>1, <3>2 DEF WithContext
      <3> QED
        BY <3>3, <3>4, <3>5, <3>6, SettledOne
    <2> QED
      BY <2>1, <2>2
  <1>3. CASE RecvRrcConnectionSetupCompleted(k)
    <2>1. CASE ContextOf(k).state # "CONNECTION_SETUP"
      BY <1>3, <2>1, SettledSame DEF RecvRrcConnectionSetupCompleted, Stop, contexts
    <2>2. CASE ContextOf(k).state = "CONNECTION_SETUP"
      <3> DEFINE w == [ContextOf(k) EXCEPT !.pendingConnect = (k = "lte")]
                 good == w.pendingConnect /\ sinr[best] > OutageThreshold
                 outage == w.pendingConnect /\ ~good
      <3>0. PICK c, r, x : c = ue[k].cell /\ r = ue[k].rnti /\ x = Normally(w, outage)
        OBVIOUS
      <3>1. ctx' = WithContext(k, x) /\ up[k] # <<>>
        BY <1>3, <2>2, <3>0
           DEF RecvRrcConnectionSetupCompleted, ArrivesUp, ConnectedNormally, Normally
      <3>2. /\ c \in Nodes /\ r \in Rntis /\ ContextOf(k) \in Contexts
            /\ ContextOf(k) = ctx[c][r] /\ (c # LteCell => c \in Cells)
        BY <1>0, <3>0, <3>1, LegLocated, SenderIsAttached DEF ContextOf, Nodes
      <3>3. w \in Contexts /\ w.pendingReconf = ContextOf(k).pendingReconf
        BY <3>2 DEF Contexts
      <3>4. outage \in BOOLEAN
        OBVIOUS
      <3> HIDE DEF w, outage
      <3>5. /\ x \in Contexts /\ ~x.pendingReconf
            /\ x.state = IF w.pendingReconf THEN "CONNECTION_RECONFIGURATION"
                                            ELSE "CONNECTED_NORMALLY"
        BY <3>0, <3>3, <3>4, NormallyIs
      <3>6. c # LteCell => Settled(x)
        <4>1. c # LteCell => ~w.pendingReconf
          BY <3>2, <3>3 DEF SettledContexts, Settled
        <4> QED
          BY <3>5, <4>1 DEF Settled
      <3>7. ctx' = [ctx EXCEPT ![c][r] = x]
        BY <3>0, <3>1 DEF WithContext
      <3> QED
        BY <3>2, <3>5, <3>6, <3>7, SettledOne
    <2> QED
      BY <2>1, <2>2
  <1> QED
    BY <1>1, <1>2, <1>3 DEF CellStep

\* The steps on the bearers, on the X2 links, of the timers and of the coordinator.
LEMMA SettledOther ==
    ASSUME Typed, Attachment, SettledContexts,
           \/ BearersStep \/ Expire \/ TriggerUeAssociationUpdate
           \/ \E c \in Cells : X2Step(c)
    PROVE  SettledContexts'
  <1>1. CASE BearersStep
    <2>1. ue["lte"].cell = LteCell
      BY CellsDiffer
    <2>2. ctx' = ctx \/ \E r, x : ctx' = [ctx EXCEPT ![LteCell][r] = x]
      <3>1. CASE InitialContextSetup
        BY <3>1 DEF InitialContextSetup, Stop, contexts
      <3>2. CASE RecvSecondaryCellConnected
        BY <2>1, <3>2 DEF RecvSecondaryCellConnected, WithContext, Stop, contexts
      <3>3. CASE RecvReconfigurationCompleted
        BY <2>1, <3>3
           DEF RecvReconfigurationCompleted, ConnectedNormally, WithContext, Stop, contexts
      <3> QED
        BY <1>1, <3>1, <3>2, <3>3 DEF BearersStep
    <2> QED
      BY <2>2, SettledLte, SettledSame
  <1>2. CASE TriggerUeAssociationUpdate
    <2>1. ctx' = ctx \/ \E r, x : ctx' = [ctx EXCEPT ![LteCell][r] = x]
      BY <1>2 DEF TriggerUeAssociationUpdate, SwitchToLte, SelectBest, Stop, contexts
    <2> QED
      BY <2>1, SettledLte, SettledSame
  <1>3. CASE Expire
    <2>1. PICK c \in Nodes, r \in Rntis : RemoveUe(c, r)
      BY <1>3 DEF Expire, ConnectionRequestTimeout, ConnectionSetupTimeout,
                  ConnectionRejectedTimeout
    <2>2. NoContext \in Contexts /\ Settled(NoContext)
      BY ContextFields DEF NoContext, Settled, ConnectedStates
    <2> QED
      BY <2>1, <2>2, SettledOne DEF RemoveUe
  <1>4. ASSUME NEW c \in Cells, X2Step(c) PROVE SettledContexts'
    <2>1. CASE RecvRlcSetupRequest(c)
      <3>1. PICK m : m = Head(x2[<<LteCell, c>>])
        OBVIOUS
      <3>2. CASE ~Known(c, m.rnti)
        BY <2>1, <3>1, <3>2, SettledSame DEF RecvRlcSetupRequest, Stop, contexts
      <3>3. CASE Known(c, m.rnti)
        <4>1. ctx' = [ctx EXCEPT ![c][m.rnti].rlc = @ \cup {m.drb}]
          BY <2>1, <3>1, <3>3 DEF RecvRlcSetupRequest
        <4>2. c \in Nodes
          BY DEF Nodes
        <4>3. ASSUME NEW d \in Cells, NEW r \in Rntis
              PROVE  /\ ctx'[d][r].state = ctx[d][r].state
                     /\ ctx'[d][r].pendingReconf = ctx[d][r].pendingReconf
          <5>1. ctx[d][r] \in Contexts /\ d \in Nodes
            BY DEF Typed, CellsTyped, Nodes
          <5>2. ctx'[d][r] = IF d = c /\ r = m.rnti
                             THEN [ctx[d][r] EXCEPT !.rlc = @ \cup {m.drb}] ELSE ctx[d][r]
            BY <4>1, <4>2, <5>1 DEF Typed, CellsTyped
          <5> QED
            BY <5>1, <5>2 DEF Contexts
        <4> QED
          BY <4>3 DEF SettledContexts, Settled
      <3> QED
        BY <3>2, <3>3
    <2>2. CASE RecvRlcSetupCompleted(c)
      <3>1. ctx' = ctx \/ \E r, x : ctx' = [ctx EXCEPT ![LteCell][r] = x]
        BY <2>2 DEF RecvRlcSetupCompleted, Stop, contexts
      <3> QED
        BY <3>1, SettledLte, SettledSame
    <2>3. CASE RecvConnectionSwitchToMmWave(c)
      BY <2>3, SettledSame DEF RecvConnectionSwitchToMmWave, Stop, contexts
    <2> QED
      BY <1>4, <2>1, <2>2, <2>3 DEF X2Step
  <1> QED
    BY <1>1, <1>2, <1>3, <1>4

\* Every step.
LEMMA SettledStep ==
    ASSUME Typed, Attachment, SettledContexts, [Next]_vars
    PROVE  SettledContexts'
  <1>1. CASE \E k \in Legs : CellStep(k)
    BY <1>1, SettledCellStep
  <1>2. CASE \/ BearersStep \/ Expire \/ TriggerUeAssociationUpdate
             \/ \E c \in Cells : X2Step(c)
    BY <1>2, SettledOther
  <1>3. CASE \/ \E k \in Legs : UeStep(k) \/ Lose(k)
             \/ RandomAccessFailed \/ UeConfigured \/ SinrChanges \/ UNCHANGED vars
    <2>1. CASE \E k \in Legs : UeStep(k)
      BY <2>1, SettledSame
         DEF UeStep, RecvMib, RecvSib2, RandomAccessSuccessful, Stop, contexts,
             UeRecvRrcConnectionSetup, UeRecvRrcConnectionReject, ConnectionTimeout
    <2>2. CASE UeConfigured
      BY <2>2, SettledSame
         DEF UeConfigured, RetryConnect, UeRecvRrcConnectToMmWave, UeRecvReconfiguration,
             UeRecvRrcConnectionSwitch, Stop, contexts
    <2>3. CASE (\E k \in Legs : Lose(k)) \/ RandomAccessFailed \/ SinrChanges \/ UNCHANGED vars
      BY <2>3, SettledSame DEF Lose, RandomAccessFailed, SinrChanges, contexts, vars
    <2> QED
      BY <1>3, <2>1, <2>2, <2>3
  <1> QED
    BY <1>1, <1>2, <1>3 DEF Next

\* What a queue of one type of message keeps when its end or its head changes.
LEMMA HasTypeAppend ==
    ASSUME NEW M, NEW s \in Seq(M), NEW m \in M
    PROVE  /\ \A t : HasType(s, t) => HasType(Append(s, m), t)
           /\ HasType(Append(s, m), m.type)
  <1>1. Items(Append(s, m)) = Items(s) \cup {m}
    BY ItemsAppend
  <1> QED
    BY <1>1 DEF HasType

LEMMA HasTypeTail ==
    ASSUME NEW M, NEW s \in Seq(M), s # <<>>, NEW t, HasType(s, t), Head(s).type # t
    PROVE  HasType(Tail(s), t)
  <1>1. Items(s) \subseteq Items(Tail(s)) \cup {Head(s)}
    BY ItemsTail
  <1> QED
    BY <1>1 DEF HasType

\* A context of the LTE cell that is connected stays as it is, and no other one becomes
\* connected.
SamePlace(old, new) ==
    old.state \in ConnectedStates \/ new.state \in ConnectedStates =>
        /\ new.state = old.state /\ new.mcDrbs = old.mcDrbs
        /\ new.mmCell = old.mmCell /\ new.mmRnti = old.mmRnti

SamePlaces == \A r \in Rntis : SamePlace(ctx[LteCell][r], ctx'[LteCell][r])

\* What a step that is not about the bearers may do.
LEMMA ProgressKept ==
    ASSUME Progress, SamePlaces, UnderWay => UnderWay',
           \A r \in Rntis : ctx[LteCell][r].state \in ConnectedStates =>
               (AllAsked(ctx[LteCell][r], x2) => AllAsked(ctx[LteCell][r], x2')),
           setup' => setup /\ UNCHANGED <<usingLte, last, pdcp>>
    PROVE  Progress'
  <1>1. ASSUME NEW r \in Rntis, ctx'[LteCell][r].state \in ConnectedStates
        PROVE  Proceeds(ctx[LteCell][r])'
    <2>1. PICK x, y : x = ctx[LteCell][r] /\ y = ctx'[LteCell][r]
      OBVIOUS
    <2>2. /\ y.state = x.state /\ y.mcDrbs = x.mcDrbs
          /\ y.mmCell = x.mmCell /\ y.mmRnti = x.mmRnti
          /\ x.state \in ConnectedStates
      BY <1>1, <2>1 DEF SamePlaces, SamePlace
    <2>3. Proceeds(x)
      BY <2>1, <2>2 DEF Progress
    <2>4. y.state # "CONNECTED_NORMALLY" => UnderWay'
      BY <2>2, <2>3 DEF Proceeds, Reconfiguring
    <2>5. AllAsked(y, x2')
      <3>1. PICK net, net2 : net = x2 /\ net2 = x2'
        OBVIOUS
      <3>2. AllAsked(x, net2)
        BY <2>1, <2>2, <2>3, <3>1 DEF Proceeds
      <3>3. AllAsked(y, net2)
        BY <2>2, <3>2 DEF AllAsked, Asked
      <3> QED
        BY <3>1, <3>3
    <2>6. setup' => Concluded(y)'
      BY <2>2, <2>3 DEF Proceeds, Concluded
    <2> QED
      BY <2>1, <2>4, <2>5, <2>6 DEF Proceeds, Reconfiguring, Concluded
  <1>2. setup' => LteConnected'
    BY DEF Progress, LteConnected, SamePlaces, SamePlace
  <1> QED
    BY <1>1, <1>2 DEF Progress

\* One context is replaced.
LEMMA SamePlacesBut ==
    ASSUME Typed, NEW c \in Nodes, NEW r \in Rntis, NEW x \in Contexts,
           ctx' = [ctx EXCEPT ![c][r] = x], c = LteCell => SamePlace(ctx[c][r], x)
    PROVE  SamePlaces
  <1>1. \A d \in Nodes, s \in Rntis :
            ctx'[d][s] = IF d = c /\ s = r THEN x ELSE ctx[d][s]
    BY ContextSet DEF Typed
  <1>2. LteCell \in Nodes
    BY DEF Nodes
  <1> QED
    BY <1>1, <1>2 DEF SamePlaces, SamePlace

\* No context is.
LEMMA SamePlacesAll ==
    ASSUME ctx' = ctx
    PROVE  SamePlaces
  BY DEF SamePlaces, SamePlace

\* A step that leaves the contexts, the links and the coordinator alone.
LEMMA ProgressQuiet ==
    ASSUME Progress, UNCHANGED <<ctx, x2, usingLte, last, pdcp>>, setup' => setup,
           UnderWay => UnderWay'
    PROVE  Progress'
  <1>1. \A r \in Rntis : ctx[LteCell][r].state \in ConnectedStates =>
            (AllAsked(ctx[LteCell][r], x2) => AllAsked(ctx[LteCell][r], x2'))
    OBVIOUS
  <1> QED
    BY <1>1, SamePlacesAll, ProgressKept

\* The end of the simulation.
LEMMA ProgressStop ==
    ASSUME Progress, NEW why, Stop(why)
    PROVE  Progress'
  BY ProgressQuiet DEF Stop, contexts, coordinator, air, UnderWay

\* What the bearers of the connected UE are.
LEMMA ProgressNow ==
    ASSUME Typed, Attachment, Progress, Connected("lte")
    PROVE  Proceeds(LteX)
  <1>1. PICK x, r : x = LteX /\ r = rntiOf[LteCell]
    OBVIOUS
  <1>2. r \in Rntis /\ x = ctx[LteCell][r] /\ x.state \in ConnectedStates
    BY <1>1, LteContextIs DEF LteX, Connected
  <1>3. Proceeds(x)
    BY <1>2 DEF Progress
  <1> QED
    BY <1>1, <1>3

\* The context of the UE that is connected to the LTE cell becomes x.
LteBecomes(x) == \A s \in Rntis :
    ctx'[LteCell][s] = IF s = rntiOf[LteCell] THEN x ELSE ctx[LteCell][s]

LEMMA LteReplaced ==
    ASSUME Typed, Attachment, Connected("lte"), NEW x \in Contexts,
           ctx' = [ctx EXCEPT ![LteCell][rntiOf[LteCell]] = x]
    PROVE  /\ LteBecomes(x)
           /\ ue' = ue /\ x.state \in ConnectedStates => LteX' = x /\ Connected("lte")'
  <1>1. PICK r \in Rntis : /\ r = rntiOf[LteCell] /\ r = ue["lte"].rnti
                          /\ ue["lte"].cell = LteCell
    BY LteContextIs
  <1>2. LteCell \in Nodes /\ CellsTyped
    BY DEF Nodes, Typed
  <1>3. \A s \in Rntis : ctx'[LteCell][s] = IF s = r THEN x ELSE ctx[LteCell][s]
    BY <1>1, <1>2, ContextSet
  <1>4. ue' = ue => LteX' = x
    BY <1>1, <1>3 DEF LteX, ContextOf
  <1> QED
    BY <1>1, <1>3, <1>4 DEF LteBecomes, Connected, LteX

\* Such a step goes on with the set-up of the bearers.
LEMMA ProgressLte ==
    ASSUME Typed, Attachment, Connected("lte"), NEW x, LteBecomes(x),
           x.state \in ConnectedStates, x.state # "CONNECTED_NORMALLY" => UnderWay',
           AllAsked(x, x2'), setup' => Concluded(x)'
    PROVE  Progress'
  <1>1. PICK r \in Rntis : r = rntiOf[LteCell] /\ r = ue["lte"].rnti
    BY LteContextIs
  <1>3. \A s \in Rntis : ctx'[LteCell][s] = IF s = r THEN x ELSE ctx[LteCell][s]
    BY <1>1 DEF LteBecomes
  <1>4. \A s \in Rntis : s # r => ctx[LteCell][s].state \notin ConnectedStates
    BY <1>1, LteContextConnected
  <1>5. \A s \in Rntis : ctx'[LteCell][s].state \in ConnectedStates => ctx'[LteCell][s] = x
    BY <1>3, <1>4
  <1>6. Proceeds(x)'
    BY DEF Proceeds, Reconfiguring
  <1>7. \A s \in Rntis : ctx'[LteCell][s].state \in ConnectedStates => Proceeds(ctx[LteCell][s])'
    BY <1>5, <1>6 DEF Proceeds, Reconfiguring, Concluded
  <1>8. LteConnected'
    BY <1>1, <1>3 DEF LteConnected
  <1> QED
    BY <1>7, <1>8 DEF Progress

\* A message that is taken from an uplink, and is of another type.
LEMMA UnderWayTaken ==
    ASSUME Typed, NEW k \in Legs, up[k] # <<>>, up' = TakenUp(k), srb1' = srb1,
           Head(up[k]).type # "ReconfCompleted"
    PROVE  UnderWay => UnderWay'
  <1>1. up \in [Legs -> Seq(UplinkMessages)] /\ "lte" \in Legs
    BY DEF Typed, AirTyped, Legs
  <1>2. CASE k = "lte"
    <2>1. up'["lte"] = Tail(up["lte"]) /\ up["lte"] \in Seq(UplinkMessages)
      BY <1>1, <1>2 DEF TakenUp
    <2>2. HasType(up["lte"], "ReconfCompleted") => HasType(Tail(up["lte"]), "ReconfCompleted")
      BY <1>2, <2>1, HasTypeTail
    <2> QED
      BY <2>1, <2>2 DEF UnderWay
  <1>3. CASE k # "lte"
    BY <1>1, <1>3 DEF TakenUp, UnderWay
  <1> QED
    BY <1>2, <1>3

\* The steps of the UE's RRCs put messages on the uplinks.
LEMMA ProgressUeStep ==
    ASSUME Typed, Progress, NEW k \in Legs, UeStep(k)
    PROVE  Progress'
  <1>0. /\ up \in [Legs -> Seq(UplinkMessages)] /\ "lte" \in Legs /\ UeTyped
        /\ nas.cell \in SomeCell
    BY DEF Typed, AirTyped, UeTyped, Legs
  <1>1. CASE up' = up
    <2>1. UNCHANGED <<ctx, x2, usingLte, last, pdcp, setup, srb1>>
      BY <1>1 DEF UeStep, RecvMib, RecvSib2, RandomAccessSuccessful, contexts, coordinator,
                  air, UeRecvRrcConnectionSetup, UeRecvRrcConnectionReject,
                  ConnectionTimeout, Stop
    <2> QED
      BY <1>1, <2>1, ProgressQuiet DEF UnderWay
  <1>2. ASSUME NEW m \in UplinkMessages, NEW u, u = [up EXCEPT ![k] = Append(@, m)]
        PROVE  /\ u \in [Legs -> Seq(UplinkMessages)]
               /\ \A t : HasType(up["lte"], t) => HasType(u["lte"], t)
    <2>1. up[k] \in Seq(UplinkMessages)
      BY <1>0
    <2>2. /\ Append(up[k], m) \in Seq(UplinkMessages)
          /\ \A t : HasType(up[k], t) => HasType(Append(up[k], m), t)
      BY <2>1, ItemsAppend, HasTypeAppend
    <2>3. u \in [Legs -> Seq(UplinkMessages)]
          /\ u["lte"] = IF k = "lte" THEN Append(up[k], m) ELSE up["lte"]
      BY <1>0, <1>2, <2>2
    <2> QED
      BY <2>2, <2>3
  <1>3. CASE RandomAccessSuccessful(k)
    <2>1. PICK m, u : m = Uplink("Request") /\ u = [up EXCEPT ![k] = Append(@, m)]
      OBVIOUS
    <2>2. u = up' /\ UNCHANGED <<ctx, x2, usingLte, last, pdcp, setup, srb1>>
      BY <1>3, <2>1 DEF RandomAccessSuccessful, contexts, coordinator
    <2>3. \A t : HasType(up["lte"], t) => HasType(u["lte"], t)
      BY <1>2, <2>1, MessagesAre
    <2>4. UnderWay => UnderWay'
      BY <2>2, <2>3 DEF UnderWay
    <2> QED
      BY <2>2, <2>4, ProgressQuiet
  <1>4. CASE UeRecvRrcConnectionSetup(k) /\ ue[k].state = "IDLE_CONNECTING"
    <2>1. PICK m, n, u :
              /\ m = Uplink("SetupCompleted") /\ u = [up EXCEPT ![k] = Append(@, m)]
              /\ n = SecondaryCellConnected(nas.cell, ue[k].rnti)
      OBVIOUS
    <2>2. m \in UplinkMessages /\ n \in UplinkMessages
      BY <1>0, <2>1, UeFields, MessagesAre
    <2>3. /\ up' = IF nas.active THEN [u EXCEPT !["lte"] = Append(@, n)] ELSE u
          /\ UNCHANGED <<ctx, x2, usingLte, last, pdcp, setup, srb1>>
      BY <1>4, <2>1 DEF UeRecvRrcConnectionSetup, contexts, coordinator
    <2>4. /\ u \in [Legs -> Seq(UplinkMessages)]
          /\ \A t : HasType(up["lte"], t) => HasType(u["lte"], t)
      BY <1>2, <2>1, <2>2
    <2>5. /\ u["lte"] \in Seq(UplinkMessages)
          /\ \A t : HasType(u["lte"], t) => HasType(Append(u["lte"], n), t)
      BY <1>0, <2>2, <2>4, HasTypeAppend
    <2>6. up'["lte"] = IF nas.active THEN Append(u["lte"], n) ELSE u["lte"]
      BY <1>0, <2>3, <2>4
    <2>7. UnderWay => UnderWay'
      BY <2>3, <2>4, <2>5, <2>6 DEF UnderWay
    <2> QED
      BY <2>3, <2>7, ProgressQuiet
  <1>5. UNCHANGED up \/ RandomAccessSuccessful(k)
        \/ (UeRecvRrcConnectionSetup(k) /\ ue[k].state = "IDLE_CONNECTING")
    BY DEF UeStep, RecvMib, RecvSib2, air, UeRecvRrcConnectionSetup,
           UeRecvRrcConnectionReject, ConnectionTimeout, Stop
  <1> QED
    BY <1>1, <1>3, <1>4, <1>5

\* What the NAS and the RRC of the UE do with what they are told.
LEMMA ProgressConfigured ==
    ASSUME Typed, Progress, UeConfigured
    PROVE  Progress'
  <1>0. /\ up \in [Legs -> Seq(UplinkMessages)] /\ "lte" \in Legs
        /\ srb1 \in Seq(BearerMessages)
    BY DEF Typed, AirTyped, Legs
  <1>1. CASE RetryConnect \/ UeRecvRrcConnectToMmWave
    <2>1. UNCHANGED <<ctx, x2, usingLte, last, pdcp, setup, srb1, up>>
      BY <1>1 DEF RetryConnect, UeRecvRrcConnectToMmWave, contexts, coordinator, air
    <2> QED
      BY <2>1, ProgressQuiet DEF UnderWay
  <1>2. CASE UeRecvReconfiguration
    <2>1. CASE ue["lte"].state # "CONNECTED_NORMALLY"
      BY <1>2, <2>1, ProgressStop DEF UeRecvReconfiguration
    <2>2. CASE ue["lte"].state = "CONNECTED_NORMALLY"
      <3>1. PICK m : m = Uplink("ReconfCompleted")
        OBVIOUS
      <3>2. /\ up' = [up EXCEPT !["lte"] = Append(@, m)]
            /\ UNCHANGED <<ctx, x2, usingLte, last, pdcp, setup>>
        BY <1>2, <2>2, <3>1 DEF UeRecvReconfiguration, contexts, coordinator
      <3>3. m \in UplinkMessages /\ m.type = "ReconfCompleted"
        BY <3>1, MessagesAre
      <3>4. up["lte"] \in Seq(UplinkMessages) /\ up'["lte"] = Append(up["lte"], m)
        BY <1>0, <3>2
      <3>5. HasType(up'["lte"], "ReconfCompleted")
        BY <3>3, <3>4, HasTypeAppend
      <3>6. UnderWay'
        BY <3>5 DEF UnderWay
      <3> QED
        BY <3>2, <3>6, ProgressQuiet
    <2> QED
      BY <2>1, <2>2
  <1>3. CASE UeRecvRrcConnectionSwitch
    <2>1. /\ srb1 # <<>> /\ Head(srb1).type = "SwitchToLte" /\ srb1' = Tail(srb1)
          /\ UNCHANGED <<ctx, x2, usingLte, last, pdcp, setup, up>>
      BY <1>3 DEF UeRecvRrcConnectionSwitch, contexts, coordinator
    <2>2. HasType(srb1, "Reconfiguration") => HasType(Tail(srb1), "Reconfiguration")
      BY <1>0, <2>1, HasTypeTail
    <2>3. UnderWay => UnderWay'
      BY <2>1, <2>2 DEF UnderWay
    <2> QED
      BY <2>1, <2>3, ProgressQuiet
  <1> QED
    BY <1>1, <1>2, <1>3 DEF UeConfigured

\* Losses, fades and timers.
LEMMA ProgressOther ==
    ASSUME Typed, Progress,
           \/ \E k \in Legs : Lose(k)
           \/ RandomAccessFailed \/ SinrChanges \/ Expire \/ UNCHANGED vars
    PROVE  Progress'
  <1>1. CASE ~Expire
    <2>1. UNCHANGED <<ctx, x2, usingLte, last, pdcp, setup, srb1, up>>
      BY <1>1 DEF Lose, RandomAccessFailed, SinrChanges, vars, contexts, coordinator, air
    <2> QED
      BY <2>1, ProgressQuiet DEF UnderWay
  <1>2. CASE Expire
    <2>1. PICK c \in Nodes, r \in Rntis :
              /\ RemoveUe(c, r)
              /\ ctx[c][r].state \in {"INITIAL_RANDOM_ACCESS", "CONNECTION_SETUP",
                                      "CONNECTION_REJECTED"}
      BY <1>2 DEF Expire, ConnectionRequestTimeout, ConnectionSetupTimeout,
                  ConnectionRejectedTimeout
    <2>2. NoContext \in Contexts /\ NoContext.state = "NONE"
      BY ContextFields DEF NoContext
    <2>3. SamePlace(ctx[c][r], NoContext)
      BY <2>1, <2>2 DEF SamePlace, ConnectedStates
    <2>4. /\ ctx' = [ctx EXCEPT ![c][r] = NoContext]
          /\ UNCHANGED <<x2, usingLte, last, pdcp, setup, srb1, up>>
      BY <2>1 DEF RemoveUe, coordinator, air
    <2>5. SamePlaces
      BY <2>2, <2>3, <2>4, SamePlacesBut
    <2>6. \A s \in Rntis : ctx[LteCell][s].state \in ConnectedStates =>
              (AllAsked(ctx[LteCell][s], x2) => AllAsked(ctx[LteCell][s], x2'))
      BY <2>4
    <2>7. UnderWay => UnderWay'
      BY <2>4 DEF UnderWay
    <2> QED
      BY <2>4, <2>5, <2>6, <2>7, ProgressKept
  <1> QED
    BY <1>1, <1>2

\* Random access and connection set-up.
LEMMA ProgressCellStep ==
    ASSUME Typed, Attachment, Progress, NEW k \in Legs, CellStep(k)
    PROVE  Progress'
  <1>0. CellsTyped /\ AirTyped /\ LegInv(k) /\ Legs = {"lte", "mm"} /\ LteCell \in Nodes
        /\ srb1 \in Seq(BearerMessages)
    BY DEF Typed, Attachment, Legs, Nodes, AirTyped
  <1>1. CASE AllocateTemporaryCellRnti(k)
    <2>1. PICK c : c = ue[k].cell
      OBVIOUS
    <2>2. CASE Stop("no more RNTIs available")
      BY <2>2, ProgressStop
    <2>3. CASE \E r \in Rntis : Created(k, c, r)
      <3>1. PICK r \in Rntis : Created(k, c, r)
        BY <2>3
      <3>2. ctx[c][r].state = "NONE" /\ NewContext.state = "INITIAL_RANDOM_ACCESS"
        BY <3>1 DEF Created, IsNextRnti, FreeSteps, NewContext, NoContext
      <3>3. \A s \in Rntis : ctx'[LteCell][s] =
                IF LteCell = c /\ s = r THEN NewContext ELSE ctx[LteCell][s]
        BY <1>0, <3>1 DEF Created
      <3>4. SamePlaces
        BY <3>2, <3>3 DEF SamePlaces, SamePlace, ConnectedStates
      <3>5. UNCHANGED <<x2, usingLte, last, pdcp, setup, srb1, up>>
        BY <3>1 DEF Created, coordinator
      <3>6. \A s \in Rntis : ctx[LteCell][s].state \in ConnectedStates =>
                (AllAsked(ctx[LteCell][s], x2) => AllAsked(ctx[LteCell][s], x2'))
        BY <3>5
      <3>7. UnderWay => UnderWay'
        BY <3>5 DEF UnderWay
      <3> QED
        BY <3>4, <3>5, <3>6, <3>7, ProgressKept
    <2> QED
      BY <1>1, <2>1, <2>2, <2>3, Allocates
  <1>2. CASE RecvRrcConnectionRequest(k)
    <2>1. CASE ContextOf(k).state # "INITIAL_RANDOM_ACCESS"
      BY <1>2, <2>1, ProgressStop DEF RecvRrcConnectionRequest
    <2>2. CASE ContextOf(k).state = "INITIAL_RANDOM_ACCESS"
      <3>0. PICK st : st = IF ue[k].cell \in AdmittingCells THEN "CONNECTION_SETUP"
                                                           ELSE "CONNECTION_REJECTED"
        OBVIOUS
      <3>1. /\ ctx' = WithContext(k, [ContextOf(k) EXCEPT !.state = st])
            /\ st \in {"CONNECTION_SETUP", "CONNECTION_REJECTED"}
            /\ up[k] # <<>> /\ Head(up[k]).type = "Request" /\ up' = TakenUp(k)
            /\ setup' => setup
            /\ UNCHANGED <<usingLte, last, pdcp, srb1, x2>>
        BY <1>2, <2>2, <3>0 DEF RecvRrcConnectionRequest, ArrivesUp
      <3>2. PICK c, r, x : c = ue[k].cell /\ r = ue[k].rnti
                           /\ x = [ContextOf(k) EXCEPT !.state = st]
        OBVIOUS
      <3>3. /\ c \in Nodes /\ r \in Rntis /\ ContextOf(k) \in Contexts
            /\ ContextOf(k) = ctx[c][r]
        BY <1>0, <3>1, <3>2, LegLocated, SenderIsAttached DEF ContextOf
      <3>4. x \in Contexts /\ x.state = st
        BY <3>1, <3>2, <3>3 DEF Contexts, UeStates
      <3>5. SamePlace(ctx[c][r], x)
        BY <2>2, <3>1, <3>3, <3>4 DEF SamePlace, ConnectedStates
      <3>6. ctx' = [ctx EXCEPT ![c][r] = x]
        BY <3>1, <3>2 DEF WithContext
      <3>7. SamePlaces
        BY <3>3, <3>4, <3>5, <3>6, SamePlacesBut
      <3>8. UnderWay => UnderWay'
        BY <3>1, UnderWayTaken
      <3>9. \A s \in Rntis : ctx[LteCell][s].state \in ConnectedStates =>
                (AllAsked(ctx[LteCell][s], x2) => AllAsked(ctx[LteCell][s], x2'))
        BY <3>1
      <3> QED
        BY <3>1, <3>7, <3>8, <3>9, ProgressKept
    <2> QED
      BY <2>1, <2>2
  <1>3. CASE RecvRrcConnectionSetupCompleted(k)
    <2>1. CASE ContextOf(k).state # "CONNECTION_SETUP"
      BY <1>3, <2>1, ProgressStop DEF RecvRrcConnectionSetupCompleted
    <2>2. CASE ContextOf(k).state = "CONNECTION_SETUP"
      <3> DEFINE w == [ContextOf(k) EXCEPT !.pendingConnect = (k = "lte")]
                 good == w.pendingConnect /\ sinr[best] > OutageThreshold
                 outage == w.pendingConnect /\ ~good
      <3>0. PICK c, r, x : c = ue[k].cell /\ r = ue[k].rnti /\ x = Normally(w, outage)
        OBVIOUS
      <3>1. /\ ctx' = WithContext(k, x)
            /\ up[k] # <<>> /\ Head(up[k]).type = "SetupCompleted" /\ up' = TakenUp(k)
            /\ usingLte' = (usingLte \/ outage)
            /\ srb1' = IF w.pendingReconf
                       THEN Append(srb1, Reconfiguration(w.drbs, w.mcDrbs)) ELSE srb1
            /\ UNCHANGED <<last, pdcp, x2, setup>>
        BY <1>3, <2>2, <3>0
           DEF RecvRrcConnectionSetupCompleted, ArrivesUp, ConnectedNormally, Normally
      <3>2. /\ c \in Nodes /\ r \in Rntis /\ ContextOf(k) \in Contexts
            /\ ContextOf(k) = ctx[c][r] /\ (k = "lte" => c = LteCell) /\ (k = "mm" => c \in Cells)
        BY <1>0, <3>0, <3>1, LegLocated, SenderIsAttached DEF ContextOf
      <3>3. /\ w \in Contexts /\ w.mcDrbs = ContextOf(k).mcDrbs
            /\ w.pendingConnect = (k = "lte")
        BY <3>2 DEF Contexts
      <3>4. outage \in BOOLEAN /\ (k = "mm" => ~outage)
        BY <3>3
      <3> HIDE DEF w, outage
      <3>5. /\ x \in Contexts /\ x.mcDrbs = w.mcDrbs
            /\ x.state = IF w.pendingReconf THEN "CONNECTION_RECONFIGURATION"
                                            ELSE "CONNECTED_NORMALLY"
        BY <3>0, <3>3, <3>4, NormallyIs
      <3>6. ctx' = [ctx EXCEPT ![c][r] = x]
        BY <3>0, <3>1 DEF WithContext
      <3>7. /\ srb1' = srb1 \/ \E m \in BearerMessages : srb1' = Append(srb1, m)
            /\ x.state # "CONNECTED_NORMALLY" => HasType(srb1', "Reconfiguration")
            /\ HasType(srb1, "Reconfiguration") => HasType(srb1', "Reconfiguration")
        <4>1. CASE ~w.pendingReconf
          BY <3>1, <3>5, <4>1
        <4>2. CASE w.pendingReconf
          <5>1. PICK m : m = Reconfiguration(w.drbs, w.mcDrbs)
            OBVIOUS
          <5>2. m \in BearerMessages /\ m.type = "Reconfiguration"
            <6>1. w.drbs \in SUBSET Drbs /\ w.mcDrbs \in SUBSET Drbs
              BY <3>3, ContextFields
            <6> QED
              BY <5>1, <6>1, MessagesAre
          <5>3. srb1' = Append(srb1, m)
            BY <3>1, <4>2, <5>1
          <5> QED
            BY <1>0, <5>2, <5>3, HasTypeAppend
        <4> QED
          BY <4>1, <4>2
      <3>8. CASE k = "mm"
        <4>1. c # LteCell
          BY <3>2, <3>8, CellsAssumption
        <4>2. SamePlaces
          BY <3>2, <3>5, <3>6, <4>1, SamePlacesBut
        <4>3. up'["lte"] = up["lte"]
          BY <1>0, <3>1, <3>8 DEF AirTyped, TakenUp
        <4>4. UnderWay => UnderWay'
          BY <3>7, <4>3 DEF UnderWay
        <4>5. usingLte' = usingLte
          BY <1>0, <3>1, <3>4, <3>8 DEF Typed, CoordinatorTyped
        <4>6. \A s \in Rntis : ctx[LteCell][s].state \in ConnectedStates =>
                  (AllAsked(ctx[LteCell][s], x2) => AllAsked(ctx[LteCell][s], x2'))
          BY <3>1
        <4> QED
          BY <3>1, <4>2, <4>4, <4>5, <4>6, ProgressKept
      <3>9. CASE k = "lte"
        <4>1. ~Connected("lte")
          BY <2>2, <3>9 DEF Connected, ConnectedStates
        <4>2. \A s \in Rntis : ctx[LteCell][s].state \notin ConnectedStates
          BY <4>1, LteContextConnected
        <4>3. ~setup'
          BY <3>1, <4>2 DEF Progress, LteConnected
        <4>4. \A s \in Rntis : ctx'[LteCell][s] = IF s = r THEN x ELSE ctx[LteCell][s]
          BY <1>0, <3>2, <3>5, <3>6, <3>9, ContextSet
        <4>5. x.mcDrbs = {}
          BY <2>2, <3>2, <3>3, <3>5 DEF Attachment, BareContexts, Bare, ConnectedStates
        <4>6. AllAsked(x, x2')
          <5>1. \A l \in Links : Items(x2'[l]) = {}
            BY <3>1, <4>1 DEF Attachment, LteFirst, DualStarted, Items
          <5> QED
            BY <4>5, <5>1 DEF AllAsked, RlcOnTheWay, HasType
        <4>7. x.state # "CONNECTED_NORMALLY" => UnderWay'
          BY <3>7 DEF UnderWay
        <4>8. Proceeds(x)'
          BY <4>3, <4>6, <4>7 DEF Proceeds, Reconfiguring
        <4>9. ASSUME NEW s \in Rntis, ctx'[LteCell][s].state \in ConnectedStates
              PROVE  Proceeds(ctx[LteCell][s])'
          <5>1. ctx'[LteCell][s] = x
            BY <4>2, <4>4, <4>9
          <5> QED
            BY <4>8, <5>1 DEF Proceeds, Reconfiguring, Concluded
        <4> QED
          BY <4>3, <4>9 DEF Progress
      <3> QED
        BY <1>0, <3>8, <3>9
    <2> QED
      BY <2>1, <2>2
  <1> QED
    BY <1>1, <1>2, <1>3 DEF CellStep

\* Bearers are being split only when the EPC has asked for them.
LEMMA DrbsThere ==
    ASSUME NEW x, NEW rlc, NEW p, NEW net, SplitOver(x, rlc, p, net), BearerFields(x),
           x.mcDrbs # {} \/ RlcOnTheWay(net)
    PROVE  x.drbs = Drbs /\ x.mmCell # NoCell
  <1>1. CASE x.mcDrbs # {}
    BY <1>1 DEF BearerFields
  <1>2. CASE RlcOnTheWay(net)
    <2>0. PICK l \in Links : HasType(net[l], "RlcSetupRequest") \/ HasType(net[l], "RlcSetupCompleted")
      BY <1>2 DEF RlcOnTheWay
    <2>1. PICK m \in Items(net[l]) : m.type = "RlcSetupRequest" \/ m.type = "RlcSetupCompleted"
      BY <2>0 DEF HasType
    <2>2. Placed(x, rlc, p, l, m)
      BY DEF SplitOver
    <2>3. x.drbs # {} /\ x.mmCell # NoCell
      BY <2>1, <2>2 DEF Placed
    <2> QED
      BY <2>3 DEF BearerFields
  <1> QED
    BY <1>1, <1>2

\* All bearers have been asked for when those without a RLC are.
LEMMA AllAskedNow ==
    ASSUME Bearers', Connected("lte")', NEW x, LteX' = x, BearerFields(x),
           \A d \in x.drbs : \/ d \in x.mcDrbs
                             \/ RlcSetupRequest(d, x.mmRnti) \in
                                    Items(x2'[<<LteCell, x.mmCell>>])
    PROVE  AllAsked(x, x2')
  <1>1. PICK rlc, p, net : rlc = MmRlc' /\ p = pdcp' /\ net = x2'
    OBVIOUS
  <1>2. SplitOver(x, rlc, p, net)
    BY <1>1 DEF Bearers, Splitting
  <1>3. x.mcDrbs # {} \/ RlcOnTheWay(net) => x.drbs = Drbs
    BY <1>2, DrbsThere
  <1>4. \A d \in x.drbs : Asked(x, net, d)
    BY <1>1 DEF Asked
  <1>5. AllAsked(x, net)
    BY <1>3, <1>4 DEF AllAsked
  <1> QED
    BY <1>1, <1>5

\* The EPC asks for the bearers.
LEMMA ProgressAsked ==
    ASSUME Typed, Attachment, Bearers, Progress, InitialContextSetup
    PROVE  Progress'
  <1>0. CellsTyped /\ LteCell \in Nodes /\ "lte" \in Legs /\ LegInv("lte")
        /\ srb1 \in Seq(BearerMessages)
    BY DEF Typed, Nodes, Legs, Attachment, AirTyped
  <1>1. PICK r, x : r = rntiOf[LteCell] /\ x = ctx[LteCell][r]
    OBVIOUS
  <1>2. CASE x.state \in {"NONE", "CONNECTION_REJECTED", "MC_CONNECTION_RECONFIGURATION"}
    BY <1>1, <1>2, ProgressStop DEF InitialContextSetup
  <1>3. CASE x.state \notin {"NONE", "CONNECTION_REJECTED", "MC_CONNECTION_RECONFIGURATION"}
    <2> DEFINE now == x.state = "CONNECTED_NORMALLY"
    <2>0. PICK y, m : /\ y = [x EXCEPT !.drbs = Drbs,
                                       !.pendingReconf = ~now \/ Drbs # {FirstDrb},
                                       !.state = IF now THEN "CONNECTION_RECONFIGURATION" ELSE @]
                      /\ m = Reconfiguration({FirstDrb}, {})
      OBVIOUS
    <2>1. /\ s1 /\ ctx' = [ctx EXCEPT ![LteCell][r] = y]
          /\ srb1' = IF now THEN Append(srb1, m) ELSE srb1
          /\ UNCHANGED <<ue, x2, usingLte, last, setup, up>>
      BY <1>1, <1>3, <2>0 DEF InitialContextSetup, terminal
    <2>2. r = ue["lte"].rnti /\ ue["lte"].state \in Attached /\ ue["lte"].cell = LteCell
      BY <1>0, <1>1, <2>1, CellsDiffer DEF Attachment, ContextAsked
    <2>3. r \in Rntis /\ x \in Contexts /\ x = LteX
      BY <1>0, <1>1, <2>2, LegLocated DEF CellsTyped, LteX, ContextOf
    <2>4. BearerFields(x)
      BY <1>0, <1>1, <2>3, FieldsOf
    <2>5. x.drbs = {} /\ x.mcDrbs = {}
      BY <2>1, <2>3, <2>4 DEF Bearers, NotSetUpYet, BearerFields
    <2>6. /\ y \in Contexts /\ y.mcDrbs = {}
          /\ y.mmCell = x.mmCell /\ y.mmRnti = x.mmRnti
          /\ y.state = IF now THEN "CONNECTION_RECONFIGURATION" ELSE x.state
      BY <2>0, <2>3, <2>5 DEF Contexts, UeStates
    <2>7. ~setup'
      <3> SUFFICES ASSUME setup PROVE FALSE
        BY <2>1
      <3>1. PICK s \in Rntis : ctx[LteCell][s].state \in ConnectedStates
        BY DEF Progress, LteConnected
      <3>2. Connected("lte")
        BY <3>1, LteContextConnected
      <3>3. Proceeds(x)
        BY <2>3, <3>2, ProgressNow
      <3> QED
        BY <2>5, <3>3 DEF Proceeds, Concluded
    <2>8. CASE now
      <3>1. Connected("lte")
        BY <1>1, <2>3, <2>8, LteContextConnected DEF ConnectedStates
      <3>2. LteBecomes(y) /\ y.state \in ConnectedStates
        BY <1>1, <2>1, <2>6, <2>8, <3>1, LteReplaced DEF ConnectedStates
      <3>3. UnderWay'
        <4>1. m \in BearerMessages /\ m.type = "Reconfiguration"
          BY <2>0, FirstDrbIsOne, MessagesAre
        <4>2. HasType(srb1', "Reconfiguration")
          BY <1>0, <2>1, <2>8, <4>1, HasTypeAppend
        <4> QED
          BY <4>2 DEF UnderWay
      <3>4. AllAsked(y, x2')
        <4>1. PICK rlc, p, net : rlc = MmRlc /\ p = pdcp /\ net = x2
          OBVIOUS
        <4>2. SplitOver(x, rlc, p, net)
          BY <2>3, <3>1, <4>1 DEF Bearers, Splitting
        <4>3. RlcOnTheWay(net) => x.drbs = Drbs
          BY <2>4, <4>2, DrbsThere
        <4>4. ~RlcOnTheWay(net)
          BY <2>5, <4>3, AccessAssumption
        <4>5. AllAsked(y, net)
          BY <2>6, <4>4 DEF AllAsked
        <4> QED
          BY <2>1, <4>1, <4>5
      <3> QED
        BY <2>6, <2>7, <3>1, <3>2, <3>3, <3>4, ProgressLte
    <2>9. CASE ~now
      <3>1. SamePlace(ctx[LteCell][r], y)
        BY <1>1, <2>5, <2>6, <2>9 DEF SamePlace
      <3>2. SamePlaces
        BY <1>0, <2>1, <2>3, <2>6, <3>1, SamePlacesBut
      <3>3. UnderWay => UnderWay'
        BY <2>1, <2>9 DEF UnderWay
      <3>4. \A s \in Rntis : ctx[LteCell][s].state \in ConnectedStates =>
                (AllAsked(ctx[LteCell][s], x2) => AllAsked(ctx[LteCell][s], x2'))
        BY <2>1
      <3> QED
        BY <2>7, <3>2, <3>3, <3>4, ProgressKept
    <2> QED
      BY <2>8, <2>9
  <1> QED
    BY <1>2, <1>3

\* The report of the mmWave connection.
LEMMA ProgressReported ==
    ASSUME Typed, Attachment, Reporting, Bearers, Progress, RecvSecondaryCellConnected
    PROVE  Progress'
  <1>0. CellsTyped /\ CoordinatorTyped /\ AirTyped /\ LteCell \in Nodes /\ Legs = {"lte", "mm"}
    BY DEF Typed, Nodes, Legs
  <1>1. CASE ContextOf("lte").state = "NONE"
    BY <1>1, ProgressStop DEF RecvSecondaryCellConnected
  <1>2. CASE ContextOf("lte").state # "NONE"
    <2>1. PICK m, y : m = Head(up["lte"]) /\ y = ContextOf("lte")
      OBVIOUS
    <2> DEFINE x == [y EXCEPT !.mmCell = m.cell, !.mmRnti = m.rnti,
                              !.available = @ \/ y.drbs = {}]
    <2>2. /\ ctx' = WithContext("lte", x)
          /\ SetupRemoteRlcs(x, pdcp, last)
          /\ up["lte"] # <<>> /\ m.type = "SecondaryCellConnected"
          /\ up' = TakenUp("lte")
          /\ UNCHANGED <<ue, s1, setup, usingLte, last, srb1>>
      BY <1>2, <2>1 DEF RecvSecondaryCellConnected, ArrivesUp, terminal
    <2>3. Connected("lte")
      BY <2>1, <2>2, TakesFromConnected
    <2>4. /\ y \in Contexts /\ y = ctx[LteCell][rntiOf[LteCell]] /\ rntiOf[LteCell] \in Rntis
          /\ ue["lte"].cell = LteCell /\ ue["lte"].rnti = rntiOf[LteCell]
          /\ y.state \in ConnectedStates
      BY <2>1, <2>3, LteContextIs DEF Connected
    <2>5. m \in Items(up["lte"]) /\ m.cell \in SomeCell /\ m.rnti \in SomeRnti
      BY <1>0, <2>1, <2>2, ItemsTail, TypedSent, FieldTypes DEF AirTyped
    <2>6. ServedBy(m.cell, m.rnti)
      BY <2>2, <2>5 DEF Reporting, Reports
    <2>7. ue["mm"].state = "CONNECTED_NORMALLY" /\ m.cell = ue["mm"].cell /\ m.rnti = ue["mm"].rnti
      BY <2>6 DEF ServedBy
    <2>8. m.cell \in Cells
      BY <1>0, <2>7, LegLocated DEF Attachment, Attached
    <2>9. /\ x \in Contexts /\ x.mmCell = m.cell /\ x.mmRnti = m.rnti /\ x.drbs = y.drbs
          /\ x.mcDrbs = y.mcDrbs /\ x.state = y.state
      BY <2>4, <2>5 DEF Contexts, SomeCell, SomeRnti
    <2>10. ctx' = [ctx EXCEPT ![LteCell][rntiOf[LteCell]] = x]
      BY <2>2, <2>4 DEF WithContext
    <2> HIDE DEF x
    <2>11. LteBecomes(x) /\ LteX' = x /\ Connected("lte")'
      BY <2>2, <2>3, <2>4, <2>9, <2>10, LteReplaced
    <2>12. BearerFields(y) /\ BearerFields(x)
      <3>1. BearerFields(y)
        BY <1>0, <2>4, FieldsOf
      <3>2. x.mmCell # NoCell
        BY <2>8, <2>9, CellsAssumption DEF NoCell
      <3> QED
        BY <2>9, <3>1, <3>2 DEF BearerFields
    <2>13. /\ \A d \in Drbs : pdcp'[d].mm = pdcp[d].mm
           /\ \A d \in x.drbs : \/ d \in x.mcDrbs
                                \/ RlcSetupRequest(d, x.mmRnti) \in
                                       Items(x2'[<<LteCell, x.mmCell>>])
      <3>1. PICK p, lastCell : p = pdcp /\ lastCell = last
        OBVIOUS
      <3>2. p \in [Drbs -> Pdcps] /\ x2 \in [Links -> Seq(LinkMessages)] /\ x.mmCell \in Cells
            /\ SetupRemoteRlcs(x, p, lastCell)
        BY <1>0, <2>2, <2>8, <2>9, <3>1 DEF CoordinatorTyped, AirTyped
      <3> QED
        BY <2>9, <3>1, <3>2, RequestsSent
    <2>14. AllAsked(x, x2')
      <3>1. Bearers'
        BY BearersReported
      <3> QED
        BY <2>11, <2>12, <2>13, <3>1, AllAskedNow
    <2>15. Proceeds(y)
      BY <2>1, <2>3, ProgressNow DEF LteX
    <2>16. x.state # "CONNECTED_NORMALLY" => UnderWay'
      <3>1. UnderWay => UnderWay'
        BY <1>0, <2>1, <2>2, UnderWayTaken
      <3> QED
        BY <2>9, <2>15, <3>1 DEF Proceeds, Reconfiguring
    <2>17. setup' => Concluded(x)'
      <3> SUFFICES ASSUME setup PROVE Concluded(x)'
        BY <2>2
      <3>1. /\ ~usingLte /\ last = y.mmCell /\ y.mcDrbs # {}
            /\ \A d \in y.mcDrbs : pdcp[d].mm \/ y.state = "MC_CONNECTION_RECONFIGURATION"
        BY <2>15 DEF Proceeds, Concluded
      <3>2. y.mmCell = m.cell
        BY <2>1, <2>3, <2>7, <2>12, <3>1, SecondaryContext DEF LteX, BearerFields
      <3>3. x.mcDrbs \subseteq Drbs
        BY <2>9, ContextFields
      <3> QED
        BY <2>2, <2>9, <2>13, <3>1, <3>2, <3>3 DEF Concluded
    <2> QED
      BY <2>3, <2>4, <2>9, <2>11, <2>14, <2>16, <2>17, ProgressLte
  <1> QED
    BY <1>1, <1>2

\* A reconfiguration is complete: when it was for split bearers, the set-up is done.
LEMMA ProgressReconfigured ==
    ASSUME Typed, Attachment, Reporting, Bearers, SplitsExist, Progress,
           RecvReconfigurationCompleted
    PROVE  Progress'
  <1>0. /\ CellsTyped /\ CoordinatorTyped /\ AirTyped /\ LteCell \in Nodes
        /\ srb1 \in Seq(BearerMessages)
    BY DEF Typed, Nodes, AirTyped
  <1>1. PICK x : x = ContextOf("lte")
    OBVIOUS
  <1>2. CASE x.state \notin ConnectedStates
    BY <1>1, <1>2, ProgressStop DEF RecvReconfigurationCompleted
  <1>3. CASE x.state \in ConnectedStates
    <2>1. /\ up["lte"] # <<>> /\ Head(up["lte"]).type = "ReconfCompleted"
          /\ UNCHANGED <<ue, s1>>
      BY <1>1, <1>3 DEF RecvReconfigurationCompleted, ArrivesUp, terminal
    <2>2. Connected("lte")
      BY <2>1, TakesFromConnected
    <2>3. /\ x \in Contexts /\ x = ctx[LteCell][rntiOf[LteCell]] /\ rntiOf[LteCell] \in Rntis
          /\ ue["lte"].cell = LteCell /\ ue["lte"].rnti = rntiOf[LteCell] /\ Bare(x)
      BY <1>1, <2>2, LteContextIs
    <2>4. Proceeds(x)
      BY <1>1, <2>2, ProgressNow DEF LteX
    <2>5. CASE x.state = "CONNECTED_NORMALLY"
      <3>1. UNCHANGED <<ctx, pdcp, x2, setup, usingLte, last>>
        BY <1>1, <1>3, <2>5 DEF RecvReconfigurationCompleted
      <3>2. LteBecomes(x)
        BY <2>3, <3>1 DEF LteBecomes
      <3>3. AllAsked(x, x2')
        BY <2>4, <3>1 DEF Proceeds
      <3>4. setup' => Concluded(x)'
        BY <2>4, <3>1 DEF Proceeds, Concluded
      <3> QED
        BY <1>3, <2>2, <2>5, <3>2, <3>3, <3>4, ProgressLte
    <2>6. CASE x.state # "CONNECTED_NORMALLY"
      <3>1. PICK split \in BOOLEAN : split <=> x.state = "MC_CONNECTION_RECONFIGURATION"
        OBVIOUS
      <3> DEFINE p == [d \in Drbs |-> IF split /\ d \in x.mcDrbs
                                      THEN [pdcp[d] EXCEPT !.mm = TRUE] ELSE pdcp[d]]
                 outage == x.pendingConnect /\ ~(x.pendingConnect
                                                     /\ sinr[best] > OutageThreshold)
      <3>y. PICK y : y = Normally(x, outage)
        OBVIOUS
      <3>2. /\ last' = IF split THEN x.mmCell ELSE last
            /\ setup' = (setup \/ split)
            /\ IF x.available THEN SetupRemoteRlcs(x, p, last') ELSE pdcp' = p /\ x2' = x2
            /\ ConnectedNormally("lte", x, usingLte /\ ~split)
        BY <1>1, <1>3, <2>6, <3>1 DEF RecvReconfigurationCompleted
      <3>3. /\ ctx' = WithContext("lte", y)
            /\ usingLte' = ((usingLte /\ ~split) \/ outage)
            /\ srb1' = IF x.pendingReconf THEN Append(srb1, Reconfiguration(x.drbs, x.mcDrbs))
                                          ELSE srb1
        BY <3>y, <3>2 DEF ConnectedNormally, Normally
      <3>4. outage \in BOOLEAN /\ ~outage
        BY <2>3 DEF Bare
      <3> HIDE DEF outage
      <3>5. /\ y \in Contexts /\ y.drbs = x.drbs /\ y.mcDrbs = x.mcDrbs
            /\ y.mmCell = x.mmCell /\ y.mmRnti = x.mmRnti /\ y.available = x.available
            /\ y.state = IF x.pendingReconf THEN "CONNECTION_RECONFIGURATION"
                                            ELSE "CONNECTED_NORMALLY"
        BY <2>3, <3>y, <3>4, NormallyIs
      <3>6. /\ p \in [Drbs -> Pdcps]
            /\ \A d \in Drbs : p[d].mm = (pdcp[d].mm \/ (split /\ d \in x.mcDrbs))
        BY <1>0 DEF CoordinatorTyped, Pdcps
      <3> HIDE DEF p
      <3>7. ctx' = [ctx EXCEPT ![LteCell][rntiOf[LteCell]] = y] /\ y.state \in ConnectedStates
        BY <2>3, <3>3, <3>5 DEF WithContext, ConnectedStates
      <3>8. LteBecomes(y) /\ LteX' = y /\ Connected("lte")'
        BY <2>1, <2>2, <3>5, <3>7, LteReplaced
      <3>9. BearerFields(x) /\ BearerFields(y)
        <4>1. BearerFields(x)
          BY <1>0, <2>3, FieldsOf
        <4>2. y.state # "INITIAL_RANDOM_ACCESS"
          BY <3>5
        <4> QED
          BY <3>5, <4>1, <4>2 DEF BearerFields
      <3> DEFINE legs == \A d \in Drbs :
                             pdcp'[d].mm = (pdcp[d].mm \/ (split /\ d \in x.mcDrbs))
      <3>10. legs /\ AllAsked(y, x2')
        <4>1. CASE ~x.available
          <5>1. pdcp' = p /\ x2' = x2
            BY <3>2, <4>1
          <5>2. PICK net : net = x2
            OBVIOUS
          <5>3. AllAsked(x, net)
            BY <2>4, <5>2 DEF Proceeds
          <5>4. AllAsked(y, net)
            BY <3>5, <5>3 DEF AllAsked, Asked
          <5> QED
            BY <3>6, <5>1, <5>2, <5>4
        <4>2. CASE x.available
          <5>1. PICK lastCell : lastCell = last'
            OBVIOUS
          <5>2. x2 \in [Links -> Seq(LinkMessages)] /\ x.mmCell \in Cells
                /\ SetupRemoteRlcs(x, p, lastCell)
            BY <1>0, <2>3, <3>2, <3>9, <4>2, <5>1, ContextFields
               DEF AirTyped, BearerFields, SomeCell
          <5>3. /\ \A d \in Drbs : pdcp'[d].mm = p[d].mm
                /\ \A d \in x.drbs : \/ d \in x.mcDrbs
                                     \/ RlcSetupRequest(d, x.mmRnti) \in
                                            Items(x2'[<<LteCell, x.mmCell>>])
            BY <2>3, <3>6, <5>2, RequestsSent
          <5>4. \A d \in y.drbs : \/ d \in y.mcDrbs
                                  \/ RlcSetupRequest(d, y.mmRnti) \in
                                            Items(x2'[<<LteCell, y.mmCell>>])
            BY <3>5, <5>3
          <5>5. Bearers'
            BY BearersReconfigured
          <5>6. AllAsked(y, x2')
            BY <3>8, <3>9, <5>4, <5>5, AllAskedNow
          <5> QED
            BY <3>6, <5>3, <5>6
        <4> QED
          BY <4>1, <4>2
      <3>11. y.state # "CONNECTED_NORMALLY" => UnderWay'
        <4> SUFFICES ASSUME x.pendingReconf PROVE UnderWay'
          BY <3>5
        <4>1. PICK m : m = Reconfiguration(x.drbs, x.mcDrbs)
          OBVIOUS
        <4>2. x.drbs \in SUBSET Drbs /\ x.mcDrbs \in SUBSET Drbs
          BY <2>3, ContextFields
        <4>3. m \in BearerMessages /\ m.type = "Reconfiguration"
          BY <4>1, <4>2, MessagesAre
        <4>4. srb1' = Append(srb1, m)
          BY <3>3, <4>1
        <4> QED
          BY <1>0, <4>3, <4>4, HasTypeAppend DEF UnderWay
      <3>12. setup' => Concluded(y)'
        <4> SUFFICES ASSUME setup' PROVE Concluded(y)'
          OBVIOUS
        <4>1. y.mcDrbs \subseteq Drbs
          BY <3>5, ContextFields
        <4>2. CASE split
          <5>1. HasSplit(x)
            BY <1>0, <2>3 DEF SplitsExist
          <5>2. x.mcDrbs # {}
            BY <3>1, <4>2, <5>1 DEF HasSplit
          <5>3. ~usingLte' /\ last' = y.mmCell
            BY <3>2, <3>3, <3>4, <3>5, <4>2
          <5>4. \A d \in y.mcDrbs : pdcp'[d].mm
            BY <3>5, <3>10, <4>1, <4>2
          <5> QED
            BY <3>5, <5>2, <5>3, <5>4 DEF Concluded
        <4>3. CASE ~split
          <5>1. Concluded(x)
            BY <2>4, <3>2, <4>3 DEF Proceeds
          <5>2. ~usingLte' /\ last' = y.mmCell
            BY <3>2, <3>3, <3>4, <3>5, <4>3, <5>1 DEF Concluded
          <5>3. \A d \in y.mcDrbs : pdcp'[d].mm
            BY <3>1, <3>5, <3>10, <4>1, <4>3, <5>1 DEF Concluded
          <5> QED
            BY <3>5, <5>1, <5>2, <5>3 DEF Concluded
        <4> QED
          BY <4>2, <4>3
      <3> HIDE DEF legs
      <3>13. AllAsked(y, x2')
        BY <3>10
      <3> QED
        BY <2>2, <3>7, <3>8, <3>11, <3>12, <3>13, ProgressLte
    <2> QED
      BY <2>5, <2>6
  <1> QED
    BY <1>2, <1>3

\* What was on the links is still there when a message is sent.
LEMMA SentKeeps ==
    ASSUME NEW net \in [Links -> Seq(LinkMessages)], NEW a, NEW b, NEW m \in LinkMessages
    PROVE  /\ \A l \in Links : Items(net[l]) \subseteq Items(Sent(net, a, b, m)[l])
           /\ <<a, b>> \in Links => m \in Items(Sent(net, a, b, m)[<<a, b>>])
  <1>1. PICK net2 : net2 = Sent(net, a, b, m)
    OBVIOUS
  <1>2. \A l \in Links : net2[l] = IF l = <<a, b>> THEN Append(net[l], m) ELSE net[l]
    BY <1>1 DEF Sent
  <1>3. \A l \in Links : Items(Append(net[l], m)) = Items(net[l]) \cup {m}
    BY ItemsAppend
  <1>4. /\ \A l \in Links : Items(net[l]) \subseteq Items(net2[l])
        /\ <<a, b>> \in Links => m \in Items(net2[<<a, b>>])
    BY <1>2, <1>3
  <1> QED
    BY <1>1, <1>4

\* The secondary cell gets the RLC that was asked for.
LEMMA ProgressRlc ==
    ASSUME Typed, Attachment, Reporting, Bearers, Progress, NEW c \in Cells,
           RecvRlcSetupRequest(c)
    PROVE  Progress'
  <1>0. /\ CellsTyped /\ x2 \in [Links -> Seq(LinkMessages)] /\ LteCell \in Nodes
        /\ c \in Nodes /\ c # LteCell /\ <<LteCell, c>> # <<c, LteCell>>
        /\ <<c, LteCell>> \in Links /\ <<LteCell, c>> \in Links
    BY CellsAssumption DEF Typed, AirTyped, Nodes, Links
  <1>1. PICK m : m = Head(x2[<<LteCell, c>>])
    OBVIOUS
  <1>2. CASE ~Known(c, m.rnti)
    BY <1>1, <1>2, ProgressStop DEF RecvRlcSetupRequest
  <1>3. CASE Known(c, m.rnti)
    <2>1. PICK n, net, net2 : /\ n = RlcSetupCompleted(m.drb)
                              /\ net = Taken(x2, LteCell, c)
                              /\ net2 = Sent(net, c, LteCell, n)
      OBVIOUS
    <2>2. /\ ctx' = [ctx EXCEPT ![c][m.rnti].rlc = @ \cup {m.drb}]
          /\ x2' = net2
          /\ Arrives(x2, LteCell, c, "RlcSetupRequest")
          /\ UNCHANGED <<setup, usingLte, last, pdcp, srb1, up>>
      BY <1>1, <1>3, <2>1 DEF RecvRlcSetupRequest, coordinator, air
    <2>3. Connected("lte")
      BY <2>2, OnALink
    <2>4. /\ m \in Items(x2[<<LteCell, c>>]) /\ m \in LinkMessages
          /\ m.type = "RlcSetupRequest" /\ net \in [Links -> Seq(LinkMessages)]
          /\ \A l \in Links : l # <<LteCell, c>> => net[l] = x2[l]
          /\ Items(x2[<<LteCell, c>>]) \subseteq Items(net[<<LteCell, c>>]) \cup {m}
      <3>1. /\ Head(x2[<<LteCell, c>>]) \in Items(x2[<<LteCell, c>>])
            /\ Head(x2[<<LteCell, c>>]) \in LinkMessages
            /\ Head(x2[<<LteCell, c>>]).type = "RlcSetupRequest"
            /\ Taken(x2, LteCell, c) \in [Links -> Seq(LinkMessages)]
            /\ \A l \in Links : Items(Taken(x2, LteCell, c)[l]) \subseteq Items(x2[l])
            /\ Items(x2[<<LteCell, c>>]) \subseteq
                   Items(Taken(x2, LteCell, c)[<<LteCell, c>>]) \cup {Head(x2[<<LteCell, c>>])}
        BY <1>0, <2>2, TakenItems
      <3>2. \A l \in Links : l # <<LteCell, c>> => Taken(x2, LteCell, c)[l] = x2[l]
        BY <1>0 DEF Taken
      <3> QED
        BY <3>2, <1>1, <2>1, <3>1
    <2>5. m.drb \in Drbs /\ m.rnti \in Rntis /\ m = RlcSetupRequest(m.drb, m.rnti)
      BY <1>3, <2>4, FieldTypes DEF Known, SomeRnti
    <2>6. PICK y : y = LteX
      OBVIOUS
    <2>7. y.mmCell = c
      <3>1. SplitOver(y, MmRlc, pdcp, x2)
        BY <2>3, <2>6 DEF Bearers, Splitting
      <3>2. Placed(y, MmRlc, pdcp, <<LteCell, c>>, m)
        BY <1>0, <2>4, <3>1 DEF SplitOver
      <3> QED
        BY <2>4, <3>2 DEF Placed
    <2>8. /\ n \in LinkMessages
          /\ \A l \in Links : Items(net[l]) \subseteq Items(net2[l])
          /\ n \in Items(net2[<<c, LteCell>>])
      <3>1. n \in LinkMessages
        BY <2>1, <2>5, MessagesAre
      <3> QED
        BY <1>0, <2>1, <2>4, <3>1, SentKeeps
    <2>9. ASSUME AllAsked(y, x2) PROVE AllAsked(y, net2)
      <3>1. RlcOnTheWay(x2)
        BY <1>0, <2>4 DEF RlcOnTheWay, HasType
      <3>2. ASSUME NEW d \in Drbs PROVE Asked(y, net2, d)
        <4>1. Asked(y, x2, d)
          BY <2>9, <3>1 DEF AllAsked
        <4>2. CASE d \in y.mcDrbs
          BY <4>2 DEF Asked
        <4>3. CASE RlcSetupCompleted(d) \in Items(x2[<<c, LteCell>>])
          BY <1>0, <2>4, <2>7, <2>8, <4>3 DEF Asked
        <4>4. CASE RlcSetupRequest(d, y.mmRnti) \in Items(x2[<<LteCell, c>>])
          <5>1. CASE RlcSetupRequest(d, y.mmRnti) \in Items(net[<<LteCell, c>>])
            BY <1>0, <2>7, <2>8, <5>1 DEF Asked
          <5>2. CASE RlcSetupRequest(d, y.mmRnti) = m
            <6>1. d = m.drb
              BY <5>2, MessagesAre
            <6> QED
              BY <2>1, <2>7, <2>8, <6>1 DEF Asked
          <5> QED
            BY <2>4, <4>4, <5>1, <5>2
        <4> QED
          BY <2>7, <4>1, <4>2, <4>3, <4>4 DEF Asked
      <3> QED
        BY <3>2 DEF AllAsked
    <2>10. \A s \in Rntis : ctx[LteCell][s].state \in ConnectedStates =>
               (AllAsked(ctx[LteCell][s], x2) => AllAsked(ctx[LteCell][s], x2'))
      BY <2>2, <2>6, <2>9, LteContextConnected DEF LteX
    <2> DEFINE x == [ctx[c][m.rnti] EXCEPT !.rlc = @ \cup {m.drb}]
    <2>11. x \in Contexts
      <3>1. ctx[c][m.rnti] \in Contexts
        BY <1>0, <2>5 DEF CellsTyped
      <3> QED
        BY <2>5, <3>1 DEF Contexts
    <2>12. ctx' = [ctx EXCEPT ![c][m.rnti] = x]
      BY <2>2
    <2> HIDE DEF x
    <2>13. SamePlaces
      BY <1>0, <2>5, <2>11, <2>12, SamePlacesBut
    <2>14. UnderWay => UnderWay'
      BY <2>2 DEF UnderWay
    <2> QED
      BY <2>2, <2>10, <2>13, <2>14, ProgressKept
  <1> QED
    BY <1>2, <1>3

\* The LTE cell tells the UE of a bearer that is split now.
LEMMA ProgressSplit ==
    ASSUME Typed, Attachment, Reporting, Bearers, Progress, NEW c \in Cells,
           RecvRlcSetupCompleted(c)
    PROVE  Progress'
  <1>0. /\ CellsTyped /\ x2 \in [Links -> Seq(LinkMessages)] /\ LteCell \in Nodes
        /\ c \in Nodes /\ c # LteCell /\ <<LteCell, c>> # <<c, LteCell>>
        /\ <<c, LteCell>> \in Links /\ <<LteCell, c>> \in Links
        /\ srb1 \in Seq(BearerMessages)
    BY CellsAssumption DEF Typed, AirTyped, Nodes, Links
  <1>1. PICK m, d, r : m = Head(x2[<<c, LteCell>>]) /\ d = m.drb /\ r = rntiOf[LteCell]
    OBVIOUS
  <1>x. PICK x : x = [ctx[LteCell][r] EXCEPT !.mcDrbs = @ \cup {d}, !.pendingReconf = FALSE,
                                             !.state = "MC_CONNECTION_RECONFIGURATION"]
    OBVIOUS
  <1>2. CASE ~Known(LteCell, r) \/ d \notin x.drbs
    BY <1>1, <1>x, <1>2, ProgressStop DEF RecvRlcSetupCompleted
  <1>3. CASE ~(~Known(LteCell, r) \/ d \notin x.drbs)
    <2>1. PICK n, net : n = Reconfiguration(x.drbs, x.mcDrbs) /\ net = Taken(x2, c, LteCell)
      OBVIOUS
    <2>2. /\ ctx' = [ctx EXCEPT ![LteCell][r] = x]
          /\ Arrives(x2, c, LteCell, "RlcSetupCompleted")
          /\ x2' = net /\ srb1' = Append(srb1, n)
          /\ UNCHANGED <<setup, usingLte, last, pdcp>>
      BY <1>1, <1>x, <1>3, <2>1 DEF RecvRlcSetupCompleted, coordinator
    <2>3. Connected("lte")
      BY <2>2, OnALink
    <2>4. /\ m \in Items(x2[<<c, LteCell>>]) /\ m \in LinkMessages
          /\ m.type = "RlcSetupCompleted"
          /\ \A l \in Links : l # <<c, LteCell>> => net[l] = x2[l]
          /\ Items(x2[<<c, LteCell>>]) \subseteq Items(net[<<c, LteCell>>]) \cup {m}
      <3>1. /\ Head(x2[<<c, LteCell>>]) \in Items(x2[<<c, LteCell>>])
            /\ Head(x2[<<c, LteCell>>]) \in LinkMessages
            /\ Head(x2[<<c, LteCell>>]).type = "RlcSetupCompleted"
            /\ Taken(x2, c, LteCell) \in [Links -> Seq(LinkMessages)]
            /\ \A l \in Links : Items(Taken(x2, c, LteCell)[l]) \subseteq Items(x2[l])
            /\ Items(x2[<<c, LteCell>>]) \subseteq
                   Items(Taken(x2, c, LteCell)[<<c, LteCell>>]) \cup {Head(x2[<<c, LteCell>>])}
        BY <1>0, <2>2, TakenItems
      <3>2. \A l \in Links : l # <<c, LteCell>> => Taken(x2, c, LteCell)[l] = x2[l]
        BY <1>0 DEF Taken
      <3> QED
        BY <3>2, <1>1, <2>1, <3>1
    <2>5. d \in Drbs
      BY <1>1, <2>4, FieldTypes
    <2>6. PICK y : y = LteX
      OBVIOUS
    <2>7. y = ctx[LteCell][r] /\ r \in Rntis /\ y \in Contexts
      BY <1>1, <2>3, <2>6, LteContextIs DEF LteX
    <2>8. y.mmCell = c
      <3>1. SplitOver(y, MmRlc, pdcp, x2)
        BY <2>3, <2>6 DEF Bearers, Splitting
      <3>2. Placed(y, MmRlc, pdcp, <<c, LteCell>>, m)
        BY <1>0, <2>4, <3>1 DEF SplitOver
      <3> QED
        BY <2>4, <3>2 DEF Placed
    <2>9. /\ x \in Contexts /\ x.mcDrbs = y.mcDrbs \cup {d}
          /\ x.mmCell = y.mmCell /\ x.mmRnti = y.mmRnti
          /\ x.state = "MC_CONNECTION_RECONFIGURATION"
      BY <1>x, <2>5, <2>7 DEF Contexts, UeStates
    <2>10. Proceeds(y)
      BY <2>3, <2>6, ProgressNow
    <2>11. AllAsked(x, net)
      <3>1. RlcOnTheWay(x2)
        BY <1>0, <2>4 DEF RlcOnTheWay, HasType
      <3>2. ASSUME NEW e \in Drbs PROVE Asked(x, net, e)
        <4>1. Asked(y, x2, e)
          BY <2>10, <3>1 DEF Proceeds, AllAsked
        <4>2. CASE e \in y.mcDrbs
          BY <2>9, <4>2 DEF Asked
        <4>3. CASE RlcSetupRequest(e, y.mmRnti) \in Items(x2[<<LteCell, c>>])
          BY <1>0, <2>4, <2>8, <2>9, <4>3 DEF Asked
        <4>4. CASE RlcSetupCompleted(e) \in Items(x2[<<c, LteCell>>])
          <5>1. CASE RlcSetupCompleted(e) \in Items(net[<<c, LteCell>>])
            BY <2>8, <2>9, <5>1 DEF Asked
          <5>2. CASE RlcSetupCompleted(e) = m
            <6>1. e = d
              BY <1>1, <5>2, MessagesAre
            <6> QED
              BY <2>9, <6>1 DEF Asked
          <5> QED
            BY <2>4, <4>4, <5>1, <5>2
        <4> QED
          BY <2>8, <4>1, <4>2, <4>3, <4>4 DEF Asked
      <3> QED
        BY <3>2 DEF AllAsked
    <2>12. LteBecomes(x) /\ x.state \in ConnectedStates
      BY <1>1, <2>2, <2>3, <2>9, LteReplaced DEF ConnectedStates
    <2>13. UnderWay'
      <3>1. x.drbs \in SUBSET Drbs /\ x.mcDrbs \in SUBSET Drbs
        BY <2>9, ContextFields
      <3>2. n \in BearerMessages /\ n.type = "Reconfiguration"
        BY <2>1, <3>1, MessagesAre
      <3> QED
        BY <1>0, <2>2, <3>2, HasTypeAppend DEF UnderWay
    <2>14. setup' => Concluded(x)'
      BY <2>2, <2>9, <2>10 DEF Proceeds, Concluded
    <2> QED
      BY <2>2, <2>3, <2>11, <2>12, <2>13, <2>14, ProgressLte
  <1> QED
    BY <1>2, <1>3

\* The secondary cell creates its RLCs again.
LEMMA ProgressSwitched ==
    ASSUME Typed, Attachment, Reporting, Bearers, Progress, NEW c \in Cells,
           RecvConnectionSwitchToMmWave(c)
    PROVE  Progress'
  <1>0. /\ x2 \in [Links -> Seq(LinkMessages)] /\ c # LteCell
        /\ <<LteCell, c>> # <<c, LteCell>>
        /\ <<c, LteCell>> \in Links /\ <<LteCell, c>> \in Links
    BY CellsAssumption DEF Typed, AirTyped, Nodes, Links
  <1>1. CASE Stop("drbid not found in m_rlcMap")
    BY <1>1, ProgressStop
  <1>2. CASE /\ x2' = Taken(x2, LteCell, c)
             /\ UNCHANGED <<terminal, contexts, coordinator, sinr, s1, air, bounds, fault>>
    <2>1. PICK m, net : m = Head(x2[<<LteCell, c>>]) /\ net = Taken(x2, LteCell, c)
      OBVIOUS
    <2>2. /\ Arrives(x2, LteCell, c, "SwitchConnection") /\ x2' = net
          /\ UNCHANGED <<ctx, setup, usingLte, last, pdcp, srb1, up>>
      BY <1>2, <2>1 DEF RecvConnectionSwitchToMmWave, contexts, coordinator, air
    <2>3. Connected("lte")
      BY <2>2, OnALink
    <2>4. /\ m \in Items(x2[<<LteCell, c>>]) /\ m.type = "SwitchConnection"
          /\ \A l \in Links : Items(net[l]) \subseteq Items(x2[l])
          /\ \A l \in Links : l # <<LteCell, c>> => net[l] = x2[l]
          /\ Items(x2[<<LteCell, c>>]) \subseteq Items(net[<<LteCell, c>>]) \cup {m}
      <3>1. /\ Head(x2[<<LteCell, c>>]) \in Items(x2[<<LteCell, c>>])
            /\ Head(x2[<<LteCell, c>>]) \in LinkMessages
            /\ Head(x2[<<LteCell, c>>]).type = "SwitchConnection"
            /\ Taken(x2, LteCell, c) \in [Links -> Seq(LinkMessages)]
            /\ \A l \in Links : Items(Taken(x2, LteCell, c)[l]) \subseteq Items(x2[l])
            /\ Items(x2[<<LteCell, c>>]) \subseteq
                   Items(Taken(x2, LteCell, c)[<<LteCell, c>>]) \cup {Head(x2[<<LteCell, c>>])}
        BY <1>0, <2>2, TakenItems
      <3>2. \A l \in Links : l # <<LteCell, c>> => Taken(x2, LteCell, c)[l] = x2[l]
        BY <1>0 DEF Taken
      <3> QED
        BY <3>2, <2>1, <3>1
    <2>5. PICK y : y = LteX
      OBVIOUS
    <2>6. y.mmCell = c
      <3>1. SplitOver(y, MmRlc, pdcp, x2)
        BY <2>3, <2>5 DEF Bearers, Splitting
      <3>2. Placed(y, MmRlc, pdcp, <<LteCell, c>>, m)
        BY <1>0, <2>4, <3>1 DEF SplitOver
      <3> QED
        BY <2>4, <3>2 DEF Placed
    <2>7. ASSUME AllAsked(y, x2) PROVE AllAsked(y, net)
      <3>1. RlcOnTheWay(net) => RlcOnTheWay(x2)
        BY <2>4 DEF RlcOnTheWay, HasType
      <3>2. ASSUME NEW d \in Drbs, Asked(y, x2, d) PROVE Asked(y, net, d)
        <4>1. RlcSetupRequest(d, y.mmRnti) # m
          BY <2>4, MessagesAre
        <4> QED
          BY <1>0, <2>4, <2>6, <3>2, <4>1 DEF Asked
      <3> QED
        BY <2>7, <3>1, <3>2 DEF AllAsked
    <2>8. \A s \in Rntis : ctx[LteCell][s].state \in ConnectedStates =>
              (AllAsked(ctx[LteCell][s], x2) => AllAsked(ctx[LteCell][s], x2'))
      BY <2>2, <2>5, <2>7, LteContextConnected DEF LteX
    <2>9. UnderWay => UnderWay'
      BY <2>2 DEF UnderWay
    <2> QED
      BY <2>2, <2>8, <2>9, SamePlacesAll, ProgressKept
  <1> QED
    BY <1>1, <1>2 DEF RecvConnectionSwitchToMmWave

\* The decision of the coordinator, which only decides before the set-up is done.
LEMMA ProgressDecision ==
    ASSUME Typed, Attachment, Reporting, Bearers, Progress, TriggerUeAssociationUpdate
    PROVE  Progress'
  <1>0. /\ CellsTyped /\ x2 \in [Links -> Seq(LinkMessages)] /\ LteCell \in Nodes
        /\ srb1 \in Seq(BearerMessages)
    BY DEF Typed, AirTyped, Nodes
  <1> DEFINE known == Known(LteCell, rntiOf[LteCell])
  <1>1. CASE LooksUpUe /\ ~known
    BY <1>1, ProgressStop DEF TriggerUeAssociationUpdate
  <1>2. CASE ~(LooksUpUe /\ ~known)
    <2>0. /\ SwitchToLte \/ SelectBest
          /\ ~setup' /\ UNCHANGED up
      BY <1>2 DEF TriggerUeAssociationUpdate
    <2>1. PICK r, x : r = rntiOf[LteCell] /\ x = ctx[LteCell][r]
      OBVIOUS
    <2>2. known => r \in Rntis /\ x \in Contexts /\ Bare(x) /\ BearerFields(x)
      <3>1. known => r \in Rntis
        BY <1>0, <2>1 DEF Known, CellsTyped, SomeRnti
      <3> QED
        BY <1>0, <2>1, <3>1, FieldsOf DEF CellsTyped, Attachment, BareContexts
    <2>3. CASE SwitchToLte
      <3>1. known
        BY <1>2, <2>3 DEF SwitchToLte, LooksUpUe
      <3>2. PICK m, n : m = SwitchConnection(x.mmRnti) /\ n = RrcConnectionSwitch(x.mcDrbs)
        OBVIOUS
      <3>3. /\ ctx' = ctx
            /\ x2' = IF x.mcDrbs = {} THEN x2 ELSE Sent(x2, LteCell, x.mmCell, m)
            /\ srb1' = IF x.mcDrbs = {} THEN srb1 ELSE Append(srb1, n)
        BY <2>1, <2>3, <3>2 DEF SwitchToLte, LteContext
      <3>4. n \in BearerMessages /\ m \in LinkMessages
        <4>1. x.mcDrbs \in SUBSET Drbs /\ x.mmRnti \in SomeRnti
          BY <2>2, <3>1, ContextFields
        <4> QED
          BY <3>2, <4>1, MessagesAre
      <3>5. UnderWay => UnderWay'
        <4>1. HasType(srb1, "Reconfiguration") => HasType(srb1', "Reconfiguration")
          BY <1>0, <3>3, <3>4, HasTypeAppend
        <4> QED
          BY <2>0, <4>1 DEF UnderWay
      <3>6. \A s \in Rntis : ctx[LteCell][s].state \in ConnectedStates =>
                (AllAsked(ctx[LteCell][s], x2) => AllAsked(ctx[LteCell][s], x2'))
        <4>1. CASE x.mcDrbs = {}
          BY <3>3, <4>1
        <4>2. CASE x.mcDrbs # {}
          <5>1. PICK net : net = Sent(x2, LteCell, x.mmCell, m)
            OBVIOUS
          <5>2. x2' = net /\ \A l \in Links : Items(x2[l]) \subseteq Items(net[l])
            BY <1>0, <3>3, <3>4, <4>2, <5>1, SentKeeps
          <5>3. <<LteCell, x.mmCell>> \in Links /\ <<x.mmCell, LteCell>> \in Links
            <6>1. x.mmCell \in Cells
              BY <2>2, <3>1, <4>2, ContextFields DEF BearerFields, SomeCell
            <6> QED
              BY <6>1, CellsAssumption DEF Links, Nodes
          <5>4. AllAsked(x, x2) => AllAsked(x, net)
            BY <4>2, <5>2, <5>3 DEF AllAsked, Asked
          <5>5. \A s \in Rntis : ctx[LteCell][s].state \in ConnectedStates =>
                    ctx[LteCell][s] = x
            BY <2>1, LteContextConnected, LteContextIs
          <5> QED
            BY <5>2, <5>4, <5>5
        <4> QED
          BY <4>1, <4>2
      <3> QED
        BY <2>0, <3>3, <3>5, <3>6, SamePlacesAll, ProgressKept
    <2>4. CASE SelectBest
      <3>1. PICK b \in Cells :
                /\ IF Mode = "Ttt" /\ associated /\ usingLte /\ x.allInOutage
                   THEN ctx' = [ctx EXCEPT ![LteCell][r] = EndOutage(@)]
                   ELSE ctx' = ctx
                /\ UNCHANGED <<x2, srb1>>
        BY <2>1, <2>4 DEF SelectBest, LteContext
      <3>2. UnderWay => UnderWay'
        BY <2>0, <3>1 DEF UnderWay
      <3>3. \A s \in Rntis : ctx[LteCell][s].state \in ConnectedStates =>
                (AllAsked(ctx[LteCell][s], x2) => AllAsked(ctx[LteCell][s], x2'))
        BY <3>1
      <3>4. SamePlaces
        <4>1. CASE ~(Mode = "Ttt" /\ associated /\ usingLte /\ x.allInOutage)
          BY <3>1, <4>1, SamePlacesAll
        <4>2. CASE Mode = "Ttt" /\ associated /\ usingLte /\ x.allInOutage
          <5>1. known
            BY <1>2, <2>1, <4>2 DEF LooksUpUe
          <5> DEFINE y == EndOutage(x)
          <5>2. /\ y \in Contexts /\ SamePlace(x, y)
            BY <2>2, <5>1 DEF EndOutage, Contexts, SamePlace
          <5>3. ctx' = [ctx EXCEPT ![LteCell][r] = y]
            BY <2>1, <3>1, <4>2
          <5> HIDE DEF y
          <5> QED
            BY <1>0, <2>1, <2>2, <5>1, <5>2, <5>3, SamePlacesBut
        <4> QED
          BY <4>1, <4>2
      <3> QED
        BY <2>0, <3>2, <3>3, <3>4, ProgressKept
    <2> QED
      BY <2>0, <2>3, <2>4
  <1> QED
    BY <1>1, <1>2

\* Nothing is asked for and nobody is connected at the start.
LEMMA CompletionInit == Init => SettledContexts /\ Progress
  <1> SUFFICES ASSUME Init PROVE SettledContexts /\ Progress
    OBVIOUS
  <1>1. \A c \in Nodes, r \in Rntis : ctx[c][r] = NoContext
    BY DEF Init
  <1>2. Cells \subseteq Nodes /\ LteCell \in Nodes /\ ~setup
    BY DEF Nodes, Init
  <1>3. Settled(NoContext) /\ NoContext.state \notin ConnectedStates
    BY DEF NoContext, Settled, ConnectedStates
  <1> QED
    BY <1>1, <1>2, <1>3 DEF SettledContexts, Progress

\* Every step goes on with the set-up.
LEMMA ProgressStep ==
    ASSUME Typed, Attachment, Reporting, Bearers, SplitsExist, Progress, [Next]_vars
    PROVE  Progress'
  <1>1. CASE UNCHANGED vars
    BY <1>1, ProgressOther
  <1>2. CASE \E k \in Legs : UeStep(k) \/ CellStep(k)
    BY <1>2, ProgressUeStep, ProgressCellStep
  <1>3. CASE UeConfigured
    BY <1>3, ProgressConfigured
  <1>4. CASE BearersStep
    BY <1>4, ProgressAsked, ProgressReported, ProgressReconfigured DEF BearersStep
  <1>5. CASE \E c \in Cells : X2Step(c)
    BY <1>5, ProgressRlc, ProgressSplit, ProgressSwitched DEF X2Step
  <1>6. CASE TriggerUeAssociationUpdate
    BY <1>6, ProgressDecision
  <1>7. CASE \/ \E k \in Legs : Lose(k)
             \/ RandomAccessFailed \/ Expire \/ SinrChanges
    BY <1>7, ProgressOther
  <1> QED
    BY <1>1, <1>2, <1>3, <1>4, <1>5, <1>6, <1>7 DEF Next

\* When nothing is under way, what the invariants leave is a set-up that is complete.
LEMMA QuietIsComplete ==
    ASSUME Typed, Attachment, Reporting, Bearers, SettledContexts, Progress,
           setup, srb1 = <<>>, x2 = NoTraffic, \A k \in Legs : up[k] = <<>>
    PROVE  LET x == LteContext
               y == ctx[x.mmCell][x.mmRnti]
           IN  /\ last = x.mmCell /\ rntiOf[last] = x.mmRnti /\ ~usingLte
               /\ x.state = "CONNECTED_NORMALLY" /\ y.state = "CONNECTED_NORMALLY"
               /\ y.rlc = Drbs
               /\ pdcp = [d \in Drbs |-> [cell |-> last, rnti |-> x.mmRnti, mm |-> TRUE]]
  <1>0. /\ Legs = {"lte", "mm"} /\ LteCell \in Nodes /\ CellsTyped /\ LegInv("mm")
        /\ pdcp \in [Drbs -> Pdcps]
    BY DEF Legs, Nodes, Typed, Attachment, CoordinatorTyped
  <1>1. Connected("lte")
    <2>1. PICK r \in Rntis : ctx[LteCell][r].state \in ConnectedStates
      BY DEF Progress, LteConnected
    <2> QED
      BY <2>1, LteContextConnected
  <1>2. PICK x : x = LteX
    OBVIOUS
  <1>3. /\ x = LteContext /\ x \in Contexts /\ x.state \in ConnectedStates
        /\ rntiOf[LteCell] \in Rntis /\ x = ctx[LteCell][rntiOf[LteCell]]
    BY <1>1, <1>2, LteContextIs DEF LteX, LteContext, Connected
  <1>4. Proceeds(x)
    BY <1>1, <1>2, ProgressNow
  <1>5. ~UnderWay
    <2>1. Items(srb1) = {} /\ Items(up["lte"]) = {}
      BY <1>0 DEF Items
    <2> QED
      BY <2>1 DEF UnderWay, HasType
  <1>6. /\ x.state = "CONNECTED_NORMALLY" /\ ~usingLte /\ last = x.mmCell
        /\ x.mcDrbs # {} /\ \A d \in x.mcDrbs : pdcp[d].mm
    BY <1>4, <1>5 DEF Proceeds, Reconfiguring, Concluded
  <1>7. x.mmCell # NoCell
    BY <1>0, <1>3, <1>6, FieldsOf DEF BearerFields
  <1>8. PICK y : y = ContextOf("mm")
    OBVIOUS
  <1>9. /\ y = ctx[x.mmCell][x.mmRnti] /\ y \in Contexts /\ rntiOf[x.mmCell] = x.mmRnti
        /\ x.mmCell \in Cells /\ x.mmRnti \in Rntis
        /\ ue["mm"].state = "CONNECTED_NORMALLY"
    BY <1>1, <1>2, <1>7, <1>8, SecondaryContext
  <1>10. y.state = "CONNECTED_NORMALLY"
    <2>1. y.state \in ConnectedStates
      <3>1. up["mm"] = <<>>
        BY <1>0
      <3>2. up["mm"] # <<Uplink("SetupCompleted")>>
        BY <3>1
      <3> QED
        BY <1>0, <1>8, <1>9, <3>2 DEF LegInv, Accepted
    <2> QED
      BY <1>9, <2>1 DEF SettledContexts, Settled
  <1>11. \A d \in Drbs : d \in x.mcDrbs
    <2>1. <<LteCell, x.mmCell>> \in Links /\ <<x.mmCell, LteCell>> \in Links
      BY <1>9, CellsAssumption DEF Links, Nodes
    <2>2. Items(x2[<<LteCell, x.mmCell>>]) = {} /\ Items(x2[<<x.mmCell, LteCell>>]) = {}
      BY <2>1 DEF NoTraffic, Items
    <2> QED
      BY <1>4, <1>6, <2>2 DEF Proceeds, AllAsked, Asked
  <1>12. \A d \in Drbs : d \in y.rlc /\ pdcp[d].cell = x.mmCell /\ pdcp[d].rnti = x.mmRnti
    <2>1. SplitOver(x, y.rlc, pdcp, x2)
      BY <1>1, <1>2, <1>8 DEF Bearers, Splitting, MmRlc
    <2> QED
      BY <1>11, <2>1 DEF SplitOver, DirectedTo
  <1>13. y.rlc = Drbs
    BY <1>9, <1>12, ContextFields
  <1>14. \A d \in Drbs : pdcp[d] = [cell |-> last, rnti |-> x.mmRnti, mm |-> TRUE]
    <2> SUFFICES ASSUME NEW d \in Drbs
                 PROVE  pdcp[d] = [cell |-> last, rnti |-> x.mmRnti, mm |-> TRUE]
      OBVIOUS
    <2>1. pdcp[d] \in Pdcps /\ pdcp[d].mm = TRUE
      BY <1>0, <1>6, <1>11 DEF Pdcps
    <2> QED
      BY <1>6, <1>12, <2>1 DEF Pdcps
  <1>15. pdcp = [d \in Drbs |-> [cell |-> last, rnti |-> x.mmRnti, mm |-> TRUE]]
    BY <1>0, <1>14
  <1> QED
    BY <1>3, <1>6, <1>9, <1>10, <1>13, <1>15

\* SetupIsComplete: whatever is lost and whenever the decisions and reports come, a set-up
\* that counts as done, with nothing on its way, is where the handover starts from.
THEOREM SetupsAreComplete == Spec => []SetupIsComplete
  <1>1. Init => SplitsExist /\ SettledContexts /\ Progress
    BY FaultsInit, CompletionInit
  <1>2. /\ Typed /\ Attachment /\ Reporting /\ Bearers
        /\ SplitsExist /\ SettledContexts /\ Progress /\ [Next]_vars
        => (SplitsExist /\ SettledContexts /\ Progress)'
    BY SplitsExistStep, SettledStep, ProgressStep
  <1>3. Typed /\ Attachment /\ Reporting /\ Bearers /\ SettledContexts /\ Progress
            => SetupIsComplete
    BY QuietIsComplete DEF SetupIsComplete
  <1> QED
    BY <1>1, <1>2, <1>3, BearersAlways, PTL DEF Spec
=============================================================================
