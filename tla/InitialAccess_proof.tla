------------------------ MODULE InitialAccess_proof ------------------------
(***************************************************************************)
(* Theorems about the set-up of a dual connection: what is on its way and  *)
(* what the cells hold at each stage.                                      *)
(***************************************************************************)
EXTENDS InitialAccess, FiniteSetTheorems, WellFoundedInduction, TLAPS

-----------------------------------------------------------------------------
(***************************************************************************)
(* Queues, seen as the sets of what is in them                             *)
(***************************************************************************)
Items(s) == {s[i] : i \in 1 .. Len(s)}

\* What is in a queue after a message was put at its end.
LEMMA ItemsAppend ==
    ASSUME NEW M, NEW s \in Seq(M), NEW m \in M
    PROVE  /\ Append(s, m) \in Seq(M) /\ Append(s, m) # <<>>
           /\ Items(Append(s, m)) = Items(s) \cup {m}
  <1>1. Len(Append(s, m)) = Len(s) + 1 /\ Len(s) \in Nat
    OBVIOUS
  <1>2. \A i \in 1 .. Len(s) : Append(s, m)[i] = s[i]
    OBVIOUS
  <1>3. Append(s, m)[Len(s) + 1] = m
    OBVIOUS
  <1>4. Items(Append(s, m)) \subseteq Items(s) \cup {m}
    BY <1>1, <1>2, <1>3 DEF Items
  <1>5. Items(s) \subseteq Items(Append(s, m))
    BY <1>1, <1>2 DEF Items
  <1>6. m \in Items(Append(s, m))
    BY <1>1, <1>3 DEF Items
  <1>7. Append(s, m) \in Seq(M)
    OBVIOUS
  <1>8. Append(s, m) # <<>>
    BY <1>1
  <1> QED
    BY <1>4, <1>5, <1>6, <1>7, <1>8

\* What is in a queue after its head was taken.
LEMMA ItemsTail ==
    ASSUME NEW M, NEW s \in Seq(M), s # <<>>
    PROVE  /\ Tail(s) \in Seq(M) /\ Head(s) \in M /\ Head(s) \in Items(s)
           /\ Items(Tail(s)) \subseteq Items(s)
           /\ Items(s) \subseteq Items(Tail(s)) \cup {Head(s)}
  <1>1. Tail(s) \in Seq(M) /\ Head(s) \in M /\ Len(s) \in Nat /\ Len(s) # 0
    OBVIOUS
  <1>2. Len(Tail(s)) = Len(s) - 1 /\ \A i \in 1 .. Len(Tail(s)) : Tail(s)[i] = s[i + 1]
    OBVIOUS
  <1>3. Head(s) = s[1]
    OBVIOUS
  <1>4. Head(s) \in Items(s)
    BY <1>1, <1>3 DEF Items
  <1>5. Items(Tail(s)) \subseteq Items(s)
    BY <1>1, <1>2 DEF Items
  <1>6. ASSUME NEW i \in 1 .. Len(s) PROVE s[i] \in Items(Tail(s)) \cup {Head(s)}
    <2>1. CASE i = 1
      BY <1>3, <2>1
    <2>2. CASE i # 1
      <3>1. i - 1 \in 1 .. Len(Tail(s)) /\ Tail(s)[i - 1] = s[i]
        BY <1>1, <1>2, <2>2
      <3> QED
        BY <3>1 DEF Items
    <2> QED
      BY <2>1, <2>2
  <1>7. Items(s) \subseteq Items(Tail(s)) \cup {Head(s)}
    BY <1>6 DEF Items
  <1> QED
    BY <1>1, <1>4, <1>5, <1>7

\* What is in two queues, one after the other.
LEMMA ItemsConcat ==
    ASSUME NEW M, NEW s \in Seq(M), NEW t \in Seq(M)
    PROVE  /\ s \o t \in Seq(M)
           /\ Items(s \o t) = Items(s) \cup Items(t)
  <1>1. s \o t \in Seq(M) /\ Len(s \o t) = Len(s) + Len(t) /\ Len(s) \in Nat /\ Len(t) \in Nat
    OBVIOUS
  <1>2. \A i \in 1 .. Len(s) : (s \o t)[i] = s[i]
    OBVIOUS
  <1>3. \A i \in 1 .. Len(t) : (s \o t)[i + Len(s)] = t[i]
    OBVIOUS
  <1>4. ASSUME NEW i \in 1 .. Len(s \o t) PROVE (s \o t)[i] \in Items(s) \cup Items(t)
    <2>1. CASE i <= Len(s)
      BY <1>1, <1>2, <2>1 DEF Items
    <2>2. CASE ~(i <= Len(s))
      <3>1. i - Len(s) \in 1 .. Len(t) /\ (i - Len(s)) + Len(s) = i
        BY <1>1, <2>2
      <3> QED
        BY <1>3, <3>1 DEF Items
    <2> QED
      BY <2>1, <2>2
  <1>5. Items(s) \subseteq Items(s \o t)
    BY <1>1, <1>2 DEF Items
  <1>6. ASSUME NEW i \in 1 .. Len(t) PROVE t[i] \in Items(s \o t)
    <2>1. i + Len(s) \in 1 .. Len(s \o t)
      BY <1>1
    <2> QED
      BY <1>3, <2>1 DEF Items
  <1> QED
    BY <1>1, <1>4, <1>5, <1>6 DEF Items

\* An empty queue holds nothing, and only an empty one.
LEMMA ItemsEmpty ==
    ASSUME NEW M, NEW s \in Seq(M)
    PROVE  (s = <<>>) <=> (Items(s) = {})
  <1>1. CASE s = <<>>
    BY <1>1 DEF Items
  <1>2. CASE s # <<>>
    BY <1>2, ItemsTail
  <1> QED
    BY <1>1, <1>2

-----------------------------------------------------------------------------
(***************************************************************************)
(* InOrder (S) lists the bearers of S.                                     *)
(***************************************************************************)
Sorted(f, S) == \A i, j \in 1 .. Cardinality(S) : i < j => f[i] < f[j]
Below == {p \in Nat \X Nat : p[1] < p[2]}

\* Natural numbers are well-founded.
LEMMA BelowIsWellFounded == IsWellFoundedOn(Below, Nat)
  BY NatLessThanWellFounded DEF OpToRel, Below

\* A smaller number is below.
LEMMA BelowIs == \A a, b \in Nat : a < b => <<a, b>> \in Below
  BY DEF Below

\* A finite set of numbers can be listed in order: by the smallest counterexample,
\* from which the smallest number is taken away.
LEMMA OrderExists ==
    ASSUME NEW S \in SUBSET Nat, IsFiniteSet(S)
    PROVE  \E f \in [1 .. Cardinality(S) -> S] : Sorted(f, S)
  <1> DEFINE Ordered(T) == \E f \in [1 .. Cardinality(T) -> T] : Sorted(f, T)
             Bad == {n \in Nat : \E T \in SUBSET Nat :
                        IsFiniteSet(T) /\ Cardinality(T) = n /\ ~Ordered(T)}
  <1>1. Bad = {}
    <2> SUFFICES ASSUME Bad # {} PROVE FALSE
      OBVIOUS
    <2>1. PICK n \in Bad : \A j \in Bad : ~(<<j, n>> \in Below)
      <3>1. Bad \subseteq Nat
        OBVIOUS
      <3> HIDE DEF Bad
      <3> QED
        BY <3>1, BelowIsWellFounded, WFMin
    <2>2. PICK T \in SUBSET Nat : IsFiniteSet(T) /\ Cardinality(T) = n /\ ~Ordered(T)
      OBVIOUS
    <2>3. n \in Nat
      OBVIOUS
    <2> HIDE DEF Bad
    <2>4. CASE T = {}
      <3>1. Cardinality(T) = 0 /\ 1 .. 0 = {}
        BY <2>4, FS_EmptySet
      <3> DEFINE e == [i \in 1 .. Cardinality(T) |-> 0]
      <3>2. e \in [1 .. Cardinality(T) -> T]
        BY <3>1
      <3>3. Sorted(e, T)
        BY <3>1 DEF Sorted
      <3> QED
        BY <2>2, <3>2, <3>3
    <2>5. CASE T # {}
      <3>1. PICK m \in T : \A t \in T : m <= t
        <4>1. PICK m \in T : \A t \in T : ~(<<t, m>> \in Below)
          BY <2>5, BelowIsWellFounded, WFMin
        <4>2. \A t \in T : t \in Nat /\ m \in Nat /\ ~(t < m)
          BY <4>1, BelowIs
        <4> QED
          BY <4>2
      <3> DEFINE U == T \ {m}
      <3>2. IsFiniteSet(U) /\ Cardinality(U) = n - 1
        BY <2>2, <3>1, FS_RemoveElement
      <3>3. n - 1 \in Nat
        BY <2>2, <2>3, <2>5, FS_EmptySet
      <3>4. Ordered(U)
        <4>1. <<n - 1, n>> \in Below
          BY <2>3, <3>3 DEF Below
        <4>2. n - 1 \notin Bad
          BY <2>1, <4>1
        <4>3. U \in SUBSET Nat
          OBVIOUS
        <4> QED
          BY <3>2, <3>3, <4>2, <4>3 DEF Bad
      <3>5. PICK f \in [1 .. n - 1 -> U] : \A i, j \in 1 .. n - 1 : i < j => f[i] < f[j]
        BY <3>2, <3>4 DEF Sorted
      <3> DEFINE g == [i \in 1 .. n |-> IF i = 1 THEN m ELSE f[i - 1]]
      <3>6. \A i \in 2 .. n : i - 1 \in 1 .. n - 1 /\ g[i] = f[i - 1] /\ g[i] \in U
        BY <2>3, <3>3, <3>5
      <3>7. g \in [1 .. n -> T]
        BY <2>3, <3>1, <3>6
      <3>8. ASSUME NEW i \in 1 .. n, NEW j \in 1 .. n, i < j PROVE g[i] < g[j]
        <4>1. j \in 2 .. n /\ g[j] \in U
          BY <2>3, <3>6, <3>8
        <4>2. CASE i = 1
          <5>1. g[i] = m /\ m <= g[j] /\ m # g[j] /\ m \in Nat /\ g[j] \in Nat
            BY <3>1, <4>1, <4>2
          <5> QED
            BY <5>1
        <4>3. CASE i # 1
          <5>1. i \in 2 .. n /\ i - 1 \in 1 .. n - 1 /\ j - 1 \in 1 .. n - 1 /\ i - 1 < j - 1
            BY <2>3, <3>8, <4>1, <4>3
          <5> QED
            BY <3>5, <3>6, <4>1, <5>1
        <4> QED
          BY <4>2, <4>3
      <3> HIDE DEF g
      <3>9. Sorted(g, T)
        BY <2>2, <3>8 DEF Sorted
      <3> QED
        BY <2>2, <3>7, <3>9
    <2> QED
      BY <2>4, <2>5
  <1>2. Cardinality(S) \in Nat
    BY FS_CardinalityType
  <1> QED
    BY <1>1, <1>2

\* InOrder (S) is a list of the bearers of S, each of them once.
LEMMA InOrderLists ==
    ASSUME NEW S \in SUBSET Drbs
    PROVE  /\ IsFiniteSet(S) /\ Cardinality(S) \in Nat
           /\ InOrder(S) \in [1 .. Cardinality(S) -> S]
           /\ \A d \in S : \E i \in 1 .. Cardinality(S) : InOrder(S)[i] = d
  <1>1. IsFiniteSet(S) /\ Cardinality(S) \in Nat
    BY AccessAssumption, FS_Subset, FS_CardinalityType
  <1>2. S \in SUBSET Nat
    BY DrbAssumption
  <1>3. PICK f, n : f = InOrder(S) /\ n = Cardinality(S)
    OBVIOUS
  <1>4. \E h \in [1 .. n -> S] : \A i, j \in 1 .. n : i < j => h[i] < h[j]
    BY <1>1, <1>2, <1>3, OrderExists DEF Sorted
  <1>5. f \in [1 .. n -> S] /\ \A i, j \in 1 .. n : i < j => f[i] < f[j]
    BY <1>3, <1>4 DEF InOrder
  <1>6. f \in Injection(1 .. n, S)
    <2>1. ASSUME NEW i \in 1 .. n, NEW j \in 1 .. n, f[i] = f[j] PROVE i = j
      <3>1. f[i] \in S /\ f[j] \in S
        BY <1>5
      <3>2. f[i] \in Nat
        BY <1>2, <3>1
      <3>3. i \in Int /\ j \in Int
        OBVIOUS
      <3>4. ~(f[i] < f[j]) /\ ~(f[j] < f[i])
        BY <2>1, <3>2
      <3>5. ~(i < j) /\ ~(j < i)
        BY <1>5, <3>4
      <3> QED
        BY <3>3, <3>5
    <2> QED
      BY <1>5, <2>1 DEF Injection, IsInjective
  <1>7. Cardinality(1 .. n) = n
    BY <1>1, <1>3, FS_Interval
  <1>8. f \in Surjection(1 .. n, S)
    BY <1>1, <1>3, <1>6, <1>7, FS_Injection
  <1> QED
    BY <1>1, <1>3, <1>5, <1>8 DEF Surjection

-----------------------------------------------------------------------------
(***************************************************************************)
(* Types.  That a message names an mmWave cell and a RNTI that exist is    *)
(* not a matter of types: it follows from the order in which things        *)
(* happen.  Typed is TypeOK without it.                                    *)
(***************************************************************************)
SomeRnti == Rntis \cup {NoRnti}
SomeCell == Cells \cup {NoCell}

UplinkMessages == {Uplink(t) : t \in {"Request", "SetupCompleted", "ReconfCompleted"}}
                  \cup {SecondaryCellConnected(c, r) : c \in SomeCell, r \in SomeRnti}
LinkMessages == {SwitchConnection(r) : r \in SomeRnti}
                \cup {RlcSetupRequest(d, r) : d \in Drbs, r \in SomeRnti}
                \cup {RlcSetupCompleted(d) : d \in Drbs}
Pdcps == [cell : SomeCell, rnti : SomeRnti, mm : BOOLEAN]

UeTyped ==
    /\ ue \in [Legs -> UeRrcs]
    /\ nas \in [active : BOOLEAN, cell : SomeCell]
    /\ retry \in BOOLEAN
    /\ ueLeg \in [Drbs -> {"none", "lte", "mm"}]

CellsTyped ==
    /\ ctx \in [Nodes -> [Rntis -> Contexts]]
    /\ lastRnti \in [Nodes -> SomeRnti]
    /\ rntiOf \in [Nodes -> SomeRnti]

CoordinatorTyped ==
    /\ associated \in BOOLEAN /\ setup \in BOOLEAN /\ usingLte \in BOOLEAN
    /\ s1 \in BOOLEAN
    /\ last \in SomeCell /\ best \in Cells
    /\ sinr \in [Cells -> Sinrs]
    /\ pdcp \in [Drbs -> Pdcps]

AirTyped ==
    /\ rar \in [Legs -> SomeRnti]
    /\ srb0 \in [Legs -> SUBSET SignalMessages]
    /\ srb1 \in Seq(BearerMessages)
    /\ up \in [Legs -> Seq(UplinkMessages)]
    /\ x2 \in [Links -> Seq(LinkMessages)]

BoundsTyped == losses \in 0 .. MaxLosses /\ fades \in 0 .. MaxFades

Typed == UeTyped /\ CellsTyped /\ CoordinatorTyped /\ AirTyped /\ BoundsTyped

-----------------------------------------------------------------------------
(***************************************************************************)
(* The attachment of a leg: what a cell holds for it and what is on its    *)
(* way at each stage, from the response to its preamble to the end of the  *)
(* set-up of its connection.                                               *)
(***************************************************************************)
Attached == {"IDLE_CONNECTING", "CONNECTED_NORMALLY"}
Answers == {RrcConnectionSetup, RrcConnectionReject}

AtItsCell(k) ==
    IF k = "lte" THEN ue[k].cell = LteCell /\ ue[k].state # "IDLE_START"
    ELSE \/ ue[k].state = "IDLE_START" /\ ue[k].cell = NoCell
         \/ ue[k].state # "IDLE_START" /\ ue[k].cell \in Cells

Responding(k) == rar[k] # NoRnti =>
    /\ ue[k].state = "IDLE_RANDOM_ACCESS"
    /\ ctx[ue[k].cell][rar[k]].state = "INITIAL_RANDOM_ACCESS"

Detached(k) == ue[k].state \notin Attached =>
    up[k] = <<>> /\ srb0[k] \cap Answers = {}

Requesting(k) ==
    /\ up[k] = <<Uplink("Request")>> /\ srb0[k] \cap Answers = {}
    /\ ContextOf(k).state = "INITIAL_RANDOM_ACCESS"

Answered(k) ==
    /\ up[k] = <<>>
    /\ RrcConnectionSetup \in srb0[k] =>
          ContextOf(k).state = "CONNECTION_SETUP" /\ rntiOf[ue[k].cell] = ue[k].rnti
    /\ RrcConnectionReject \in srb0[k] => ContextOf(k).state = "CONNECTION_REJECTED"

Connecting(k) == ue[k].state = "IDLE_CONNECTING" =>
    ue[k].rnti # NoRnti /\ (Requesting(k) \/ Answered(k))

\* Leg k is connected and its cell knows it.
Connected(k) ==
    ue[k].state = "CONNECTED_NORMALLY" /\ ContextOf(k).state \in ConnectedStates

Accepted(k) == ue[k].state = "CONNECTED_NORMALLY" =>
    /\ ue[k].rnti # NoRnti /\ rntiOf[ue[k].cell] = ue[k].rnti
    /\ srb0[k] \cap Answers = {}
    /\ \/ up[k] = <<Uplink("SetupCompleted")>> /\ ContextOf(k).state = "CONNECTION_SETUP"
       \/ /\ ContextOf(k).state \in ConnectedStates
          /\ \A m \in Items(up[k]) : m.type \notin {"Request", "SetupCompleted"}

LegInv(k) == AtItsCell(k) /\ Responding(k) /\ Detached(k) /\ Connecting(k) /\ Accepted(k)

ToldToConnect == \E m \in srb0["lte"] : m.type = "ConnectToMmWave"

\* What waits for the LTE connection: the mmWave connection, the bearers and X2.
DualStarted ==
    \/ ue["mm"].state # "IDLE_START"
    \/ ToldToConnect
    \/ srb1 # <<>>
    \/ \E l \in Links : x2[l] # <<>>

LteFirst ==
    /\ nas.active <=> ue["lte"].state = "CONNECTED_NORMALLY"
    /\ DualStarted => Connected("lte")
    /\ \A m \in Items(up["mm"]) : m.type \in {"Request", "SetupCompleted"}

ContextAsked == s1 =>
    /\ ue["lte"].state \in Attached /\ rntiOf[LteCell] = ue["lte"].rnti
    /\ ContextOf("lte").state \in {"CONNECTION_SETUP"} \cup ConnectedStates

\* What a context holds before its connection is complete.
Bare(x) ==
    /\ ~x.pendingConnect
    /\ x.state \notin ConnectedStates =>
          ~x.allInOutage /\ ~x.available /\ x.mmCell = NoCell /\ x.mcDrbs = {}

BareContexts == \A c \in Nodes, r \in Rntis : Bare(ctx[c][r])

Attachment ==
    /\ \A k \in Legs : LegInv(k)
    /\ LteFirst
    /\ ContextAsked
    /\ BareContexts
    /\ ConnectedContextsAreInUse

-----------------------------------------------------------------------------

\* The fields of the messages.
LEMMA FieldTypes ==
    /\ \A m \in SignalMessages :
          /\ m.type \in {"Setup", "Reject", "ConnectToMmWave"}
          /\ m.type = "ConnectToMmWave" => m.cell \in Cells /\ m = RrcConnectToMmWave(m.cell)
          /\ m.type = "Setup" => m = RrcConnectionSetup
          /\ m.type = "Reject" => m = RrcConnectionReject
    /\ \A m \in BearerMessages :
          /\ m.type \in {"Reconfiguration", "SwitchToLte"} /\ m.drbs \in SUBSET Drbs
          /\ m.type = "Reconfiguration" => m.mc \in SUBSET Drbs
    /\ \A m \in UplinkMessages :
          /\ m.type \in {"Request", "SetupCompleted", "ReconfCompleted",
                         "SecondaryCellConnected"}
          /\ m.type = "SecondaryCellConnected" =>
                m.cell \in SomeCell /\ m.rnti \in SomeRnti
                /\ m = SecondaryCellConnected(m.cell, m.rnti)
          /\ m.type # "SecondaryCellConnected" => m = Uplink(m.type)
    /\ \A m \in LinkMessages :
          /\ m.type \in {"SwitchConnection", "RlcSetupRequest", "RlcSetupCompleted"}
          /\ m.type = "SwitchConnection" =>
                m.rnti \in SomeRnti /\ m = SwitchConnection(m.rnti)
          /\ m.type = "RlcSetupRequest" =>
                m.drb \in Drbs /\ m.rnti \in SomeRnti /\ m = RlcSetupRequest(m.drb, m.rnti)
          /\ m.type = "RlcSetupCompleted" => m.drb \in Drbs /\ m = RlcSetupCompleted(m.drb)
  <1>1. \A m \in SignalMessages :
          /\ m.type \in {"Setup", "Reject", "ConnectToMmWave"}
          /\ m.type = "ConnectToMmWave" => m.cell \in Cells /\ m = RrcConnectToMmWave(m.cell)
          /\ m.type = "Setup" => m = RrcConnectionSetup
          /\ m.type = "Reject" => m = RrcConnectionReject
    BY DEF SignalMessages, RrcConnectionSetup, RrcConnectionReject, RrcConnectToMmWave
  <1>2. \A m \in BearerMessages :
          /\ m.type \in {"Reconfiguration", "SwitchToLte"} /\ m.drbs \in SUBSET Drbs
          /\ m.type = "Reconfiguration" => m.mc \in SUBSET Drbs
    BY DEF BearerMessages, Reconfiguration, RrcConnectionSwitch
  <1>3. \A m \in UplinkMessages :
          /\ m.type \in {"Request", "SetupCompleted", "ReconfCompleted",
                         "SecondaryCellConnected"}
          /\ m.type = "SecondaryCellConnected" =>
                m.cell \in SomeCell /\ m.rnti \in SomeRnti
                /\ m = SecondaryCellConnected(m.cell, m.rnti)
          /\ m.type # "SecondaryCellConnected" => m = Uplink(m.type)
    BY DEF UplinkMessages, Uplink, SecondaryCellConnected
  <1>4. \A m \in LinkMessages :
          /\ m.type \in {"SwitchConnection", "RlcSetupRequest", "RlcSetupCompleted"}
          /\ m.type = "SwitchConnection" =>
                m.rnti \in SomeRnti /\ m = SwitchConnection(m.rnti)
          /\ m.type = "RlcSetupRequest" =>
                m.drb \in Drbs /\ m.rnti \in SomeRnti /\ m = RlcSetupRequest(m.drb, m.rnti)
          /\ m.type = "RlcSetupCompleted" => m.drb \in Drbs /\ m = RlcSetupCompleted(m.drb)
    BY DEF LinkMessages, SwitchConnection, RlcSetupRequest, RlcSetupCompleted
  <1> QED
    BY <1>1, <1>2, <1>3, <1>4

\* The messages are of different types.
LEMMA MessagesAre ==
    /\ RrcConnectionSetup \in SignalMessages /\ RrcConnectionReject \in SignalMessages
    /\ RrcConnectionSetup.type = "Setup" /\ RrcConnectionReject.type = "Reject"
    /\ \A c : /\ RrcConnectToMmWave(c).type = "ConnectToMmWave"
              /\ RrcConnectToMmWave(c).cell = c
              /\ c \in Cells => RrcConnectToMmWave(c) \in SignalMessages
    /\ \A S, T : /\ Reconfiguration(S, T).type = "Reconfiguration"
                 /\ S \in SUBSET Drbs /\ T \in SUBSET Drbs
                       => Reconfiguration(S, T) \in BearerMessages
    /\ \A S : /\ RrcConnectionSwitch(S).type = "SwitchToLte"
              /\ S \in SUBSET Drbs => RrcConnectionSwitch(S) \in BearerMessages
    /\ \A t : /\ Uplink(t).type = t
              /\ t \in {"Request", "SetupCompleted", "ReconfCompleted"}
                    => Uplink(t) \in UplinkMessages
    /\ \A c, r : /\ SecondaryCellConnected(c, r).type = "SecondaryCellConnected"
                 /\ SecondaryCellConnected(c, r).cell = c
                 /\ SecondaryCellConnected(c, r).rnti = r
                 /\ c \in SomeCell /\ r \in SomeRnti
                       => SecondaryCellConnected(c, r) \in UplinkMessages
    /\ \A r : /\ SwitchConnection(r).type = "SwitchConnection"
              /\ SwitchConnection(r).rnti = r
              /\ r \in SomeRnti => SwitchConnection(r) \in LinkMessages
    /\ \A d, r : /\ RlcSetupRequest(d, r).type = "RlcSetupRequest"
                 /\ RlcSetupRequest(d, r).drb = d /\ RlcSetupRequest(d, r).rnti = r
                 /\ d \in Drbs /\ r \in SomeRnti => RlcSetupRequest(d, r) \in LinkMessages
    /\ \A d : /\ RlcSetupCompleted(d).type = "RlcSetupCompleted"
              /\ RlcSetupCompleted(d).drb = d
              /\ d \in Drbs => RlcSetupCompleted(d) \in LinkMessages
  <1>1. /\ RrcConnectionSetup \in SignalMessages /\ RrcConnectionReject \in SignalMessages
        /\ \A c \in Cells : RrcConnectToMmWave(c) \in SignalMessages
    BY DEF SignalMessages
  <1>2. /\ RrcConnectionSetup.type = "Setup" /\ RrcConnectionReject.type = "Reject"
        /\ \A c : /\ RrcConnectToMmWave(c).type = "ConnectToMmWave"
                  /\ RrcConnectToMmWave(c).cell = c
    BY DEF RrcConnectionSetup, RrcConnectionReject, RrcConnectToMmWave
  <1>3. /\ \A S, T \in SUBSET Drbs : Reconfiguration(S, T) \in BearerMessages
        /\ \A S \in SUBSET Drbs : RrcConnectionSwitch(S) \in BearerMessages
    BY DEF BearerMessages
  <1>4. /\ \A S, T : Reconfiguration(S, T).type = "Reconfiguration"
        /\ \A S : RrcConnectionSwitch(S).type = "SwitchToLte"
    BY DEF Reconfiguration, RrcConnectionSwitch
  <1>5. /\ \A t \in {"Request", "SetupCompleted", "ReconfCompleted"} :
              Uplink(t) \in UplinkMessages
        /\ \A c \in SomeCell, r \in SomeRnti :
              SecondaryCellConnected(c, r) \in UplinkMessages
    BY DEF UplinkMessages
  <1>6. /\ \A t : Uplink(t).type = t
        /\ \A c, r : /\ SecondaryCellConnected(c, r).type = "SecondaryCellConnected"
                     /\ SecondaryCellConnected(c, r).cell = c
                     /\ SecondaryCellConnected(c, r).rnti = r
    BY DEF Uplink, SecondaryCellConnected
  <1>7. /\ \A r \in SomeRnti : SwitchConnection(r) \in LinkMessages
        /\ \A d \in Drbs, r \in SomeRnti : RlcSetupRequest(d, r) \in LinkMessages
        /\ \A d \in Drbs : RlcSetupCompleted(d) \in LinkMessages
    BY DEF LinkMessages
  <1>8. /\ \A r : SwitchConnection(r).type = "SwitchConnection"
                  /\ SwitchConnection(r).rnti = r
        /\ \A d, r : /\ RlcSetupRequest(d, r).type = "RlcSetupRequest"
                     /\ RlcSetupRequest(d, r).drb = d /\ RlcSetupRequest(d, r).rnti = r
        /\ \A d : /\ RlcSetupCompleted(d).type = "RlcSetupCompleted"
                  /\ RlcSetupCompleted(d).drb = d
    BY DEF SwitchConnection, RlcSetupRequest, RlcSetupCompleted
  <1> QED
    BY <1>1, <1>2, <1>3, <1>4, <1>5, <1>6, <1>7, <1>8

\* A context is replaced; where there is none, nothing is.
LEMMA ContextSet ==
    ASSUME CellsTyped, NEW c, NEW r, NEW x, c \in Nodes /\ r \in Rntis => x \in Contexts
    PROVE  /\ [ctx EXCEPT ![c][r] = x] \in [Nodes -> [Rntis -> Contexts]]
           /\ \A d \in Nodes, s \in Rntis : [ctx EXCEPT ![c][r] = x][d][s] =
                  IF d = c /\ s = r THEN x ELSE ctx[d][s]
  <1> DEFINE row == [ctx[c] EXCEPT ![r] = x]
             new == [ctx EXCEPT ![c] = row]
  <1>1. new = [ctx EXCEPT ![c][r] = x]
    OBVIOUS
  <1>2. ctx \in [Nodes -> [Rntis -> Contexts]]
    BY DEF CellsTyped
  <1>3. c \in Nodes => /\ row \in [Rntis -> Contexts]
                       /\ \A s \in Rntis : row[s] = IF s = r THEN x ELSE ctx[c][s]
    BY <1>2
  <1> HIDE DEF row
  <1>4. new \in [Nodes -> [Rntis -> Contexts]]
    BY <1>2, <1>3
  <1>5. \A d \in Nodes : new[d] = IF d = c THEN row ELSE ctx[d]
    BY <1>2
  <1>6. \A d \in Nodes, s \in Rntis : new[d][s] = IF d = c /\ s = r THEN x ELSE ctx[d][s]
    BY <1>3, <1>5
  <1> HIDE DEF new
  <1> QED
    BY <1>1, <1>4, <1>6

\* The fields of a context.
LEMMA ContextFields ==
    /\ NoContext \in Contexts
    /\ \A x \in Contexts :
          /\ x.state \in UeStates /\ x.pendingReconf \in BOOLEAN
          /\ x.pendingConnect \in BOOLEAN /\ x.allInOutage \in BOOLEAN
          /\ x.available \in BOOLEAN /\ x.mmCell \in SomeCell /\ x.mmRnti \in SomeRnti
          /\ x.drbs \in SUBSET Drbs /\ x.mcDrbs \in SUBSET Drbs /\ x.rlc \in SUBSET Drbs
    /\ \A x \in Contexts : \A st \in UeStates : [x EXCEPT !.state = st] \in Contexts
  <1>1. NoContext \in Contexts
    BY DEF NoContext, Contexts, UeStates
  <1>2. \A x \in Contexts :
          /\ x.state \in UeStates /\ x.pendingReconf \in BOOLEAN
          /\ x.pendingConnect \in BOOLEAN /\ x.allInOutage \in BOOLEAN
          /\ x.available \in BOOLEAN /\ x.mmCell \in SomeCell /\ x.mmRnti \in SomeRnti
          /\ x.drbs \in SUBSET Drbs /\ x.mcDrbs \in SUBSET Drbs /\ x.rlc \in SUBSET Drbs
    BY DEF Contexts, SomeCell, SomeRnti
  <1>3. \A x \in Contexts : \A st \in UeStates : [x EXCEPT !.state = st] \in Contexts
    BY DEF Contexts
  <1> QED
    BY <1>1, <1>2, <1>3

\* The first bearer is one of the UE's.
LEMMA FirstDrbIsOne == FirstDrb \in Drbs
  <1>1. Cardinality(Drbs) \in Nat /\ Cardinality(Drbs) # 0
    BY AccessAssumption, FS_CardinalityType, FS_EmptySet
  <1>2. InOrder(Drbs) \in [1 .. Cardinality(Drbs) -> Drbs]
    BY InOrderLists
  <1>3. 1 \in 1 .. Cardinality(Drbs)
    BY <1>1
  <1> QED
    BY <1>2, <1>3 DEF FirstDrb

\* The RRCs, as far as types go.
LEMMA RrcTypes ==
    ASSUME NEW u \in UeRrcs
    PROVE  /\ Camp(u) \in UeRrcs /\ Connect(u) \in UeRrcs
           /\ AwaitSib2(u) \in UeRrcs /\ StartConnection(u) \in UeRrcs
           /\ Camp([u EXCEPT !.sib2 = FALSE]) \in UeRrcs
           /\ \A c \in Cells : Connect(ForceCampedOnEnb(u, c)) \in UeRrcs
  <1>1. \A v \in UeRrcs : StartConnection(v) \in UeRrcs
    BY DEF UeRrcs, UeRrcStates, StartConnection
  <1>2. \A v \in UeRrcs : AwaitSib2(v) \in UeRrcs
    BY <1>1 DEF UeRrcs, UeRrcStates, AwaitSib2
  <1>3. \A v \in UeRrcs : Camp(v) \in UeRrcs
    BY <1>2 DEF UeRrcs, UeRrcStates, Camp
  <1>4. \A v \in UeRrcs : [v EXCEPT !.pending = TRUE] \in UeRrcs
    BY DEF UeRrcs
  <1>5. \A v \in UeRrcs : Connect(v) \in UeRrcs
    BY <1>2, <1>4 DEF Connect
  <1>6. [u EXCEPT !.sib2 = FALSE] \in UeRrcs
    BY DEF UeRrcs
  <1>7. \A c \in Cells : ForceCampedOnEnb(u, c) \in UeRrcs
    BY DEF UeRrcs, UeRrcStates, ForceCampedOnEnb, Nodes
  <1> QED
    BY <1>1, <1>2, <1>3, <1>5, <1>6, <1>7

\* What a leg does to its own RRC keeps the types of the UE.
LEMMA TypedUe ==
    ASSUME UeTyped, NEW k \in Legs, NEW u \in UeRrcs, ue' = [ue EXCEPT ![k] = u],
           nas' \in [active : BOOLEAN, cell : SomeCell], retry' \in BOOLEAN, ueLeg' = ueLeg
    PROVE  UeTyped'
  BY DEF UeTyped

\* The RRC of a leg.
LEMMA UeFields ==
    ASSUME UeTyped, NEW k \in Legs
    PROVE  /\ ue[k] \in UeRrcs /\ ue[k].state \in UeRrcStates
           /\ ue[k].cell \in Nodes \cup {NoCell} /\ ue[k].rnti \in SomeRnti
           /\ ue[k].pending \in BOOLEAN /\ ue[k].sib2 \in BOOLEAN
           /\ nas.active \in BOOLEAN /\ nas.cell \in SomeCell
  BY DEF UeTyped, UeRrcs, SomeRnti

\* The variables are typed at the start.
LEMMA TypedInit == Init => Typed
  <1> SUFFICES ASSUME Init PROVE Typed
    OBVIOUS
  <1>1. UeTyped
    BY DEF Init, UeTyped, UeRrcs, UeRrcStates, Legs, SomeCell, Nodes
  <1>2. CellsTyped
    BY ContextFields DEF Init, CellsTyped, SomeRnti
  <1>3. CoordinatorTyped
    BY DEF Init, CoordinatorTyped, NoPdcp, Pdcps, SomeCell, SomeRnti
  <1>4. AirTyped
    BY DEF Init, AirTyped, NoTraffic, SomeRnti
  <1>5. BoundsTyped
    BY AccessAssumption DEF Init, BoundsTyped
  <1> QED
    BY <1>1, <1>2, <1>3, <1>4, <1>5 DEF Typed

\* Nothing but "fault" changes when an assertion ends the simulation.
LEMMA TypedStop ==
    ASSUME Typed, NEW why, Stop(why)
    PROVE  Typed'
  BY DEF Stop, Typed, UeTyped, CellsTyped, CoordinatorTyped, AirTyped, BoundsTyped,
         terminal, contexts, coordinator, air, bounds

\* The steps of the UE's RRCs.
LEMMA TypedUeStep ==
    ASSUME Typed, NEW k \in Legs, UeStep(k)
    PROVE  Typed'
  <1>0. /\ UeTyped /\ CellsTyped /\ CoordinatorTyped /\ AirTyped /\ BoundsTyped
        /\ ue[k] \in UeRrcs
    BY UeFields DEF Typed
  <1>1. CASE RecvMib(k)
    <2>1. UeTyped'
      BY <1>0, <1>1, RrcTypes, TypedUe DEF RecvMib, UeTyped
    <2> QED
      BY <1>0, <1>1, <2>1 DEF RecvMib, Typed, CellsTyped, CoordinatorTyped, AirTyped,
                              BoundsTyped, contexts, coordinator, air, bounds
  <1>2. CASE RecvSib2(k)
    <2> DEFINE v == [ue[k] EXCEPT !.sib2 = TRUE]
               w == IF v.state = "IDLE_WAIT_SIB2" THEN StartConnection(v) ELSE v
    <2>1. v \in UeRrcs
      BY <1>0 DEF UeRrcs
    <2>2. w \in UeRrcs
      BY <2>1, RrcTypes
    <2>3. ue' = [ue EXCEPT ![k] = w] /\ UNCHANGED <<nas, retry, ueLeg>>
      BY <1>2 DEF RecvSib2
    <2> HIDE DEF w
    <2>4. UeTyped'
      BY <1>0, <2>2, <2>3, TypedUe DEF UeTyped
    <2> QED
      BY <1>0, <1>2, <2>4 DEF RecvSib2, Typed, CellsTyped, CoordinatorTyped, AirTyped,
                              BoundsTyped, contexts, coordinator, air, bounds
  <1>3. CASE RandomAccessSuccessful(k)
    <2>1. [ue[k] EXCEPT !.state = "IDLE_CONNECTING", !.rnti = rar[k]] \in UeRrcs
      BY <1>0 DEF UeRrcs, UeRrcStates, AirTyped, SomeRnti
    <2>2. UeTyped'
      BY <1>0, <1>3, <2>1, TypedUe DEF RandomAccessSuccessful, UeTyped
    <2>3. Append(up[k], Uplink("Request")) \in Seq(UplinkMessages)
      BY <1>0, MessagesAre, ItemsAppend DEF AirTyped
    <2>4. AirTyped'
      BY <1>0, <1>3, <2>3 DEF RandomAccessSuccessful, AirTyped, SomeRnti
    <2> QED
      BY <1>0, <1>3, <2>2, <2>4
         DEF RandomAccessSuccessful, Typed, CellsTyped, CoordinatorTyped, BoundsTyped,
             contexts, coordinator, bounds
  <1>4. CASE UeRecvRrcConnectionSetup(k)
    <2>1. CASE ue[k].state # "IDLE_CONNECTING"
      BY <1>4, <2>1, TypedStop DEF UeRecvRrcConnectionSetup
    <2>2. CASE ue[k].state = "IDLE_CONNECTING"
      <3>1. [ue[k] EXCEPT !.state = "CONNECTED_NORMALLY"] \in UeRrcs
        BY <1>0 DEF UeRrcs, UeRrcStates
      <3>2. UeTyped'
        BY <1>0, <1>4, <2>2, <3>1, TypedUe DEF UeRecvRrcConnectionSetup, UeTyped
      <3> DEFINE u == [up EXCEPT ![k] = Append(@, Uplink("SetupCompleted"))]
                 w == [u EXCEPT !["lte"] = Append(@,
                                SecondaryCellConnected(nas.cell, ue[k].rnti))]
      <3>3. Append(up[k], Uplink("SetupCompleted")) \in Seq(UplinkMessages)
        BY <1>0, MessagesAre, ItemsAppend DEF AirTyped
      <3>4. u \in [Legs -> Seq(UplinkMessages)]
        BY <1>0, <3>3 DEF AirTyped
      <3>5. SecondaryCellConnected(nas.cell, ue[k].rnti) \in UplinkMessages
        BY <1>0, UeFields, MessagesAre
      <3> HIDE DEF u
      <3>6. Append(u["lte"], SecondaryCellConnected(nas.cell, ue[k].rnti))
                \in Seq(UplinkMessages)
        BY <3>4, <3>5, ItemsAppend DEF Legs
      <3>7. w \in [Legs -> Seq(UplinkMessages)]
        BY <3>4, <3>6
      <3>8. up' = IF nas.active THEN w ELSE u
        BY <1>4, <2>2 DEF UeRecvRrcConnectionSetup, u
      <3>9. srb0' \in [Legs -> SUBSET SignalMessages]
        BY <1>0, <1>4, <2>2 DEF UeRecvRrcConnectionSetup, AirTyped
      <3> HIDE DEF w
      <3>10. AirTyped'
        BY <1>0, <1>4, <2>2, <3>4, <3>7, <3>8, <3>9 DEF UeRecvRrcConnectionSetup, AirTyped
      <3> QED
        BY <1>0, <1>4, <2>2, <3>2, <3>10
           DEF UeRecvRrcConnectionSetup, Typed, CellsTyped, CoordinatorTyped, BoundsTyped,
               contexts, coordinator, bounds
    <2> QED
      BY <2>1, <2>2
  <1>5. ASSUME ConnectionFailed(k), UNCHANGED <<nas, ueLeg>> PROVE UeTyped'
    BY <1>0, <1>5, RrcTypes, TypedUe DEF ConnectionFailed, UeTyped
  <1>6. CASE UeRecvRrcConnectionReject(k)
    <2>1. UeTyped'
      BY <1>5, <1>6 DEF UeRecvRrcConnectionReject
    <2>2. AirTyped'
      BY <1>0, <1>6 DEF UeRecvRrcConnectionReject, AirTyped
    <2> QED
      BY <1>0, <1>6, <2>1, <2>2
         DEF UeRecvRrcConnectionReject, Typed, CellsTyped, CoordinatorTyped, BoundsTyped,
             contexts, coordinator, bounds
  <1>7. CASE ConnectionTimeout(k)
    <2>1. UeTyped'
      BY <1>5, <1>7 DEF ConnectionTimeout
    <2> QED
      BY <1>0, <1>7, <2>1
         DEF ConnectionTimeout, Typed, CellsTyped, CoordinatorTyped, AirTyped, BoundsTyped,
             contexts, coordinator, air, bounds
  <1> QED
    BY <1>1, <1>2, <1>3, <1>4, <1>6, <1>7 DEF UeStep

\* A message is put on SRB1, on an uplink or on a link.
LEMMA TypedSent ==
    ASSUME AirTyped
    PROVE  /\ \A m \in BearerMessages : Append(srb1, m) \in Seq(BearerMessages)
           /\ \A k \in Legs, m \in UplinkMessages :
                 [up EXCEPT ![k] = Append(@, m)] \in [Legs -> Seq(UplinkMessages)]
           /\ \A k \in Legs : up[k] # <<>> =>
                 /\ TakenUp(k) \in [Legs -> Seq(UplinkMessages)]
                 /\ Head(up[k]) \in UplinkMessages
           /\ \A a, b : \A m \in LinkMessages : Sent(x2, a, b, m) \in [Links -> Seq(LinkMessages)]
           /\ \A a, b, type : Arrives(x2, a, b, type) =>
                 /\ Taken(x2, a, b) \in [Links -> Seq(LinkMessages)]
                 /\ Head(x2[<<a, b>>]) \in LinkMessages
                 /\ Head(x2[<<a, b>>]).type = type
  <1>1. \A m \in BearerMessages : Append(srb1, m) \in Seq(BearerMessages)
    BY ItemsAppend DEF AirTyped
  <1>2. ASSUME NEW k \in Legs, NEW m \in UplinkMessages
        PROVE  [up EXCEPT ![k] = Append(@, m)] \in [Legs -> Seq(UplinkMessages)]
    <2>1. Append(up[k], m) \in Seq(UplinkMessages)
      BY ItemsAppend DEF AirTyped
    <2> QED
      BY <2>1 DEF AirTyped
  <1>3. ASSUME NEW k \in Legs, up[k] # <<>>
        PROVE  TakenUp(k) \in [Legs -> Seq(UplinkMessages)] /\ Head(up[k]) \in UplinkMessages
    <2>1. Tail(up[k]) \in Seq(UplinkMessages) /\ Head(up[k]) \in UplinkMessages
      BY <1>3, ItemsTail DEF AirTyped
    <2> QED
      BY <2>1 DEF AirTyped, TakenUp
  <1>4. ASSUME NEW a, NEW b, NEW m \in LinkMessages
        PROVE  Sent(x2, a, b, m) \in [Links -> Seq(LinkMessages)]
    <2>1. \A l \in Links : Append(x2[l], m) \in Seq(LinkMessages)
      BY ItemsAppend DEF AirTyped
    <2>2. Sent(x2, a, b, m)
              = [l \in Links |-> IF l = <<a, b>> THEN Append(x2[l], m) ELSE x2[l]]
      BY DEF Sent, AirTyped
    <2> QED
      BY <2>1, <2>2 DEF AirTyped
  <1>5. ASSUME NEW a, NEW b, NEW type, Arrives(x2, a, b, type)
        PROVE  /\ Taken(x2, a, b) \in [Links -> Seq(LinkMessages)]
               /\ Head(x2[<<a, b>>]) \in LinkMessages
               /\ Head(x2[<<a, b>>]).type = type
    <2>1. /\ <<a, b>> \in Links
          /\ Tail(x2[<<a, b>>]) \in Seq(LinkMessages)
          /\ Head(x2[<<a, b>>]) \in LinkMessages
      BY <1>5, ItemsTail DEF AirTyped, Arrives
    <2> QED
      BY <1>5, <2>1 DEF AirTyped, Taken, Arrives
  <1> QED
    BY <1>1, <1>2, <1>3, <1>4, <1>5

\* The context of a leg, when there is one.
LEMMA LegContext ==
    ASSUME Typed, NEW k \in Legs, NEW x,
           ue[k].cell \in Nodes /\ ue[k].rnti \in Rntis => x \in Contexts
    PROVE  /\ WithContext(k, x) \in [Nodes -> [Rntis -> Contexts]]
           /\ ue[k].cell \in Nodes /\ ue[k].rnti \in Rntis => ContextOf(k) \in Contexts
           /\ \A d \in Nodes, s \in Rntis : WithContext(k, x)[d][s] =
                  IF d = ue[k].cell /\ s = ue[k].rnti THEN x ELSE ctx[d][s]
  <1>1. CellsTyped
    BY DEF Typed
  <1>2. PICK c, r : c = ue[k].cell /\ r = ue[k].rnti
    OBVIOUS
  <1>3. /\ WithContext(k, x) = [ctx EXCEPT ![c][r] = x]
        /\ ContextOf(k) = ctx[c][r]
    BY <1>2 DEF WithContext, ContextOf
  <1>4. c \in Nodes /\ r \in Rntis => ctx[c][r] \in Contexts
    BY <1>1 DEF CellsTyped
  <1>5. c \in Nodes /\ r \in Rntis => x \in Contexts
    BY <1>2
  <1>6. /\ [ctx EXCEPT ![c][r] = x] \in [Nodes -> [Rntis -> Contexts]]
        /\ \A d \in Nodes, s \in Rntis : [ctx EXCEPT ![c][r] = x][d][s] =
               IF d = c /\ s = r THEN x ELSE ctx[d][s]
    BY <1>1, <1>5, ContextSet
  <1> QED
    BY <1>2, <1>3, <1>4, <1>6

\* The context of a leg that is attached.
LEMMA LegLocated ==
    ASSUME Typed, NEW k \in Legs, LegInv(k), ue[k].state \in Attached
    PROVE  /\ ue[k].cell \in Nodes /\ ue[k].rnti \in Rntis
           /\ ContextOf(k) \in Contexts
           /\ k = "lte" => ue[k].cell = LteCell
           /\ k = "mm" => ue[k].cell \in Cells
  <1>1. k \in {"lte", "mm"} /\ ue[k].state # "IDLE_START"
    BY DEF Attached, Legs
  <1>2. (k = "lte" => ue[k].cell = LteCell) /\ (k = "mm" => ue[k].cell \in Cells)
    BY <1>1 DEF LegInv, AtItsCell
  <1>3. ue[k].cell \in Nodes
    BY <1>1, <1>2 DEF Nodes
  <1>4. ue[k].rnti \in Rntis
    BY UeFields DEF Typed, LegInv, Connecting, Accepted, Attached, SomeRnti
  <1>5. ContextOf(k) \in Contexts
    BY <1>3, <1>4 DEF Typed, CellsTyped, ContextOf
  <1> QED
    BY <1>2, <1>3, <1>4, <1>5

\* A leg that is sending is attached.
LEMMA SenderIsAttached ==
    ASSUME NEW k \in Legs, LegInv(k), up[k] # <<>>
    PROVE  ue[k].state \in Attached
  BY DEF LegInv, Detached

\* SwitchToState (CONNECTED_NORMALLY) with a context of the type of one.
LEMMA TypedConnected ==
    ASSUME Typed, NEW k \in Legs, NEW x, NEW onLte \in BOOLEAN,
           x \in Contexts, ConnectedNormally(k, x, onLte)
    PROVE  /\ ctx' \in [Nodes -> [Rntis -> Contexts]]
           /\ usingLte' \in BOOLEAN
           /\ srb0' \in [Legs -> SUBSET SignalMessages]
           /\ srb1' \in Seq(BearerMessages)
  <1> DEFINE good == x.pendingConnect /\ sinr[best] > OutageThreshold
             outage == x.pendingConnect /\ ~good
             y == NoteOutage(
                [x EXCEPT !.pendingConnect = FALSE, !.pendingReconf = FALSE,
                          !.state = IF x.pendingReconf THEN "CONNECTION_RECONFIGURATION"
                                                       ELSE "CONNECTED_NORMALLY"],
                outage)
  <1>1. /\ ctx' = WithContext(k, y)
        /\ usingLte' = (onLte \/ outage)
        /\ srb0' = IF good THEN [srb0 EXCEPT ![k] = @ \cup {RrcConnectToMmWave(best)}]
                           ELSE srb0
        /\ srb1' = IF x.pendingReconf
                   THEN Append(srb1, Reconfiguration(x.drbs, x.mcDrbs))
                   ELSE srb1
    BY DEF ConnectedNormally
  <1>2. y \in Contexts /\ x.drbs \in SUBSET Drbs /\ x.mcDrbs \in SUBSET Drbs
    BY DEF NoteOutage, Contexts, UeStates
  <1>3. outage \in BOOLEAN /\ good \in BOOLEAN
    BY DEF Typed
  <1>4. RrcConnectToMmWave(best) \in SignalMessages
    BY MessagesAre DEF Typed, CoordinatorTyped
  <1> HIDE DEF y, good, outage
  <1>5. ctx' \in [Nodes -> [Rntis -> Contexts]]
    BY <1>1, <1>2, LegContext
  <1>6. usingLte' \in BOOLEAN
    BY <1>1, <1>3
  <1>7. srb0' \in [Legs -> SUBSET SignalMessages]
    BY <1>1, <1>3, <1>4 DEF Typed, AirTyped
  <1>8. srb1' \in Seq(BearerMessages)
    BY <1>1, <1>2, MessagesAre, TypedSent DEF Typed, AirTyped
  <1> QED
    BY <1>5, <1>6, <1>7, <1>8

\* The steps of the cells during random access and connection set-up.
LEMMA TypedCellStep ==
    ASSUME Typed, Attachment, NEW k \in Legs, CellStep(k)
    PROVE  Typed'
  <1>0. /\ UeTyped /\ CellsTyped /\ CoordinatorTyped /\ AirTyped /\ BoundsTyped
        /\ ue[k] \in UeRrcs
    BY UeFields DEF Typed
  <1>1. CASE AllocateTemporaryCellRnti(k)
    <2>1. CASE FreeSteps(ue[k].cell) = {}
      BY <1>1, <2>1, TypedStop DEF AllocateTemporaryCellRnti
    <2>2. CASE FreeSteps(ue[k].cell) # {}
      <3> DEFINE x == [NoContext EXCEPT !.state = "INITIAL_RANDOM_ACCESS"]
      <3>0. PICK c : c = ue[k].cell
        OBVIOUS
      <3>1. PICK r \in Rntis :
                /\ lastRnti' = [lastRnti EXCEPT ![c] = r]
                /\ ctx' = [ctx EXCEPT ![c][r] = x]
                /\ rar' = [rar EXCEPT ![k] = r]
                /\ UNCHANGED <<terminal, rntiOf, coordinator, sinr, s1, srb0,
                               srb1, up, x2, bounds, fault>>
        BY <1>1, <2>2, <3>0 DEF AllocateTemporaryCellRnti
      <3>2. x \in Contexts
        BY ContextFields DEF UeStates
      <3> HIDE DEF x
      <3>3. CellsTyped'
        BY <1>0, <3>1, <3>2, ContextSet DEF CellsTyped, SomeRnti
      <3>4. AirTyped'
        BY <1>0, <3>1 DEF AirTyped, SomeRnti
      <3> QED
        BY <1>0, <3>1, <3>3, <3>4
           DEF Typed, UeTyped, CoordinatorTyped, BoundsTyped, terminal, coordinator, bounds
    <2> QED
      BY <2>1, <2>2
  <1>2. CASE RecvRrcConnectionRequest(k)
    <2>1. CASE ContextOf(k).state # "INITIAL_RANDOM_ACCESS"
      BY <1>2, <2>1, TypedStop DEF RecvRrcConnectionRequest
    <2>2. CASE ContextOf(k).state = "INITIAL_RANDOM_ACCESS"
      <3> DEFINE admitted == ue[k].cell \in AdmittingCells
                 x == [ContextOf(k) EXCEPT !.state =
                        IF admitted THEN "CONNECTION_SETUP" ELSE "CONNECTION_REJECTED"]
      <3>1. x \in Contexts
        <4>1. ContextOf(k) \in Contexts
          BY <1>2, LegLocated, SenderIsAttached
             DEF RecvRrcConnectionRequest, ArrivesUp, Attachment
        <4> QED
          BY <4>1, ContextFields DEF UeStates
      <3>2. /\ ctx' = WithContext(k, x)
            /\ srb0' = [srb0 EXCEPT ![k] = @ \cup
                        {IF admitted THEN RrcConnectionSetup ELSE RrcConnectionReject}]
            /\ rntiOf' = IF admitted THEN [rntiOf EXCEPT ![ue[k].cell] = ue[k].rnti]
                                     ELSE rntiOf
            /\ \/ associated' = TRUE /\ setup' = FALSE /\ s1' = TRUE
               \/ UNCHANGED <<associated, setup, s1>>
            /\ up' = TakenUp(k) /\ up[k] # <<>>
            /\ UNCHANGED <<terminal, lastRnti, usingLte, last, best, pdcp, sinr,
                               rar, srb1, x2, bounds, fault>>
        BY <1>2, <2>2 DEF RecvRrcConnectionRequest, ArrivesUp
      <3> HIDE DEF x, admitted
      <3>3. ctx' \in [Nodes -> [Rntis -> Contexts]]
        BY <3>1, <3>2, LegContext
      <3>4. rntiOf' \in [Nodes -> SomeRnti]
        BY <1>0, <3>2, UeFields DEF CellsTyped
      <3>5. srb0' \in [Legs -> SUBSET SignalMessages]
        BY <1>0, <3>2, MessagesAre DEF AirTyped
      <3>6. up' \in [Legs -> Seq(UplinkMessages)]
        BY <1>0, <3>2, TypedSent
      <3>7. CellsTyped' /\ CoordinatorTyped' /\ AirTyped'
        BY <1>0, <3>2, <3>3, <3>4, <3>5, <3>6 DEF CellsTyped, CoordinatorTyped, AirTyped
      <3> QED
        BY <1>0, <3>2, <3>7 DEF Typed, UeTyped, BoundsTyped, terminal, bounds
    <2> QED
      BY <2>1, <2>2
  <1>3. CASE RecvRrcConnectionSetupCompleted(k)
    <2>1. CASE ContextOf(k).state # "CONNECTION_SETUP"
      BY <1>3, <2>1, TypedStop DEF RecvRrcConnectionSetupCompleted
    <2>2. CASE ContextOf(k).state = "CONNECTION_SETUP"
      <3> DEFINE x == [ContextOf(k) EXCEPT !.pendingConnect = (k = "lte")]
      <3>1. /\ ConnectedNormally(k, x, usingLte)
            /\ up' = TakenUp(k) /\ up[k] # <<>>
            /\ UNCHANGED <<terminal, lastRnti, rntiOf, associated, setup, last, best,
                           pdcp, sinr, s1, rar, x2, bounds, fault>>
        BY <1>3, <2>2 DEF RecvRrcConnectionSetupCompleted, ArrivesUp
      <3>2. x \in Contexts
        <4>1. ContextOf(k) \in Contexts
          BY <3>1, LegLocated, SenderIsAttached DEF Attachment
        <4> QED
          BY <4>1 DEF Contexts
      <3> HIDE DEF x
      <3>3. /\ ctx' \in [Nodes -> [Rntis -> Contexts]] /\ usingLte' \in BOOLEAN
            /\ srb0' \in [Legs -> SUBSET SignalMessages]
            /\ srb1' \in Seq(BearerMessages)
        BY <1>0, <3>1, <3>2, TypedConnected DEF CoordinatorTyped
      <3>4. up' \in [Legs -> Seq(UplinkMessages)]
        BY <1>0, <3>1, TypedSent
      <3>5. CellsTyped' /\ CoordinatorTyped' /\ AirTyped'
        BY <1>0, <3>1, <3>3, <3>4 DEF CellsTyped, CoordinatorTyped, AirTyped
      <3> QED
        BY <1>0, <3>1, <3>5 DEF Typed, UeTyped, BoundsTyped, terminal, bounds
    <2> QED
      BY <2>1, <2>2
  <1> QED
    BY <1>1, <1>2, <1>3 DEF CellStep

\* The calls of the UE's NAS and what a reconfiguration does to its bearers.
LEMMA TypedConfigured ==
    ASSUME Typed, UeConfigured \/ RandomAccessFailed
    PROVE  Typed'
  <1>0. /\ UeTyped /\ CellsTyped /\ CoordinatorTyped /\ AirTyped /\ BoundsTyped
        /\ "lte" \in Legs /\ "mm" \in Legs
        /\ ue["lte"] \in UeRrcs /\ ue["mm"] \in UeRrcs
    BY UeFields DEF Typed, Legs
  <1>1. CASE RetryConnect
    <2>1. UeTyped'
      BY <1>0, <1>1, RrcTypes, TypedUe DEF RetryConnect, UeTyped
    <2> QED
      BY <1>0, <1>1, <2>1 DEF RetryConnect, Typed, CellsTyped, CoordinatorTyped, AirTyped,
                              BoundsTyped, contexts, coordinator, air, bounds
  <1>2. CASE RandomAccessFailed
    <2>1. UeTyped'
      BY <1>0, <1>2, RrcTypes, TypedUe DEF RandomAccessFailed, UeTyped
    <2>2. BoundsTyped'
      BY <1>0, <1>2, AccessAssumption DEF RandomAccessFailed, BoundsTyped
    <2> QED
      BY <1>0, <1>2, <2>1, <2>2
         DEF RandomAccessFailed, Typed, CellsTyped, CoordinatorTyped, AirTyped,
             contexts, coordinator, air
  <1>3. CASE UeRecvRrcConnectToMmWave
    <2>1. PICK m \in srb0["lte"] :
              /\ m.type = "ConnectToMmWave"
              /\ nas' = [nas EXCEPT !.cell = m.cell]
              /\ ue' = [ue EXCEPT !["mm"] = Connect(ForceCampedOnEnb(@, m.cell))]
              /\ srb0' = [srb0 EXCEPT !["lte"] = @ \ {m}]
              /\ UNCHANGED <<retry, ueLeg, contexts, coordinator, sinr, s1, rar, srb1, up,
                             x2, bounds, fault>>
      BY <1>3 DEF UeRecvRrcConnectToMmWave
    <2>2. m.cell \in Cells
      BY <1>0, <2>1, FieldTypes DEF AirTyped
    <2>3. nas' \in [active : BOOLEAN, cell : SomeCell]
      BY <1>0, <2>1, <2>2 DEF UeTyped, SomeCell
    <2>4. UeTyped'
      BY <1>0, <2>1, <2>2, <2>3, RrcTypes, TypedUe DEF UeTyped
    <2>5. AirTyped'
      BY <1>0, <2>1 DEF AirTyped
    <2> QED
      BY <1>0, <2>1, <2>4, <2>5
         DEF Typed, CellsTyped, CoordinatorTyped, BoundsTyped, contexts, coordinator, bounds
  <1>4. CASE UeRecvReconfiguration
    <2>1. CASE ue["lte"].state # "CONNECTED_NORMALLY"
      BY <1>4, <2>1, TypedStop DEF UeRecvReconfiguration
    <2>2. CASE ue["lte"].state = "CONNECTED_NORMALLY"
      <3>1. /\ srb1 # <<>>
            /\ ueLeg' = [d \in Drbs |-> LegAfter(Head(srb1), d)]
            /\ srb1' = Tail(srb1)
            /\ up' = [up EXCEPT !["lte"] = Append(@, Uplink("ReconfCompleted"))]
            /\ UNCHANGED <<ue, nas, retry, contexts, coordinator, sinr, s1, rar, srb0,
                           x2, bounds, fault>>
        BY <1>4, <2>2 DEF UeRecvReconfiguration
      <3>2. UeTyped'
        BY <1>0, <3>1 DEF UeTyped, LegAfter
      <3>3. Tail(srb1) \in Seq(BearerMessages)
        BY <1>0, <3>1, ItemsTail DEF AirTyped
      <3>4. up' \in [Legs -> Seq(UplinkMessages)]
        BY <1>0, <3>1, TypedSent, MessagesAre
      <3>5. AirTyped'
        BY <1>0, <3>1, <3>3, <3>4 DEF AirTyped
      <3> QED
        BY <1>0, <3>1, <3>2, <3>5
           DEF Typed, CellsTyped, CoordinatorTyped, BoundsTyped, contexts, coordinator, bounds
    <2> QED
      BY <2>1, <2>2
  <1>5. CASE UeRecvRrcConnectionSwitch
    <2>1. UeTyped'
      BY <1>0, <1>5 DEF UeRecvRrcConnectionSwitch, UeTyped
    <2>2. Tail(srb1) \in Seq(BearerMessages)
      BY <1>0, <1>5, ItemsTail DEF UeRecvRrcConnectionSwitch, AirTyped
    <2>3. AirTyped'
      BY <1>0, <1>5, <2>2 DEF UeRecvRrcConnectionSwitch, AirTyped
    <2> QED
      BY <1>0, <1>5, <2>1, <2>3
         DEF UeRecvRrcConnectionSwitch, Typed, CellsTyped, CoordinatorTyped, BoundsTyped,
             contexts, coordinator, bounds
  <1> QED
    BY <1>1, <1>2, <1>3, <1>4, <1>5 DEF UeConfigured

\* Losses, and the ends of the timers of a cell.
LEMMA TypedRemoved ==
    ASSUME Typed, Expire \/ (\E k \in Legs : Lose(k)) \/ SinrChanges
    PROVE  Typed'
  <1>0. /\ UeTyped /\ CellsTyped /\ CoordinatorTyped /\ AirTyped /\ BoundsTyped
    BY DEF Typed
  <1>1. ASSUME NEW c \in Nodes, NEW r \in Rntis, RemoveUe(c, r) PROVE Typed'
    <2>1. ctx' \in [Nodes -> [Rntis -> Contexts]]
      BY <1>0, <1>1, ContextSet, ContextFields DEF RemoveUe
    <2> QED
      BY <1>0, <1>1, <2>1
         DEF RemoveUe, Typed, UeTyped, CellsTyped, CoordinatorTyped, AirTyped, BoundsTyped,
             terminal, coordinator, air, bounds
  <1>2. CASE Expire
    BY <1>1, <1>2 DEF Expire, ConnectionRequestTimeout, ConnectionSetupTimeout,
                      ConnectionRejectedTimeout
  <1>3. ASSUME NEW k \in Legs, Lose(k) PROVE Typed'
    <2>1. rar' \in [Legs -> SomeRnti] /\ srb0' \in [Legs -> SUBSET SignalMessages]
      BY <1>0, <1>3 DEF Lose, AirTyped, SomeRnti
    <2>2. BoundsTyped'
      BY <1>0, <1>3, AccessAssumption DEF Lose, BoundsTyped
    <2> QED
      BY <1>0, <1>3, <2>1, <2>2
         DEF Lose, Typed, UeTyped, CellsTyped, CoordinatorTyped, AirTyped, terminal,
             contexts, coordinator
  <1>4. CASE SinrChanges
    <2>1. CoordinatorTyped'
      BY <1>0, <1>4 DEF SinrChanges, CoordinatorTyped, coordinator
    <2>2. BoundsTyped'
      BY <1>0, <1>4, AccessAssumption DEF SinrChanges, BoundsTyped
    <2> QED
      BY <1>0, <1>4, <2>1, <2>2
         DEF SinrChanges, Typed, UeTyped, CellsTyped, AirTyped, terminal, contexts, air
  <1> QED
    BY <1>2, <1>3, <1>4

\* The decision of the coordinator.
LEMMA TypedDecision ==
    ASSUME Typed, TriggerUeAssociationUpdate
    PROVE  Typed'
  <1>0. /\ UeTyped /\ CellsTyped /\ CoordinatorTyped /\ AirTyped /\ BoundsTyped
        /\ LteCell \in Nodes
    BY DEF Typed, Nodes
  <1> DEFINE known == Known(LteCell, rntiOf[LteCell])
  <1>1. CASE LooksUpUe /\ ~known
    BY <1>1, TypedStop DEF TriggerUeAssociationUpdate
  <1>2. CASE ~(LooksUpUe /\ ~known)
    <2>0. /\ SwitchToLte \/ SelectBest
          /\ UNCHANGED <<terminal, lastRnti, rntiOf, associated, setup, last, sinr, s1,
                         rar, up, bounds, fault>>
      BY <1>2 DEF TriggerUeAssociationUpdate
    <2>1. PICK x : x = LteContext
      OBVIOUS
    <2>2. known => rntiOf[LteCell] \in Rntis /\ x \in Contexts
      BY <1>0, <2>1 DEF Known, LteContext, CellsTyped, SomeRnti
    <2>3. CASE SwitchToLte
      <3>1. known
        BY <1>2, <2>3 DEF SwitchToLte, LooksUpUe
      <3>2. /\ x \in Contexts /\ x.mcDrbs \in SUBSET Drbs /\ x.mmRnti \in SomeRnti
        BY <2>2, <3>1, ContextFields
      <3>3. pdcp' = [d \in Drbs |-> [pdcp[d] EXCEPT !.mm = @ /\ d \notin x.mcDrbs]]
            /\ usingLte' = TRUE /\ UNCHANGED <<ctx, best, srb0>>
        BY <2>1, <2>3 DEF SwitchToLte
      <3>4. pdcp' \in [Drbs -> Pdcps]
        BY <1>0, <3>3 DEF CoordinatorTyped, Pdcps
      <3>5. x2' \in [Links -> Seq(LinkMessages)]
        <4>1. \/ x2' = x2
              \/ x2' = Sent(x2, LteCell, x.mmCell, SwitchConnection(x.mmRnti))
          BY <2>1, <2>3 DEF SwitchToLte
        <4> QED
          BY <1>0, <3>2, <4>1, TypedSent, MessagesAre DEF AirTyped
      <3>6. srb1' \in Seq(BearerMessages)
        <4>1. \/ srb1' = srb1
              \/ srb1' = Append(srb1, RrcConnectionSwitch(x.mcDrbs))
          BY <2>1, <2>3 DEF SwitchToLte
        <4>2. RrcConnectionSwitch(x.mcDrbs) \in BearerMessages
          BY <3>2, MessagesAre
        <4>3. Append(srb1, RrcConnectionSwitch(x.mcDrbs)) \in Seq(BearerMessages)
          BY <1>0, <4>2, TypedSent
        <4> QED
          BY <1>0, <4>1, <4>3 DEF AirTyped
      <3> QED
        BY <1>0, <2>0, <3>3, <3>4, <3>5, <3>6
           DEF Typed, UeTyped, CellsTyped, CoordinatorTyped, AirTyped, BoundsTyped,
               terminal, bounds
    <2>4. CASE SelectBest
      <3>1. PICK b \in Cells :
                /\ best' = b
                /\ IF Mode = "Ttt" /\ associated /\ usingLte /\ LteContext.allInOutage
                   THEN /\ ctx' = [ctx EXCEPT ![LteCell][rntiOf[LteCell]] = EndOutage(@)]
                        /\ srb0' = [srb0 EXCEPT !["lte"] = @ \cup {RrcConnectToMmWave(b)}]
                   ELSE UNCHANGED <<ctx, srb0>>
        BY <2>4 DEF SelectBest
      <3>2. UNCHANGED <<usingLte, pdcp, x2, srb1>>
        BY <2>4 DEF SelectBest
      <3>3. CASE Mode = "Ttt" /\ associated /\ usingLte /\ LteContext.allInOutage
        <4>1. known
          BY <1>2, <3>3 DEF LooksUpUe
        <4>2. EndOutage(x) \in Contexts
          BY <2>2, <4>1 DEF EndOutage, Contexts
        <4>3. ctx' = [ctx EXCEPT ![LteCell][rntiOf[LteCell]] = EndOutage(x)]
          BY <2>1, <3>1, <3>3 DEF LteContext
        <4>4. ctx' \in [Nodes -> [Rntis -> Contexts]]
          BY <1>0, <4>2, <4>3, ContextSet
        <4>5. srb0' \in [Legs -> SUBSET SignalMessages]
          <5>1. srb0' = [srb0 EXCEPT !["lte"] = @ \cup {RrcConnectToMmWave(b)}]
            BY <3>1, <3>3
          <5>2. RrcConnectToMmWave(b) \in SignalMessages
            BY MessagesAre
          <5> QED
            BY <1>0, <5>1, <5>2 DEF AirTyped
        <4> QED
          BY <1>0, <2>0, <3>1, <3>2, <4>4, <4>5
             DEF Typed, UeTyped, CellsTyped, CoordinatorTyped, AirTyped, BoundsTyped,
                 terminal, bounds
      <3>4. CASE ~(Mode = "Ttt" /\ associated /\ usingLte /\ LteContext.allInOutage)
        BY <1>0, <2>0, <3>1, <3>2, <3>4
           DEF Typed, UeTyped, CellsTyped, CoordinatorTyped, AirTyped, BoundsTyped,
               terminal, bounds
      <3> QED
        BY <3>3, <3>4
    <2> QED
      BY <2>0, <2>3, <2>4
  <1> QED
    BY <1>1, <1>2

\* The RLC set-up requests for bearers that have none.
LEMMA TypedRemoteRlcs ==
    ASSUME Typed, NEW x \in Contexts, NEW p \in [Drbs -> Pdcps], NEW lastCell,
           SetupRemoteRlcs(x, p, lastCell)
    PROVE  pdcp' \in [Drbs -> Pdcps] /\ x2' \in [Links -> Seq(LinkMessages)]
  <1>1. PICK new, order : new = WithoutRlc(x, lastCell) /\ order = InOrder(new)
    OBVIOUS
  <1>2. new \in SUBSET Drbs /\ x.mmCell \in SomeCell /\ x.mmRnti \in SomeRnti
    BY <1>1, ContextFields DEF WithoutRlc
  <1>3. /\ pdcp' = [d \in Drbs |-> IF d \in new THEN Directed(p[d], x) ELSE p[d]]
        /\ x2' = IF new = {} THEN x2
                 ELSE [x2 EXCEPT ![<<LteCell, x.mmCell>>] = @ \o
                        [i \in DOMAIN order |-> RlcSetupRequest(order[i], x.mmRnti)]]
    BY <1>1 DEF SetupRemoteRlcs
  <1>4. pdcp' \in [Drbs -> Pdcps]
    BY <1>2, <1>3 DEF Directed, Pdcps
  <1>5. PICK n \in Nat : order \in [1 .. n -> new]
    BY <1>1, <1>2, InOrderLists
  <1> DEFINE requests == [i \in DOMAIN order |-> RlcSetupRequest(order[i], x.mmRnti)]
  <1>6. requests \in Seq(LinkMessages)
    <2>1. \A i \in 1 .. n : RlcSetupRequest(order[i], x.mmRnti) \in LinkMessages
      BY <1>2, <1>5, MessagesAre
    <2>2. requests \in [1 .. n -> LinkMessages]
      BY <1>5, <2>1
    <2> QED
      BY <2>2
  <1> HIDE DEF requests
  <1>7. \A l \in Links : x2[l] \o requests \in Seq(LinkMessages)
    BY <1>6, ItemsConcat DEF Typed, AirTyped
  <1>8. x2' \in [Links -> Seq(LinkMessages)]
    BY <1>3, <1>7 DEF Typed, AirTyped, requests
  <1> QED
    BY <1>4, <1>8

\* The steps of the cells that set up the bearers.
LEMMA TypedBearers ==
    ASSUME Typed, Attachment, BearersStep
    PROVE  Typed'
  <1>0. /\ UeTyped /\ CellsTyped /\ CoordinatorTyped /\ AirTyped /\ BoundsTyped
        /\ LteCell \in Nodes /\ "lte" \in Legs /\ LegInv("lte")
    BY DEF Typed, Nodes, Legs, Attachment
  <1>1. CASE InitialContextSetup
    <2>1. PICK r, x : r = rntiOf[LteCell] /\ x = ctx[LteCell][r]
      OBVIOUS
    <2>2. CASE x.state \in {"NONE", "CONNECTION_REJECTED", "MC_CONNECTION_RECONFIGURATION"}
      BY <1>1, <2>1, <2>2, TypedStop DEF InitialContextSetup
    <2>3. CASE x.state \notin {"NONE", "CONNECTION_REJECTED",
                               "MC_CONNECTION_RECONFIGURATION"}
      <3> DEFINE now == x.state = "CONNECTED_NORMALLY"
                 y == [x EXCEPT !.drbs = Drbs, !.pendingReconf = ~now \/ Drbs # {FirstDrb},
                          !.state = IF now THEN "CONNECTION_RECONFIGURATION" ELSE @]
      <3>0. ctx' = [ctx EXCEPT ![LteCell][r] = y]
        BY <1>1, <2>1, <2>3 DEF InitialContextSetup
      <3>1. /\ srb1' = IF now THEN Append(srb1, Reconfiguration({FirstDrb}, {})) ELSE srb1
            /\ pdcp' = NoPdcp /\ s1' = FALSE /\ s1
            /\ UNCHANGED <<terminal, lastRnti, rntiOf, associated, setup, usingLte,
                           last, best, sinr, rar, srb0, up, x2, bounds, fault>>
        BY <1>1, <2>1, <2>3 DEF InitialContextSetup
      <3>2. r = ue["lte"].rnti /\ ue["lte"].state \in Attached
        BY <2>1, <3>1 DEF Attachment, ContextAsked
      <3>3. x \in Contexts
        BY <1>0, <2>1, <3>2, LegLocated DEF CellsTyped
      <3>4. y \in Contexts
        BY <3>3 DEF Contexts, UeStates
      <3> HIDE DEF y
      <3>5. ctx' \in [Nodes -> [Rntis -> Contexts]]
        BY <1>0, <3>0, <3>4, ContextSet
      <3>6. srb1' \in Seq(BearerMessages)
        <4>1. Reconfiguration({FirstDrb}, {}) \in BearerMessages
          BY FirstDrbIsOne, MessagesAre
        <4>2. Append(srb1, Reconfiguration({FirstDrb}, {})) \in Seq(BearerMessages)
          BY <1>0, <4>1, TypedSent
        <4> QED
          BY <1>0, <3>1, <4>2 DEF AirTyped
      <3>7. pdcp' \in [Drbs -> Pdcps]
        BY <3>1 DEF NoPdcp, Pdcps, SomeCell, SomeRnti
      <3> QED
        BY <1>0, <3>1, <3>5, <3>6, <3>7
           DEF Typed, UeTyped, CellsTyped, CoordinatorTyped, AirTyped, BoundsTyped,
               terminal, bounds
    <2> QED
      BY <2>2, <2>3
  <1>2. CASE RecvSecondaryCellConnected
    <2>1. CASE ContextOf("lte").state = "NONE"
      BY <1>2, <2>1, TypedStop DEF RecvSecondaryCellConnected
    <2>2. CASE ContextOf("lte").state # "NONE"
      <3>1. PICK m, y : m = Head(up["lte"]) /\ y = ContextOf("lte")
        OBVIOUS
      <3> DEFINE x == [y EXCEPT !.mmCell = m.cell, !.mmRnti = m.rnti,
                                !.available = @ \/ y.drbs = {}]
      <3>2. /\ ctx' = WithContext("lte", x)
            /\ SetupRemoteRlcs(x, pdcp, last)
            /\ up' = TakenUp("lte") /\ up["lte"] # <<>>
            /\ m.type = "SecondaryCellConnected"
            /\ UNCHANGED <<terminal, lastRnti, rntiOf, associated, setup, usingLte,
                           last, best, sinr, s1, rar, srb0, srb1, bounds, fault>>
        BY <1>2, <2>2, <3>1 DEF RecvSecondaryCellConnected, ArrivesUp
      <3>3. y \in Contexts
        BY <1>0, <3>1, <3>2, LegLocated, SenderIsAttached
      <3>4. m.cell \in SomeCell /\ m.rnti \in SomeRnti
        BY <1>0, <3>1, <3>2, TypedSent, FieldTypes
      <3>5. x \in Contexts
        BY <3>3, <3>4 DEF Contexts, SomeCell, SomeRnti
      <3> HIDE DEF x
      <3>6. ctx' \in [Nodes -> [Rntis -> Contexts]]
        BY <1>0, <3>2, <3>5, LegContext
      <3>7. pdcp' \in [Drbs -> Pdcps] /\ x2' \in [Links -> Seq(LinkMessages)]
        BY <1>0, <3>2, <3>5, TypedRemoteRlcs DEF CoordinatorTyped
      <3>8. up' \in [Legs -> Seq(UplinkMessages)]
        BY <1>0, <3>2, TypedSent
      <3> QED
        BY <1>0, <3>2, <3>6, <3>7, <3>8
           DEF Typed, UeTyped, CellsTyped, CoordinatorTyped, AirTyped, BoundsTyped,
               terminal, bounds
    <2> QED
      BY <2>1, <2>2
  <1>3. CASE RecvReconfigurationCompleted
    <2>1. PICK x : x = ContextOf("lte")
      OBVIOUS
    <2>2. CASE x.state \notin ConnectedStates
      BY <1>3, <2>1, <2>2, TypedStop DEF RecvReconfigurationCompleted
    <2>3. CASE x.state \in ConnectedStates
      <3> DEFINE split == x.state = "MC_CONNECTION_RECONFIGURATION"
                 p == [d \in Drbs |-> IF split /\ d \in x.mcDrbs
                          THEN [pdcp[d] EXCEPT !.mm = TRUE] ELSE pdcp[d]]
      <3>1. /\ up' = TakenUp("lte") /\ up["lte"] # <<>>
            /\ UNCHANGED <<terminal, lastRnti, rntiOf, associated, best, sinr, s1,
                           rar, bounds, fault>>
        BY <1>3, <2>1, <2>3 DEF RecvReconfigurationCompleted, ArrivesUp
      <3>2. up' \in [Legs -> Seq(UplinkMessages)]
        BY <1>0, <3>1, TypedSent
      <3>3. x \in Contexts
        BY <1>0, <2>1, <3>1, LegLocated, SenderIsAttached
      <3>4. CASE x.state = "CONNECTED_NORMALLY"
        <4>1. UNCHANGED <<ctx, setup, usingLte, last, pdcp, srb0, srb1, x2>>
          BY <1>3, <2>1, <2>3, <3>4 DEF RecvReconfigurationCompleted
        <4> QED
          BY <1>0, <3>1, <3>2, <4>1
             DEF Typed, UeTyped, CellsTyped, CoordinatorTyped, AirTyped, BoundsTyped,
                 terminal, bounds
      <3>5. CASE x.state # "CONNECTED_NORMALLY"
        <4>1. /\ last' = IF split THEN x.mmCell ELSE last
              /\ setup' = (setup \/ split)
              /\ IF x.available THEN SetupRemoteRlcs(x, p, last')
                                ELSE pdcp' = p /\ x2' = x2
              /\ ConnectedNormally("lte", x, usingLte /\ ~split)
          BY <1>3, <2>1, <2>3, <3>5 DEF RecvReconfigurationCompleted
        <4>2. p \in [Drbs -> Pdcps]
          BY <1>0 DEF CoordinatorTyped, Pdcps
        <4>3. x.mmCell \in SomeCell
          BY <3>3, ContextFields
        <4>4. (usingLte /\ ~split) \in BOOLEAN /\ split \in BOOLEAN
          BY <1>0 DEF CoordinatorTyped
        <4> HIDE DEF p, split
        <4>5. pdcp' \in [Drbs -> Pdcps] /\ x2' \in [Links -> Seq(LinkMessages)]
          <5>1. CASE x.available
            BY <3>3, <4>1, <4>2, <5>1, TypedRemoteRlcs
          <5>2. CASE ~x.available
            BY <1>0, <4>1, <4>2, <5>2 DEF AirTyped
          <5> QED
            BY <5>1, <5>2
        <4>6. /\ ctx' \in [Nodes -> [Rntis -> Contexts]]
              /\ usingLte' \in BOOLEAN
              /\ srb0' \in [Legs -> SUBSET SignalMessages]
              /\ srb1' \in Seq(BearerMessages)
          BY <1>0, <3>3, <4>1, <4>4, TypedConnected
        <4>7. last' \in SomeCell /\ setup' \in BOOLEAN
          BY <1>0, <4>1, <4>3, <4>4 DEF CoordinatorTyped
        <4> QED
          BY <1>0, <3>1, <3>2, <4>5, <4>6, <4>7
             DEF Typed, UeTyped, CellsTyped, CoordinatorTyped, AirTyped, BoundsTyped,
                 terminal, bounds
      <3> QED
        BY <3>4, <3>5
    <2> QED
      BY <2>2, <2>3
  <1> QED
    BY <1>1, <1>2, <1>3 DEF BearersStep

\* The steps on the X2 links.
LEMMA TypedX2 ==
    ASSUME Typed, NEW c \in Cells, X2Step(c)
    PROVE  Typed'
  <1>0. /\ UeTyped /\ CellsTyped /\ CoordinatorTyped /\ AirTyped /\ BoundsTyped
        /\ LteCell \in Nodes /\ c \in Nodes
    BY DEF Typed, Nodes
  <1>1. CASE RecvRlcSetupRequest(c)
    <2>1. PICK m : m = Head(x2[<<LteCell, c>>])
      OBVIOUS
    <2>2. CASE ~Known(c, m.rnti)
      BY <1>1, <2>1, <2>2, TypedStop DEF RecvRlcSetupRequest
    <2>3. CASE Known(c, m.rnti)
      <3>1. /\ ctx' = [ctx EXCEPT ![c][m.rnti].rlc = @ \cup {m.drb}]
            /\ x2' = Sent(Taken(x2, LteCell, c), c, LteCell, RlcSetupCompleted(m.drb))
            /\ UNCHANGED <<terminal, lastRnti, rntiOf, coordinator, sinr, s1, air,
                           bounds, fault>>
            /\ Arrives(x2, LteCell, c, "RlcSetupRequest")
        BY <1>1, <2>1, <2>3 DEF RecvRlcSetupRequest
      <3>2. m \in LinkMessages /\ m.type = "RlcSetupRequest"
        BY <1>0, <2>1, <3>1, TypedSent
      <3>3. m.drb \in Drbs /\ m.rnti \in Rntis
        BY <2>3, <3>2, FieldTypes DEF Known, SomeRnti
      <3>4. ctx[c][m.rnti] \in Contexts
        BY <1>0, <3>3 DEF CellsTyped
      <3> DEFINE x == [ctx[c][m.rnti] EXCEPT !.rlc = @ \cup {m.drb}]
      <3>5. x \in Contexts
        BY <3>3, <3>4 DEF Contexts
      <3>6. ctx' = [ctx EXCEPT ![c][m.rnti] = x]
        BY <3>1
      <3> HIDE DEF x
      <3>7. ctx' \in [Nodes -> [Rntis -> Contexts]]
        BY <1>0, <3>5, <3>6, ContextSet
      <3>8. x2' \in [Links -> Seq(LinkMessages)]
        <4>1. PICK net : net = Taken(x2, LteCell, c)
          OBVIOUS
        <4>2. net \in [Links -> Seq(LinkMessages)]
          BY <1>0, <3>1, <4>1, TypedSent
        <4>3. \A l \in Links : Append(net[l], RlcSetupCompleted(m.drb)) \in Seq(LinkMessages)
          BY <3>3, <4>2, ItemsAppend, MessagesAre
        <4>4. x2' = [net EXCEPT ![<<c, LteCell>>] = Append(@, RlcSetupCompleted(m.drb))]
          BY <3>1, <4>1 DEF Sent
        <4> QED
          BY <4>2, <4>3, <4>4
      <3> QED
        BY <1>0, <3>1, <3>7, <3>8
           DEF Typed, UeTyped, CellsTyped, CoordinatorTyped, AirTyped, BoundsTyped,
               terminal, bounds, coordinator, air
    <2> QED
      BY <2>2, <2>3
  <1>2. CASE RecvRlcSetupCompleted(c)
    <2>1. PICK d, r : d = Head(x2[<<c, LteCell>>]).drb /\ r = rntiOf[LteCell]
      OBVIOUS
    <2> DEFINE x == [ctx[LteCell][r] EXCEPT !.mcDrbs = @ \cup {d}, !.pendingReconf = FALSE,
                                            !.state = "MC_CONNECTION_RECONFIGURATION"]
    <2>2. CASE ~Known(LteCell, r) \/ d \notin x.drbs
      BY <1>2, <2>1, <2>2, TypedStop DEF RecvRlcSetupCompleted
    <2>3. CASE ~(~Known(LteCell, r) \/ d \notin x.drbs)
      <3>1. /\ ctx' = [ctx EXCEPT ![LteCell][r] = x]
            /\ srb1' = Append(srb1, Reconfiguration(x.drbs, x.mcDrbs))
            /\ x2' = Taken(x2, c, LteCell)
            /\ UNCHANGED <<terminal, lastRnti, rntiOf, coordinator, sinr, s1, rar,
                           srb0, up, bounds, fault>>
            /\ Arrives(x2, c, LteCell, "RlcSetupCompleted")
        BY <1>2, <2>1, <2>3 DEF RecvRlcSetupCompleted
      <3>2. d \in Drbs
        BY <1>0, <2>1, <3>1, TypedSent, FieldTypes
      <3>3. r \in Rntis /\ ctx[LteCell][r] \in Contexts
        BY <1>0, <2>1, <2>3 DEF Known, CellsTyped, SomeRnti
      <3>4. x \in Contexts
        BY <3>2, <3>3 DEF Contexts, UeStates
      <3>5. x.drbs \in SUBSET Drbs /\ x.mcDrbs \in SUBSET Drbs
        BY <3>4, ContextFields
      <3> HIDE DEF x
      <3>6. ctx' \in [Nodes -> [Rntis -> Contexts]]
        BY <1>0, <3>1, <3>4, ContextSet
      <3>7. srb1' \in Seq(BearerMessages)
        BY <1>0, <3>1, <3>5, TypedSent, MessagesAre
      <3>8. x2' \in [Links -> Seq(LinkMessages)]
        BY <1>0, <3>1, TypedSent
      <3> QED
        BY <1>0, <3>1, <3>6, <3>7, <3>8
           DEF Typed, UeTyped, CellsTyped, CoordinatorTyped, AirTyped, BoundsTyped,
               terminal, bounds, coordinator
    <2> QED
      BY <2>2, <2>3
  <1>3. CASE RecvConnectionSwitchToMmWave(c)
    <2>1. CASE Stop("drbid not found in m_rlcMap")
      BY <2>1, TypedStop
    <2>2. CASE /\ x2' = Taken(x2, LteCell, c)
               /\ Arrives(x2, LteCell, c, "SwitchConnection")
               /\ UNCHANGED <<terminal, contexts, coordinator, sinr, s1, air, bounds, fault>>
      <3>1. x2' \in [Links -> Seq(LinkMessages)]
        BY <1>0, <2>2, TypedSent
      <3> QED
        BY <1>0, <2>2, <3>1
           DEF Typed, UeTyped, CellsTyped, CoordinatorTyped, AirTyped, BoundsTyped,
               terminal, contexts, coordinator, air, bounds
    <2> QED
      BY <1>3, <2>1, <2>2 DEF RecvConnectionSwitchToMmWave
  <1> QED
    BY <1>1, <1>2, <1>3 DEF X2Step

\* Every step keeps the types.
LEMMA TypedStep ==
    ASSUME Typed, Attachment, [Next]_vars
    PROVE  Typed'
  <1>1. CASE Next
    <2>1. CASE \E k \in Legs : UeStep(k) \/ CellStep(k)
      BY <2>1, TypedUeStep, TypedCellStep
    <2>2. CASE UeConfigured \/ RandomAccessFailed
      BY <2>2, TypedConfigured
    <2>3. CASE BearersStep
      BY <2>3, TypedBearers
    <2>4. CASE \E c \in Cells : X2Step(c)
      BY <2>4, TypedX2
    <2>5. CASE Expire \/ (\E k \in Legs : Lose(k)) \/ SinrChanges
      BY <2>5, TypedRemoved
    <2>6. CASE TriggerUeAssociationUpdate
      BY <2>6, TypedDecision
    <2> QED
      BY <1>1, <2>1, <2>2, <2>3, <2>4, <2>5, <2>6 DEF Next
  <1>2. CASE UNCHANGED vars
    BY <1>2 DEF vars, terminal, contexts, coordinator, air, bounds, Typed, UeTyped,
                CellsTyped, CoordinatorTyped, AirTyped, BoundsTyped
  <1> QED
    BY <1>1, <1>2

-----------------------------------------------------------------------------
(***************************************************************************)
(* Every step keeps the attachment of the legs.                            *)
(***************************************************************************)
SameLeg(k) ==
    /\ ue'[k].state = ue[k].state /\ ue'[k].cell = ue[k].cell /\ ue'[k].rnti = ue[k].rnti
SameAir(k) ==
    /\ rar'[k] = rar[k] /\ up'[k] = up[k]
    /\ srb0'[k] \cap Answers = srb0[k] \cap Answers

\* The cell of leg k may only move a connected context between connected states.
SameStage(old, new) ==
    new.state = old.state \/ {old.state, new.state} \subseteq ConnectedStates
SameCell(k) == ue[k].cell \in Nodes =>
    /\ rntiOf'[ue[k].cell] = rntiOf[ue[k].cell]
    /\ \A r \in Rntis : SameStage(ctx[ue[k].cell][r], ctx'[ue[k].cell][r])

\* States of an RRC that waits for its cell's system information
Waiting == {"IDLE_START", "IDLE_WAIT_MIB", "IDLE_CAMPED_NORMALLY", "IDLE_WAIT_SIB2"}

\* The legs are at different cells.
LEMMA CellsDiffer ==
    ASSUME Attachment
    PROVE  /\ ue["lte"].cell = LteCell /\ ue["mm"].cell # LteCell
           /\ LegInv("lte") /\ LegInv("mm") /\ Legs = {"lte", "mm"}
           /\ ue["lte"].cell \in Nodes
           /\ ue["mm"].state # "IDLE_START" => ue["mm"].cell \in Nodes
  BY CellsAssumption DEF Attachment, LegInv, AtItsCell, Legs, NoCell, Nodes

\* Nothing that concerns a leg changes, and neither does the leg.
LEMMA LegKept ==
    ASSUME Typed, NEW k \in Legs, LegInv(k), SameLeg(k), SameAir(k), SameCell(k)
    PROVE  LegInv(k)' /\ (Connected(k) => Connected(k)')
  <1>1. AtItsCell(k)'
    BY DEF LegInv, AtItsCell, SameLeg
  <1>2. Responding(k)'
    <2>1. rar[k] \in SomeRnti
      BY DEF Typed, AirTyped
    <2>2. ue[k].state # "IDLE_START" => ue[k].cell \in Nodes
      BY DEF LegInv, AtItsCell, Nodes, Legs
    <2> QED
      BY <2>1, <2>2 DEF LegInv, Responding, SameLeg, SameAir, SameCell, SameStage, SomeRnti,
                  ConnectedStates
  <1>3. Detached(k)'
    BY DEF LegInv, Detached, SameLeg, SameAir
  <1>4. CASE ue[k].state \notin Attached
    BY <1>1, <1>2, <1>3, <1>4 DEF LegInv, Connecting, Accepted, SameLeg, Attached, Connected
  <1>5. CASE ue[k].state \in Attached
    <2>1. ue[k].rnti \in Rntis /\ ue[k].cell \in Nodes
      BY <1>5, LegLocated
    <2>2. /\ SameStage(ContextOf(k), ContextOf(k)')
          /\ rntiOf'[ue'[k].cell] = rntiOf[ue[k].cell]
      BY <2>1 DEF ContextOf, SameLeg, SameCell
    <2>3. /\ RrcConnectionSetup \in srb0'[k] <=> RrcConnectionSetup \in srb0[k]
          /\ RrcConnectionReject \in srb0'[k] <=> RrcConnectionReject \in srb0[k]
      BY DEF SameAir, Answers
    <2>4. Connecting(k)'
      BY <2>2, <2>3 DEF LegInv, Connecting, Requesting, Answered, SameLeg, SameAir,
                        SameStage, ConnectedStates
    <2>5. Accepted(k)'
      BY <2>2 DEF LegInv, Accepted, SameLeg, SameAir, SameStage, ConnectedStates
    <2> QED
      BY <1>1, <1>2, <1>3, <2>2, <2>4, <2>5
         DEF LegInv, Connected, SameLeg, SameStage
  <1> QED
    BY <1>4, <1>5

\* A leg that is not attached, and for which nothing is on its way.
LEMMA LegIdle ==
    ASSUME NEW k \in Legs, AtItsCell(k)', ue'[k].state \notin Attached,
           rar'[k] = NoRnti, up'[k] = <<>>, srb0'[k] \cap Answers = {}
    PROVE  LegInv(k)'
  BY DEF LegInv, Responding, Detached, Connecting, Accepted, Attached

\* A leg that waits for system information, and what it does with it.
LEMMA LegWaits ==
    ASSUME NEW k \in Legs, LegInv(k), ue[k].state \in Waiting,
           AtItsCell(k)', ue'[k].state \notin Attached, SameAir(k)
    PROVE  LegInv(k)'
  <1>1. rar[k] = NoRnti
    BY DEF LegInv, Responding, Waiting
  <1>2. up[k] = <<>> /\ srb0[k] \cap Answers = {}
    BY DEF LegInv, Detached, Waiting, Attached
  <1> QED
    BY <1>1, <1>2, LegIdle DEF SameAir

\* What the calls of an RRC do to its state.
LEMMA CampStates ==
    ASSUME NEW u \in UeRrcs
    PROVE  \A v \in {Camp(u), Camp([u EXCEPT !.sib2 = FALSE])} :
               v.state \notin Attached /\ v.state # "IDLE_START" /\ v.cell = u.cell
  <1>1. \A v \in UeRrcs :
            LET w == Camp(v)
            IN  w.state \notin Attached /\ w.state # "IDLE_START" /\ w.cell = v.cell
    BY DEF UeRrcs, Camp, AwaitSib2, StartConnection, Attached
  <1>2. [u EXCEPT !.sib2 = FALSE] \in UeRrcs /\ [u EXCEPT !.sib2 = FALSE].cell = u.cell
    BY DEF UeRrcs
  <1> QED
    BY <1>1, <1>2

\* What Connect does to the state of an RRC ...
LEMMA ConnectStates ==
    ASSUME NEW u \in UeRrcs, NEW v, v = Connect(u)
    PROVE  /\ v.cell = u.cell /\ v.rnti = u.rnti
           /\ v.state = u.state \/ (u.state \in Waiting /\ v.state \notin Attached)
           /\ v.state = "IDLE_START" <=> u.state = "IDLE_START"
  BY DEF UeRrcs, Connect, AwaitSib2, StartConnection, Attached, Waiting

\* ... and what the command to connect to a cell does.
LEMMA ToldStates ==
    ASSUME NEW u \in UeRrcs, NEW c \in Cells, NEW v, v = Connect(ForceCampedOnEnb(u, c))
    PROVE  /\ v.state # "IDLE_START"
           /\ v.cell = IF u.state = "IDLE_START" THEN c ELSE u.cell
           /\ \/ v.state = u.state /\ v.rnti = u.rnti
              \/ u.state \in Waiting /\ v.state \notin Attached
  <1>1. PICK f : f = ForceCampedOnEnb(u, c)
    OBVIOUS
  <1>2. /\ f \in UeRrcs /\ f.state # "IDLE_START"
        /\ f.cell = IF u.state = "IDLE_START" THEN c ELSE u.cell
        /\ \/ f = u
           \/ u.state \in Waiting /\ f.state = "IDLE_WAIT_MIB"
    BY <1>1 DEF ForceCampedOnEnb, UeRrcs, UeRrcStates, Nodes, Waiting
  <1>3. v = Connect(f)
    BY <1>1
  <1>4. /\ v.cell = f.cell /\ v.rnti = f.rnti
        /\ v.state = f.state \/ (f.state \in Waiting /\ v.state \notin Attached)
        /\ v.state = "IDLE_START" <=> f.state = "IDLE_START"
    BY <1>2, <1>3, ConnectStates
  <1> QED
    BY <1>2, <1>4 DEF Attached

\* What waits for the LTE connection goes on waiting for it.
LEMMA RestKept ==
    ASSUME Typed, Attachment, SameLeg("lte"), SameCell("lte"), s1' => s1,
           nas'.active = nas.active, DualStarted' => DualStarted \/ Connected("lte"),
           \A m \in Items(up'["mm"]) : m.type \in {"Request", "SetupCompleted"}
    PROVE  LteFirst' /\ ContextAsked' /\ (Connected("lte") => Connected("lte")')
  <1>1. LegInv("lte") /\ "lte" \in Legs
    BY DEF Attachment, Legs
  <1>2. CASE ue["lte"].state \in Attached
    <2>1. ue["lte"].rnti \in Rntis /\ ue["lte"].cell = LteCell /\ LteCell \in Nodes
      BY <1>1, <1>2, LegLocated DEF Nodes
    <2>2. SameStage(ContextOf("lte"), ContextOf("lte")')
      BY <2>1 DEF ContextOf, SameLeg, SameCell
    <2>3. rntiOf'[LteCell] = rntiOf[LteCell]
      BY <2>1 DEF SameCell
    <2>4. Connected("lte") => Connected("lte")'
      BY <2>2 DEF Connected, SameLeg, SameStage
    <2>5. LteFirst'
      BY <2>4 DEF Attachment, LteFirst, SameLeg
    <2>6. ContextAsked'
      BY <2>2, <2>3 DEF Attachment, ContextAsked, SameLeg, SameStage, ConnectedStates
    <2> QED
      BY <2>4, <2>5, <2>6
  <1>3. CASE ue["lte"].state \notin Attached
    <2>1. ~Connected("lte") /\ ~s1
      BY <1>3 DEF Connected, Attached, Attachment, ContextAsked
    <2> QED
      BY <2>1 DEF Attachment, LteFirst, ContextAsked, SameLeg
  <1> QED
    BY <1>2, <1>3

\* No connected context comes into being but under the RNTI of a connected leg.
LEMMA InUseKept ==
    ASSUME Attachment,
           \A k \in Legs : ue[k].state = "CONNECTED_NORMALLY" => SameLeg(k),
           \A c \in Nodes, r \in Rntis : ctx'[c][r].state \in ConnectedStates =>
               \/ ctx[c][r].state \in ConnectedStates
               \/ \E k \in Legs : /\ ue'[k].state = "CONNECTED_NORMALLY"
                                  /\ ue'[k].cell = c /\ ue'[k].rnti = r
    PROVE  ConnectedContextsAreInUse'
  BY DEF Attachment, ConnectedContextsAreInUse, SameLeg

\* A connected context of the LTE cell is that of the UE's connection.
LEMMA LteContextConnected ==
    ASSUME Attachment, NEW r \in Rntis, ctx[LteCell][r].state \in ConnectedStates
    PROVE  Connected("lte") /\ r = ue["lte"].rnti /\ ContextOf("lte") = ctx[LteCell][r]
  <1>1. LteCell \in Nodes
    BY DEF Nodes
  <1>2. PICK k \in Legs : /\ ue[k].state = "CONNECTED_NORMALLY"
                          /\ ue[k].cell = LteCell /\ ue[k].rnti = r
    BY <1>1 DEF Attachment, ConnectedContextsAreInUse
  <1>3. k = "lte"
    BY <1>2, CellsDiffer
  <1> QED
    BY <1>2, <1>3 DEF Connected, ContextOf

\* The context of the LTE cell that m_imsiRntiMap leads to, when the UE is connected.
LEMMA LteContextIs ==
    ASSUME Typed, Attachment, Connected("lte")
    PROVE  /\ ue["lte"].cell = LteCell /\ ue["lte"].rnti \in Rntis
           /\ rntiOf[LteCell] = ue["lte"].rnti
           /\ ContextOf("lte") = ctx[LteCell][rntiOf[LteCell]]
           /\ ContextOf("lte") \in Contexts /\ Bare(ContextOf("lte"))
           /\ \A m \in Items(up["lte"]) : m.type \notin {"Request", "SetupCompleted"}
           /\ srb0["lte"] \cap Answers = {}
  <1>1. LegInv("lte") /\ "lte" \in Legs /\ ue["lte"].state \in Attached
    BY DEF Attachment, Legs, Connected, Attached
  <1>2. /\ ue["lte"].cell = LteCell /\ ue["lte"].rnti \in Rntis
        /\ ContextOf("lte") \in Contexts
    BY <1>1, LegLocated
  <1>3. LteCell \in Nodes /\ ContextOf("lte") = ctx[LteCell][ue["lte"].rnti]
    BY <1>2 DEF Nodes, ContextOf
  <1>4. Bare(ContextOf("lte"))
    BY <1>2, <1>3 DEF Attachment, BareContexts
  <1>5. /\ rntiOf[LteCell] = ue["lte"].rnti /\ srb0["lte"] \cap Answers = {}
        /\ \A m \in Items(up["lte"]) : m.type \notin {"Request", "SetupCompleted"}
    BY <1>1, <1>2 DEF LegInv, Accepted, Connected, ConnectedStates
  <1> QED
    BY <1>2, <1>3, <1>4, <1>5

\* Connected contexts and those that are not complete, when one is replaced.
LEMMA ContextsKept ==
    ASSUME Typed, Attachment, NEW c \in Nodes, NEW r \in Rntis, NEW x \in Contexts,
           ctx' = [ctx EXCEPT ![c][r] = x], Bare(x),
           x.state \in ConnectedStates =>
               \/ ctx[c][r].state \in ConnectedStates
               \/ \E k \in Legs : /\ ue'[k].state = "CONNECTED_NORMALLY"
                                  /\ ue'[k].cell = c /\ ue'[k].rnti = r,
           \A k \in Legs : ue[k].state = "CONNECTED_NORMALLY" => SameLeg(k)
    PROVE  /\ BareContexts' /\ ConnectedContextsAreInUse'
           /\ \A d \in Nodes, s \in Rntis :
                 ctx'[d][s] = IF d = c /\ s = r THEN x ELSE ctx[d][s]
  <1>1. \A d \in Nodes, s \in Rntis :
            ctx'[d][s] = IF d = c /\ s = r THEN x ELSE ctx[d][s]
    BY ContextSet DEF Typed
  <1>2. BareContexts'
    BY <1>1 DEF BareContexts, Attachment
  <1>3. ConnectedContextsAreInUse'
    BY <1>1, InUseKept
  <1> QED
    BY <1>1, <1>2, <1>3

\* A step that leaves the contexts alone.
LEMMA SameContexts ==
    ASSUME UNCHANGED <<ctx, rntiOf>>
    PROVE  \A k \in Legs : SameCell(k)
  BY DEF SameCell, SameStage

\* Attachment holds at the start.
LEMMA AttachmentInit == Init => Attachment
  <1> SUFFICES ASSUME Init PROVE Attachment
    OBVIOUS
  <1>1. ASSUME NEW k \in Legs PROVE LegInv(k)
    BY DEF Init, Legs, LegInv, AtItsCell, Responding, Detached, Connecting, Accepted,
           Attached
  <1>2. \A c \in Nodes, r \in Rntis : ctx[c][r] = NoContext
    BY DEF Init
  <1>3. BareContexts /\ ConnectedContextsAreInUse
    BY <1>2 DEF BareContexts, Bare, NoContext, ConnectedContextsAreInUse, ConnectedStates
  <1>4. LteFirst
    BY DEF Init, LteFirst, DualStarted, ToldToConnect, NoTraffic, Legs, Items
  <1>5. ContextAsked
    BY DEF Init, ContextAsked
  <1> QED
    BY <1>1, <1>3, <1>4, <1>5 DEF Attachment

\* Nothing of it changes when an assertion ends the simulation.
LEMMA AttachmentStop ==
    ASSUME Attachment, NEW why, Stop(why)
    PROVE  Attachment'
  BY DEF Stop, Attachment, LegInv, AtItsCell, Responding, Detached, Connecting, Requesting,
         Answered, Accepted, LteFirst, DualStarted, ToldToConnect, Connected, ContextAsked,
         BareContexts, ConnectedContextsAreInUse, ContextOf, terminal, contexts, air

\* A step of the RRC of leg k that neither connects it nor ends its connection.
LEMMA AttachmentRrc ==
    ASSUME Typed, Attachment, NEW k \in Legs, NEW u, ue' = [ue EXCEPT ![k] = u],
           LegInv(k)', \A j \in Legs : j # k => SameAir(j),
           \/ SameLeg(k)
           \/ /\ ue[k].state # "CONNECTED_NORMALLY" /\ u.state # "CONNECTED_NORMALLY"
              /\ k = "lte" => ~s1,
           nas'.active = nas.active, DualStarted' => DualStarted,
           \A m \in Items(up'["mm"]) : m.type \in {"Request", "SetupCompleted"},
           UNCHANGED <<ctx, rntiOf, s1>>
    PROVE  Attachment'
  <1>1. ue'[k] = u /\ \A j \in Legs : j # k => ue'[j] = ue[j]
    BY DEF Typed, UeTyped
  <1>2. \A j \in Legs : SameCell(j)
    BY SameContexts
  <1>3. ASSUME NEW j \in Legs PROVE LegInv(j)'
    BY <1>1, <1>2, LegKept DEF SameLeg, Attachment
  <1>4. \A j \in Legs : ue[j].state = "CONNECTED_NORMALLY" => SameLeg(j)
    BY <1>1 DEF SameLeg
  <1>5. BareContexts' /\ ConnectedContextsAreInUse'
    BY <1>4, InUseKept DEF Attachment, BareContexts
  <1>6. LteFirst' /\ ContextAsked'
    <2>1. CASE SameLeg("lte")
      BY <1>2, <2>1, RestKept DEF Legs
    <2>2. CASE ~SameLeg("lte")
      <3>1. k = "lte"
        BY <1>1, <2>2 DEF SameLeg, Legs
      <3>2. /\ ue["lte"].state # "CONNECTED_NORMALLY"
            /\ ue'["lte"].state # "CONNECTED_NORMALLY" /\ ~s1
        BY <1>1, <2>2, <3>1
      <3> QED
        BY <3>2 DEF Attachment, LteFirst, ContextAsked, Connected
    <2> QED
      BY <2>1, <2>2
  <1> QED
    BY <1>3, <1>5, <1>6 DEF Attachment

\* An attached leg with an answer of its cell is connecting.
LEMMA AnswerFinds ==
    ASSUME NEW k \in Legs, LegInv(k)
    PROVE  /\ RrcConnectionSetup \in srb0[k] =>
                 /\ ue[k].state = "IDLE_CONNECTING" /\ up[k] = <<>>
                 /\ ContextOf(k).state = "CONNECTION_SETUP"
                 /\ rntiOf[ue[k].cell] = ue[k].rnti
                 /\ srb0[k] \cap Answers = {RrcConnectionSetup}
           /\ RrcConnectionReject \in srb0[k] =>
                 /\ ue[k].state = "IDLE_CONNECTING" /\ up[k] = <<>>
                 /\ ContextOf(k).state = "CONNECTION_REJECTED"
                 /\ srb0[k] \cap Answers = {RrcConnectionReject}
  <1>1. ASSUME RrcConnectionSetup \in srb0[k] \/ RrcConnectionReject \in srb0[k]
        PROVE  ue[k].state = "IDLE_CONNECTING" /\ Answered(k)
    BY <1>1 DEF LegInv, Detached, Accepted, Connecting, Requesting, Answers, Attached
  <1> QED
    BY <1>1 DEF Answered, Answers

\* The steps of the UE's RRCs.
LEMMA AttachmentUeStep ==
    ASSUME Typed, Attachment, NEW k \in Legs, UeStep(k)
    PROVE  Attachment'
  <1>0. /\ UeTyped /\ AirTyped /\ LegInv(k) /\ ue[k] \in UeRrcs
        /\ \A m \in Items(up["mm"]) : m.type \in {"Request", "SetupCompleted"}
        /\ k = "lte" /\ s1 => ue[k].state \in Attached
        /\ ue \in [Legs -> UeRrcs] /\ "lte" \in Legs /\ "mm" \in Legs
    BY UeFields DEF Typed, UeTyped, Attachment, LteFirst, ContextAsked, Legs
  <1>1. CASE RecvMib(k)
    <2>1. PICK u : u = Camp(ue[k])
      OBVIOUS
    <2>2. /\ ue' = [ue EXCEPT ![k] = u] /\ ue[k].state = "IDLE_WAIT_MIB"
          /\ UNCHANGED <<nas, ctx, rntiOf, s1, rar, srb0, srb1, up, x2>>
      BY <1>1, <2>1 DEF RecvMib, contexts, air
    <2>3. u.state \notin Attached /\ u.state # "IDLE_START" /\ u.cell = ue[k].cell
      BY <1>0, <2>1, CampStates
    <2>4. ue'[k] = u /\ \A j \in Legs : SameAir(j)
      BY <1>0, <2>2 DEF SameAir
    <2>5. LegInv(k)'
      <3>1. AtItsCell(k)'
        BY <1>0, <2>2, <2>3, <2>4 DEF LegInv, AtItsCell
      <3> QED
        BY <1>0, <2>2, <2>3, <2>4, <3>1, LegWaits DEF Waiting
    <2>6. DualStarted' => DualStarted
      BY <1>0, <2>2 DEF DualStarted, ToldToConnect
    <2> QED
      BY <1>0, <2>2, <2>3, <2>4, <2>5, <2>6, AttachmentRrc DEF Attached
  <1>2. CASE RecvSib2(k)
    <2> DEFINE v == [ue[k] EXCEPT !.sib2 = TRUE]
    <2>1. PICK u : u = IF v.state = "IDLE_WAIT_SIB2" THEN StartConnection(v) ELSE v
      OBVIOUS
    <2>2. /\ ue' = [ue EXCEPT ![k] = u] /\ ue[k].state \notin {"IDLE_START", "IDLE_WAIT_MIB"}
          /\ UNCHANGED <<nas, ctx, rntiOf, s1, rar, srb0, srb1, up, x2>>
      BY <1>2, <2>1 DEF RecvSib2, contexts, air
    <2>3. /\ u.cell = ue[k].cell /\ u.rnti = ue[k].rnti
          /\ \/ u.state = ue[k].state
             \/ ue[k].state = "IDLE_WAIT_SIB2" /\ u.state = "IDLE_RANDOM_ACCESS"
      BY <1>0, <2>1 DEF UeRrcs, StartConnection
    <2>4. ue'[k] = u /\ \A j \in Legs : SameAir(j) /\ SameCell(j)
      BY <1>0, <2>2, SameContexts DEF SameAir
    <2>5. LegInv(k)'
      <3>1. CASE u.state = ue[k].state
        BY <1>0, <2>3, <2>4, <3>1, LegKept DEF SameLeg
      <3>2. CASE ue[k].state = "IDLE_WAIT_SIB2" /\ u.state = "IDLE_RANDOM_ACCESS"
        <4>1. AtItsCell(k)'
          BY <1>0, <2>3, <2>4, <3>2 DEF LegInv, AtItsCell
        <4> QED
          BY <1>0, <2>4, <3>2, <4>1, LegWaits DEF Waiting, Attached
      <3> QED
        BY <2>3, <3>1, <3>2
    <2>6. DualStarted' => DualStarted
      BY <1>0, <2>2 DEF DualStarted, ToldToConnect
    <2>7. \/ SameLeg(k)
          \/ /\ ue[k].state # "CONNECTED_NORMALLY" /\ u.state # "CONNECTED_NORMALLY"
             /\ k = "lte" => ~s1
      BY <1>0, <2>3, <2>4 DEF SameLeg, Attached
    <2> QED
      BY <1>0, <2>2, <2>4, <2>5, <2>6, <2>7, AttachmentRrc
  <1>3. CASE RandomAccessSuccessful(k)
    <2> DEFINE u == [ue[k] EXCEPT !.state = "IDLE_CONNECTING", !.rnti = rar[k]]
    <2>1. /\ rar[k] # NoRnti /\ rar' = [rar EXCEPT ![k] = NoRnti]
          /\ ue' = [ue EXCEPT ![k] = u]
          /\ up' = [up EXCEPT ![k] = Append(@, Uplink("Request"))]
          /\ UNCHANGED <<nas, ctx, rntiOf, s1, srb0, srb1, x2>>
      BY <1>3 DEF RandomAccessSuccessful, contexts
    <2>2. /\ ue[k].state = "IDLE_RANDOM_ACCESS"
          /\ ctx[ue[k].cell][rar[k]].state = "INITIAL_RANDOM_ACCESS"
      BY <1>0, <2>1 DEF LegInv, Responding
    <2>3. up[k] = <<>> /\ srb0[k] \cap Answers = {}
      BY <1>0, <2>2 DEF LegInv, Detached, Attached
    <2>4. /\ u.state = "IDLE_CONNECTING" /\ u.rnti = rar[k] /\ u.cell = ue[k].cell
          /\ ue'[k] = u
      BY <1>0, <2>1 DEF UeRrcs
    <2> HIDE DEF u
    <2>5. /\ rar'[k] = NoRnti /\ up'[k] = <<Uplink("Request")>>
          /\ \A j \in Legs : j # k => SameAir(j)
      BY <1>0, <2>1, <2>3 DEF AirTyped, SameAir
    <2>6. LegInv(k)'
      <3>1. AtItsCell(k)'
        BY <1>0, <2>2, <2>4 DEF LegInv, AtItsCell
      <3>2. Requesting(k)'
        BY <2>1, <2>2, <2>3, <2>4, <2>5 DEF Requesting, ContextOf
      <3> QED
        BY <2>1, <2>4, <2>5, <3>1, <3>2
           DEF LegInv, Responding, Detached, Connecting, Accepted, Attached
    <2>7. \A m \in Items(up'["mm"]) : m.type \in {"Request", "SetupCompleted"}
      <3>1. CASE k = "mm"
        BY <2>5, <3>1, MessagesAre DEF Items
      <3>2. CASE k # "mm"
        BY <1>0, <2>5, <3>2 DEF SameAir
      <3> QED
        BY <3>1, <3>2
    <2>8. DualStarted' => DualStarted
      BY <1>0, <2>1, <2>2 DEF DualStarted, ToldToConnect
    <2> QED
      BY <1>0, <2>1, <2>2, <2>4, <2>5, <2>6, <2>7, <2>8, AttachmentRrc DEF Attached
  <1>4. CASE UeRecvRrcConnectionSetup(k)
    <2>1. /\ RrcConnectionSetup \in srb0[k] /\ ue[k].state = "IDLE_CONNECTING"
          /\ up[k] = <<>> /\ ContextOf(k).state = "CONNECTION_SETUP"
          /\ rntiOf[ue[k].cell] = ue[k].rnti /\ ue[k].rnti # NoRnti
          /\ srb0[k] \cap Answers = {RrcConnectionSetup}
          /\ rar[k] = NoRnti
      BY <1>0, <1>4, AnswerFinds
         DEF UeRecvRrcConnectionSetup, LegInv, Connecting, Responding
    <2> DEFINE u == [up EXCEPT ![k] = Append(@, Uplink("SetupCompleted"))]
               m == SecondaryCellConnected(nas.cell, ue[k].rnti)
    <2>2. /\ ue' = [ue EXCEPT ![k].state = "CONNECTED_NORMALLY"]
          /\ nas' = [nas EXCEPT !.active = TRUE]
          /\ up' = IF nas.active THEN [u EXCEPT !["lte"] = Append(@, m)] ELSE u
          /\ srb0' = [srb0 EXCEPT ![k] = @ \ {RrcConnectionSetup}]
          /\ UNCHANGED <<ctx, rntiOf, s1, rar, srb1, x2>>
      BY <1>4, <2>1 DEF UeRecvRrcConnectionSetup, contexts
    <2>3. /\ ue'[k].state = "CONNECTED_NORMALLY" /\ ue'[k].cell = ue[k].cell
          /\ ue'[k].rnti = ue[k].rnti /\ nas'.active
          /\ \A j \in Legs : j # k => ue'[j] = ue[j]
      BY <1>0, <2>2 DEF UeTyped, UeRrcs
    <2>4. /\ u[k] = <<Uplink("SetupCompleted")>>
          /\ \A j \in Legs : j # k => u[j] = up[j]
          /\ u \in [Legs -> Seq(UplinkMessages)]
      BY <1>0, <2>1, MessagesAre DEF AirTyped
    <2> HIDE DEF u
    <2>5. srb0'[k] \cap Answers = {}
      BY <1>0, <2>1, <2>2 DEF AirTyped
    <2>6. \A j \in Legs : SameCell(j)
      BY <2>2, SameContexts
    <2>7. ASSUME up'[k] = <<Uplink("SetupCompleted")>> PROVE LegInv(k)'
      <3>1. AtItsCell(k)' /\ Responding(k)'
        BY <1>0, <2>1, <2>2, <2>3 DEF LegInv, AtItsCell, Responding
      <3>2. ContextOf(k)'.state = "CONNECTION_SETUP"
        BY <2>1, <2>2, <2>3 DEF ContextOf
      <3> QED
        BY <2>1, <2>2, <2>3, <2>5, <2>7, <3>1, <3>2
           DEF LegInv, Detached, Connecting, Accepted, Attached
    <2>8. ToldToConnect' => ToldToConnect
      BY <1>0, <2>2 DEF ToldToConnect, AirTyped
    <2>9. BareContexts' /\ ConnectedContextsAreInUse'
      <3>1. \A j \in Legs : ue[j].state = "CONNECTED_NORMALLY" => SameLeg(j)
        BY <2>1, <2>3 DEF SameLeg
      <3> QED
        BY <2>2, <3>1, InUseKept DEF Attachment, BareContexts
    <2>10. CASE k = "lte"
      <3>1. ~nas.active /\ ~DualStarted
        BY <2>1, <2>10 DEF Attachment, LteFirst, Connected
      <3>2. up' = u
        BY <2>2, <3>1
      <3>3. LegInv("mm")'
        <4>1. SameLeg("mm") /\ SameAir("mm") /\ LegInv("mm")
          BY <1>0, <2>2, <2>3, <2>4, <2>10, <3>2 DEF SameLeg, SameAir, AirTyped, Attachment
        <4> QED
          BY <1>0, <2>6, <4>1, LegKept
      <3>4. LegInv("lte")'
        BY <2>4, <2>7, <2>10, <3>2
      <3>5. ~DualStarted'
        BY <1>0, <2>2, <2>3, <2>8, <2>10, <3>1 DEF DualStarted
      <3>6. LteFirst'
        BY <1>0, <2>3, <2>4, <2>10, <3>2, <3>5 DEF LteFirst, Legs
      <3>7. ContextAsked'
        BY <2>1, <2>2, <2>3, <2>10 DEF Attachment, ContextAsked, Attached, ContextOf
      <3> QED
        BY <2>9, <3>3, <3>4, <3>6, <3>7 DEF Attachment, Legs
    <2>11. CASE k = "mm"
      <3>1. Connected("lte") /\ nas.active
        BY <2>1, <2>11 DEF Attachment, LteFirst, DualStarted, Connected
      <3>2. /\ up'["mm"] = u["mm"] /\ up'["lte"] = Append(up["lte"], m)
        BY <1>0, <2>2, <2>4, <2>11, <3>1
      <3>3. LegInv("mm")'
        BY <2>4, <2>7, <2>11, <3>2
      <3>4. SameLeg("lte") /\ SameCell("lte")
        BY <1>0, <2>3, <2>6, <2>11 DEF SameLeg
      <3>5. \A n \in Items(up'["mm"]) : n.type \in {"Request", "SetupCompleted"}
        BY <2>4, <2>11, <3>2, MessagesAre DEF Items
      <3>6. LteFirst' /\ ContextAsked' /\ Connected("lte")'
        BY <2>2, <2>3, <3>1, <3>4, <3>5, RestKept
      <3>7. LegInv("lte")'
        <4>1. LegInv("lte") /\ rar'["lte"] = rar["lte"] /\ srb0'["lte"] = srb0["lte"]
          BY <1>0, <2>2, <2>11 DEF Attachment, AirTyped
        <4>2. \A n \in Items(up'["lte"]) : n.type \notin {"Request", "SetupCompleted"}
          <5>1. m \in UplinkMessages /\ m.type = "SecondaryCellConnected"
            BY <1>0, UeFields, MessagesAre
          <5>2. Items(up'["lte"]) = Items(up["lte"]) \cup {m}
            BY <1>0, <3>2, <5>1, ItemsAppend DEF AirTyped
          <5>3. \A n \in Items(up["lte"]) : n.type \notin {"Request", "SetupCompleted"}
            BY <3>1, LteContextIs
          <5> QED
            BY <5>1, <5>2, <5>3
        <4> QED
          BY <2>2, <3>1, <3>4, <3>6, <4>1, <4>2
             DEF LegInv, AtItsCell, Responding, Detached, Connecting, Accepted, SameLeg,
                 Connected, Attached, SameCell
      <3> QED
        BY <2>9, <3>3, <3>6, <3>7 DEF Attachment, Legs
    <2> QED
      BY <2>10, <2>11 DEF Legs
  <1>5. ASSUME ue[k].state = "IDLE_CONNECTING", up[k] = <<>>, ConnectionFailed(k),
               srb0'[k] \cap Answers = {}, k = "lte" => ~s1,
               \A j \in Legs : j # k => srb0'[j] = srb0[j],
               \A m \in srb0'[k] : m \in srb0[k],
               UNCHANGED <<nas, ctx, rntiOf, s1, rar, srb1, up, x2>>
        PROVE  Attachment'
    <2>1. PICK u : u = Camp([ue[k] EXCEPT !.sib2 = FALSE])
      OBVIOUS
    <2>2. ue' = [ue EXCEPT ![k] = u] /\ ue'[k] = u
      BY <1>0, <1>5, <2>1 DEF ConnectionFailed
    <2>3. u.state \notin Attached /\ u.state # "IDLE_START" /\ u.cell = ue[k].cell
      BY <1>0, <2>1, CampStates
    <2>4. LegInv(k)'
      <3>1. AtItsCell(k)' /\ rar[k] = NoRnti
        BY <1>0, <1>5, <2>2, <2>3 DEF LegInv, AtItsCell, Responding
      <3> QED
        BY <1>5, <2>2, <2>3, <3>1, LegIdle
    <2>5. DualStarted' => DualStarted
      BY <1>0, <1>5, <2>2 DEF DualStarted, ToldToConnect, Legs
    <2>6. \A j \in Legs : j # k => SameAir(j)
      BY <1>5 DEF SameAir
    <2> QED
      BY <1>0, <1>5, <2>2, <2>3, <2>4, <2>5, <2>6, AttachmentRrc DEF Attached
  <1>6. CASE UeRecvRrcConnectionReject(k)
    <2>1. /\ ue[k].state = "IDLE_CONNECTING" /\ up[k] = <<>>
          /\ ContextOf(k).state = "CONNECTION_REJECTED"
          /\ srb0[k] \cap Answers = {RrcConnectionReject}
      BY <1>0, <1>6, AnswerFinds DEF UeRecvRrcConnectionReject
    <2>2. k = "lte" => ~s1
      BY <2>1 DEF Attachment, ContextAsked, ConnectedStates
    <2>3. /\ srb0' = [srb0 EXCEPT ![k] = @ \ {RrcConnectionReject}]
          /\ ConnectionFailed(k)
          /\ UNCHANGED <<nas, ctx, rntiOf, s1, rar, srb1, up, x2>>
      BY <1>6 DEF UeRecvRrcConnectionReject, contexts
    <2>4. /\ srb0'[k] = srb0[k] \ {RrcConnectionReject}
          /\ \A j \in Legs : j # k => srb0'[j] = srb0[j]
      BY <1>0, <2>3 DEF AirTyped
    <2> QED
      BY <1>5, <2>1, <2>2, <2>3, <2>4
  <1>7. CASE ConnectionTimeout(k)
    BY <1>5, <1>7 DEF ConnectionTimeout, contexts, air
  <1> QED
    BY <1>1, <1>2, <1>3, <1>4, <1>6, <1>7 DEF UeStep

\* The context of leg k, or one of its cell, is replaced: nothing that concerns the
\* other leg changes.
LEMMA OtherLegKept ==
    ASSUME Typed, Attachment, NEW k \in Legs, NEW j \in Legs, j # k,
           SameLeg(j), SameAir(j),
           \A c \in Nodes : c # ue[k].cell =>
               rntiOf'[c] = rntiOf[c] /\ \A r \in Rntis : ctx'[c][r] = ctx[c][r]
    PROVE  LegInv(j)' /\ (Connected(j) => Connected(j)')
  <1>1. SameCell(j)
    BY CellsDiffer DEF SameCell, SameStage
  <1> QED
    BY <1>1, LegKept DEF Attachment

\* The steps of the cells during random access and connection set-up.
LEMMA AttachmentCellStep ==
    ASSUME Typed, Attachment, NEW k \in Legs, CellStep(k)
    PROVE  Attachment'
  <1>0. /\ UeTyped /\ CellsTyped /\ AirTyped /\ LegInv(k) /\ ue[k] \in UeRrcs
        /\ \A m \in Items(up["mm"]) : m.type \in {"Request", "SetupCompleted"}
        /\ "lte" \in Legs /\ "mm" \in Legs /\ CoordinatorTyped
        /\ k = "lte" => ue[k].cell = LteCell
        /\ k = "mm" => ue[k].cell # LteCell
    BY UeFields, CellsDiffer DEF Typed, Attachment, LteFirst, Legs
  <1>1. CASE AllocateTemporaryCellRnti(k)
    <2>1. CASE FreeSteps(ue[k].cell) = {}
      BY <1>1, <2>1, AttachmentStop DEF AllocateTemporaryCellRnti
    <2>2. CASE FreeSteps(ue[k].cell) # {}
      <3> DEFINE x == [NoContext EXCEPT !.state = "INITIAL_RANDOM_ACCESS"]
      <3>0. PICK c : c = ue[k].cell
        OBVIOUS
      <3>1. PICK r \in Rntis :
                /\ IsNextRnti(c, r)
                /\ ctx' = [ctx EXCEPT ![c][r] = x]
                /\ rar' = [rar EXCEPT ![k] = r]
                /\ UNCHANGED <<ue, nas, rntiOf, s1, srb0, srb1, up, x2>>
                /\ ue[k].state = "IDLE_RANDOM_ACCESS"
        BY <1>1, <2>2, <3>0 DEF AllocateTemporaryCellRnti, terminal
      <3>2. x \in Contexts /\ Bare(x) /\ x.state = "INITIAL_RANDOM_ACCESS"
        BY ContextFields DEF UeStates, Bare, NoContext
      <3>3. c \in Nodes
        BY <1>0, <3>0, <3>1, CellsDiffer DEF Legs
      <3>4. ctx[c][r].state = "NONE"
        BY <3>1 DEF IsNextRnti, FreeSteps
      <3> HIDE DEF x
      <3>5. /\ BareContexts' /\ ConnectedContextsAreInUse'
            /\ \A d \in Nodes, s \in Rntis :
                  ctx'[d][s] = IF d = c /\ s = r THEN x ELSE ctx[d][s]
        <4>1. \A j \in Legs : SameLeg(j)
          BY <3>1 DEF SameLeg
        <4>2. x.state \notin ConnectedStates
          BY <3>2 DEF ConnectedStates
        <4> QED
          BY <3>1, <3>2, <3>3, <4>1, <4>2, ContextsKept
      <3>6. ASSUME NEW j \in Legs, j # k
            PROVE  LegInv(j)' /\ (Connected(j) => Connected(j)')
        <4>1. SameLeg(j) /\ SameAir(j)
          BY <1>0, <3>1, <3>6 DEF SameLeg, SameAir, AirTyped
        <4> QED
          BY <3>0, <3>1, <3>5, <3>6, <4>1, OtherLegKept
      <3>7. LegInv(k)'
        <4>1. Responding(k)'
          BY <1>0, <3>0, <3>1, <3>2, <3>3, <3>5 DEF Responding, AirTyped
        <4> QED
          BY <1>0, <3>1, <4>1 DEF LegInv, AtItsCell, Detached, Connecting, Accepted, Attached
      <3>8. LteFirst'
        <4>1. k = "lte" => ~Connected("lte")
          BY <3>1 DEF Connected
        <4>2. DualStarted' <=> DualStarted
          BY <3>1 DEF DualStarted, ToldToConnect
        <4> QED
          BY <1>0, <3>1, <3>6, <4>1, <4>2 DEF Attachment, LteFirst, Legs
      <3>9. ContextAsked'
        <4>1. CASE k = "lte"
          BY <3>1, <4>1 DEF Attachment, ContextAsked, Attached
        <4>2. CASE k = "mm" /\ s1
          <5>1. ue["lte"].state \in Attached /\ LegInv("lte")
            BY <1>0, <4>2 DEF Attachment, ContextAsked
          <5>2. ue["lte"].rnti \in Rntis /\ ue["lte"].cell = LteCell /\ LteCell \in Nodes
            BY <1>0, <5>1, LegLocated DEF Nodes
          <5>3. ContextOf("lte")' = ContextOf("lte")
            BY <1>0, <3>0, <3>1, <3>5, <4>2, <5>2 DEF ContextOf
          <5> QED
            BY <3>1, <5>3 DEF Attachment, ContextAsked
        <4> QED
          BY <3>1, <4>1, <4>2 DEF ContextAsked, Legs
      <3> QED
        BY <3>5, <3>6, <3>7, <3>8, <3>9 DEF Attachment
    <2> QED
      BY <2>1, <2>2
  <1>2. CASE RecvRrcConnectionRequest(k)
    <2>1. CASE ContextOf(k).state # "INITIAL_RANDOM_ACCESS"
      BY <1>2, <2>1, AttachmentStop DEF RecvRrcConnectionRequest
    <2>2. CASE ContextOf(k).state = "INITIAL_RANDOM_ACCESS"
      <3> DEFINE admitted == ue[k].cell \in AdmittingCells
                 x == [ContextOf(k) EXCEPT !.state =
                        IF admitted THEN "CONNECTION_SETUP" ELSE "CONNECTION_REJECTED"]
                 answer == IF admitted THEN RrcConnectionSetup ELSE RrcConnectionReject
      <3>1. /\ ctx' = WithContext(k, x)
            /\ srb0' = [srb0 EXCEPT ![k] = @ \cup {answer}]
            /\ rntiOf' = IF admitted THEN [rntiOf EXCEPT ![ue[k].cell] = ue[k].rnti]
                                     ELSE rntiOf
            /\ s1' = IF admitted /\ k = "lte" THEN TRUE ELSE s1
            /\ up' = TakenUp(k) /\ up[k] # <<>> /\ Head(up[k]).type = "Request"
            /\ UNCHANGED <<ue, nas, rar, srb1, x2>>
        BY <1>2, <2>2 DEF RecvRrcConnectionRequest, ArrivesUp, terminal
      <3>2. ue[k].state = "IDLE_CONNECTING" /\ Requesting(k) /\ rar[k] = NoRnti
        <4>1. ue[k].state \in Attached /\ Head(up[k]) \in Items(up[k])
          BY <1>0, <3>1, SenderIsAttached, ItemsTail DEF AirTyped
        <4>2. Uplink("SetupCompleted").type # "Request"
          BY MessagesAre
        <4>3. ue[k].state # "CONNECTED_NORMALLY"
          BY <1>0, <3>1, <4>1, <4>2 DEF LegInv, Accepted
        <4> QED
          BY <1>0, <3>1, <4>1, <4>3 DEF LegInv, Connecting, Answered, Attached, Responding
      <3>3. PICK c, r : c = ue[k].cell /\ r = ue[k].rnti
        OBVIOUS
      <3>4. /\ c \in Nodes /\ r \in Rntis /\ ContextOf(k) \in Contexts
            /\ ContextOf(k) = ctx[c][r] /\ Bare(ContextOf(k))
        BY <1>0, <3>2, <3>3, LegLocated DEF Attached, ContextOf, Attachment, BareContexts
      <3>5. /\ x \in Contexts /\ x.state \notin ConnectedStates /\ Bare(x)
            /\ admitted => x.state = "CONNECTION_SETUP"
            /\ ~admitted => x.state = "CONNECTION_REJECTED"
        <4>1. x \in Contexts
          BY <3>4, ContextFields DEF UeStates
        <4>2. x.state = IF admitted THEN "CONNECTION_SETUP" ELSE "CONNECTION_REJECTED"
          BY <3>4 DEF Contexts
        <4>3. Bare(x)
          BY <2>2, <3>4 DEF Contexts, Bare, ConnectedStates
        <4> QED
          BY <4>1, <4>2, <4>3 DEF ConnectedStates
      <3>6. ctx' = [ctx EXCEPT ![c][r] = x]
        BY <3>1, <3>3 DEF WithContext
      <3> HIDE DEF x
      <3>7. /\ BareContexts' /\ ConnectedContextsAreInUse'
            /\ \A d \in Nodes, s \in Rntis :
                  ctx'[d][s] = IF d = c /\ s = r THEN x ELSE ctx[d][s]
        <4>1. \A j \in Legs : SameLeg(j)
          BY <3>1 DEF SameLeg
        <4> QED
          BY <3>4, <3>5, <3>6, <4>1, ContextsKept
      <3>8. /\ up'[k] = <<>> /\ \A j \in Legs : j # k => up'[j] = up[j]
            /\ srb0'[k] \cap Answers = {answer}
            /\ \A j \in Legs : j # k => srb0'[j] = srb0[j]
            /\ admitted => rntiOf'[c] = r
            /\ \A d \in Nodes : d # c => rntiOf'[d] = rntiOf[d]
        <4>1. up'[k] = <<>> /\ \A j \in Legs : j # k => up'[j] = up[j]
          BY <1>0, <3>1, <3>2 DEF Requesting, TakenUp, AirTyped
        <4>2. srb0'[k] = srb0[k] \cup {answer} /\ \A j \in Legs : j # k => srb0'[j] = srb0[j]
          BY <1>0, <3>1 DEF AirTyped
        <4>3. answer \in Answers /\ srb0[k] \cap Answers = {}
          BY <3>2 DEF Answers, Requesting
        <4> QED
          BY <1>0, <3>1, <3>3, <3>4, <4>1, <4>2, <4>3 DEF CellsTyped
      <3>9. ASSUME NEW j \in Legs, j # k
            PROVE  LegInv(j)' /\ (Connected(j) => Connected(j)')
        <4>1. SameLeg(j) /\ SameAir(j)
          BY <3>1, <3>8, <3>9 DEF SameLeg, SameAir
        <4> QED
          BY <3>3, <3>7, <3>8, <3>9, <4>1, OtherLegKept
      <3>10. ContextOf(k)' = x
        BY <3>1, <3>3, <3>4, <3>7 DEF ContextOf
      <3>11. LegInv(k)'
        <4>1. RrcConnectionSetup # RrcConnectionReject
          BY DEF RrcConnectionSetup, RrcConnectionReject
        <4>2. Answered(k)'
          BY <3>1, <3>3, <3>5, <3>8, <3>10, <4>1 DEF Answered, Answers
        <4>3. AtItsCell(k)' /\ Responding(k)'
          BY <1>0, <3>1, <3>2 DEF LegInv, AtItsCell, Responding
        <4> QED
          BY <1>0, <3>1, <3>2, <4>2, <4>3
             DEF LegInv, Detached, Connecting, Accepted, Attached
      <3>12. LteFirst'
        <4>1. k = "lte" => ~Connected("lte")
          BY <3>2 DEF Connected
        <4>2. ToldToConnect' => ToldToConnect
          <5>1. answer.type # "ConnectToMmWave"
            BY MessagesAre
          <5>2. \A m \in srb0'["lte"] : m \in srb0["lte"] \/ m = answer
            BY <1>0, <3>1 DEF AirTyped
          <5> QED
            BY <5>1, <5>2 DEF ToldToConnect
        <4>3. DualStarted' => DualStarted
          BY <3>1, <4>2 DEF DualStarted
        <4>4. \A m \in Items(up'["mm"]) : m.type \in {"Request", "SetupCompleted"}
          BY <1>0, <3>8 DEF Items
        <4> QED
          BY <1>0, <3>1, <3>9, <4>1, <4>3, <4>4 DEF Attachment, LteFirst, Legs
      <3>13. ContextAsked'
        <4>1. CASE k = "lte"
          <5>1. ~s1
            BY <2>2, <4>1 DEF Attachment, ContextAsked, ConnectedStates
          <5> QED
            BY <1>0, <3>1, <3>2, <3>3, <3>5, <3>8, <3>10, <4>1, <5>1
               DEF ContextAsked, Attached
        <4>2. CASE k = "mm" /\ s1
          <5>1. ue["lte"].state \in Attached /\ LegInv("lte")
            BY <1>0, <4>2 DEF Attachment, ContextAsked
          <5>2. ue["lte"].rnti \in Rntis /\ ue["lte"].cell = LteCell /\ LteCell \in Nodes
            BY <1>0, <5>1, LegLocated DEF Nodes
          <5>3. ContextOf("lte")' = ContextOf("lte") /\ rntiOf'[LteCell] = rntiOf[LteCell]
            BY <1>0, <3>1, <3>3, <3>7, <3>8, <4>2, <5>2 DEF ContextOf
          <5> QED
            BY <3>1, <4>2, <5>3 DEF Attachment, ContextAsked
        <4> QED
          BY <3>1, <4>1, <4>2 DEF ContextAsked, Legs
      <3> QED
        BY <3>7, <3>9, <3>11, <3>12, <3>13 DEF Attachment
    <2> QED
      BY <2>1, <2>2
  <1>3. CASE RecvRrcConnectionSetupCompleted(k)
    <2>1. CASE ContextOf(k).state # "CONNECTION_SETUP"
      BY <1>3, <2>1, AttachmentStop DEF RecvRrcConnectionSetupCompleted
    <2>2. CASE ContextOf(k).state = "CONNECTION_SETUP"
      <3> DEFINE w == [ContextOf(k) EXCEPT !.pendingConnect = (k = "lte")]
                 good == w.pendingConnect /\ sinr[best] > OutageThreshold
                 outage == w.pendingConnect /\ ~good
                 x == NoteOutage(
                [w EXCEPT !.pendingConnect = FALSE, !.pendingReconf = FALSE,
                          !.state = IF w.pendingReconf THEN "CONNECTION_RECONFIGURATION"
                                                       ELSE "CONNECTED_NORMALLY"],
                outage)
      <3>1. /\ ctx' = WithContext(k, x)
            /\ srb0' = IF good THEN [srb0 EXCEPT ![k] = @ \cup {RrcConnectToMmWave(best)}]
                               ELSE srb0
            /\ srb1' # <<>> => srb1 # <<>> \/ w.pendingReconf
            /\ up' = TakenUp(k) /\ up[k] # <<>> /\ Head(up[k]).type = "SetupCompleted"
            /\ UNCHANGED <<ue, nas, rntiOf, s1, rar, x2>>
        BY <1>3, <2>2 DEF RecvRrcConnectionSetupCompleted, ArrivesUp, ConnectedNormally, terminal
      <3>2. /\ ue[k].state = "CONNECTED_NORMALLY" /\ up[k] = <<Uplink("SetupCompleted")>>
            /\ rar[k] = NoRnti
        <4>1. ue[k].state \in Attached /\ Head(up[k]) \in Items(up[k])
          BY <1>0, <3>1, SenderIsAttached, ItemsTail DEF AirTyped
        <4>2. Uplink("Request").type # "SetupCompleted"
          BY MessagesAre
        <4>3. ue[k].state # "IDLE_CONNECTING"
          BY <1>0, <3>1, <4>1, <4>2 DEF LegInv, Connecting, Answered, Requesting
        <4> QED
          BY <1>0, <3>1, <4>1, <4>3 DEF LegInv, Accepted, Attached, Responding
      <3>3. PICK c, r : c = ue[k].cell /\ r = ue[k].rnti
        OBVIOUS
      <3>4. /\ c \in Nodes /\ r \in Rntis /\ ContextOf(k) \in Contexts
            /\ ContextOf(k) = ctx[c][r]
        BY <1>0, <3>2, <3>3, LegLocated DEF Attached, ContextOf
      <3>5. w \in Contexts
        BY <3>4 DEF Contexts
      <3>6. x \in Contexts /\ x.state \in ConnectedStates /\ Bare(x)
        <4>1. outage \in BOOLEAN
          OBVIOUS
        <4> HIDE DEF w, outage
        <4> QED
          BY <3>5, <4>1 DEF Contexts, NoteOutage, UeStates, ConnectedStates, Bare
      <3>7. ctx' = [ctx EXCEPT ![c][r] = x]
        BY <3>1, <3>3 DEF WithContext
      <3>8. good => k = "lte"
        BY <3>4 DEF Contexts
      <3> HIDE DEF x, good, w
      <3>9. /\ BareContexts' /\ ConnectedContextsAreInUse'
            /\ \A d \in Nodes, s \in Rntis :
                  ctx'[d][s] = IF d = c /\ s = r THEN x ELSE ctx[d][s]
        <4>1. \A j \in Legs : SameLeg(j)
          BY <3>1 DEF SameLeg
        <4>2. \E j \in Legs : /\ ue'[j].state = "CONNECTED_NORMALLY"
                              /\ ue'[j].cell = c /\ ue'[j].rnti = r
          BY <3>1, <3>2, <3>3
        <4> QED
          BY <3>4, <3>6, <3>7, <4>1, <4>2, ContextsKept
      <3>10. /\ up'[k] = <<>> /\ \A j \in Legs : j # k => up'[j] = up[j]
             /\ srb0'[k] \cap Answers = srb0[k] \cap Answers
             /\ \A j \in Legs : j # k => srb0'[j] = srb0[j]
        <4>1. up'[k] = <<>> /\ \A j \in Legs : j # k => up'[j] = up[j]
          BY <1>0, <3>1, <3>2 DEF TakenUp, AirTyped
        <4>2. RrcConnectToMmWave(best) \notin Answers
          BY DEF Answers, RrcConnectToMmWave, RrcConnectionSetup, RrcConnectionReject
        <4> QED
          BY <1>0, <3>1, <4>1, <4>2 DEF AirTyped
      <3>11. ASSUME NEW j \in Legs, j # k
             PROVE  LegInv(j)' /\ (Connected(j) => Connected(j)')
        <4>1. SameLeg(j) /\ SameAir(j)
          BY <3>1, <3>10, <3>11 DEF SameLeg, SameAir
        <4> QED
          BY <3>1, <3>3, <3>9, <3>11, <4>1, OtherLegKept
      <3>12. ContextOf(k)' = x /\ Connected(k)'
        BY <3>1, <3>2, <3>3, <3>4, <3>6, <3>9 DEF ContextOf, Connected
      <3>13. LegInv(k)'
        <4>1. AtItsCell(k)' /\ Responding(k)'
          BY <1>0, <3>1, <3>2 DEF LegInv, AtItsCell, Responding
        <4> QED
          BY <1>0, <3>1, <3>2, <3>6, <3>10, <3>12, <4>1
             DEF LegInv, Detached, Connecting, Accepted, Attached, Items
      <3>14. Connected("lte")'
        <4>1. CASE k = "mm"
          <5>1. ue["mm"].state # "IDLE_START"
            BY <3>2, <4>1
          <5> QED
            BY <1>0, <3>11, <4>1, <5>1 DEF Attachment, LteFirst, DualStarted
        <4> QED
          BY <3>12, <4>1 DEF Legs
      <3>15. LteFirst'
        <4>1. \A m \in Items(up'["mm"]) : m.type \in {"Request", "SetupCompleted"}
          BY <1>0, <3>10 DEF Items
        <4> QED
          BY <3>1, <3>14, <4>1 DEF Attachment, LteFirst
      <3>16. ContextAsked'
        <4>1. rntiOf'[LteCell] = rntiOf[LteCell] /\ ue' = ue /\ s1' = s1
          BY <3>1
        <4> QED
          BY <3>14, <4>1 DEF Attachment, ContextAsked, Connected
      <3> QED
        BY <3>9, <3>11, <3>13, <3>15, <3>16 DEF Attachment
    <2> QED
      BY <2>1, <2>2
  <1> QED
    BY <1>1, <1>2, <1>3 DEF CellStep

\* A step that leaves the legs where they are, apart from messages that the UE sends
\* over its LTE connection.
LEMMA AttachmentSame ==
    ASSUME Typed, Attachment,
           \A k \in Legs : SameLeg(k) /\ SameCell(k)
                           /\ srb0'[k] \cap Answers = srb0[k] \cap Answers,
           rar' = rar, up'["mm"] = up["mm"],
           \/ up'["lte"] = up["lte"]
           \/ /\ Connected("lte")
              /\ \A m \in Items(up'["lte"]) : m.type \notin {"Request", "SetupCompleted"},
           s1' => s1, nas'.active = nas.active,
           DualStarted' => DualStarted \/ Connected("lte"),
           BareContexts', ConnectedContextsAreInUse'
    PROVE  Attachment'
  <1>1. LegInv("lte") /\ LegInv("mm") /\ Legs = {"lte", "mm"}
    BY CellsDiffer
  <1>2. SameAir("mm") /\ (up'["lte"] = up["lte"] => SameAir("lte"))
    BY <1>1 DEF SameAir
  <1>3. LegInv("mm")'
    BY <1>1, <1>2, LegKept
  <1>4. \A m \in Items(up'["mm"]) : m.type \in {"Request", "SetupCompleted"}
    BY DEF Attachment, LteFirst
  <1>5. LteFirst' /\ ContextAsked' /\ (Connected("lte") => Connected("lte")')
    BY <1>1, <1>4, RestKept
  <1>6. LegInv("lte")'
    <2>1. CASE up'["lte"] = up["lte"]
      BY <1>1, <1>2, <2>1, LegKept
    <2>2. CASE /\ Connected("lte")
               /\ \A m \in Items(up'["lte"]) : m.type \notin {"Request", "SetupCompleted"}
      <3>1. SameLeg("lte") /\ SameCell("lte") /\ Connected("lte")'
        BY <1>1, <1>5, <2>2
      <3>2. srb0'["lte"] \cap Answers = srb0["lte"] \cap Answers
        BY <1>1
      <3>3. rntiOf'[ue["lte"].cell] = rntiOf[ue["lte"].cell]
        BY <3>1, CellsDiffer DEF SameCell
      <3> QED
        BY <1>1, <2>2, <3>1, <3>2, <3>3
           DEF LegInv, AtItsCell, Responding, Detached, Connecting, Accepted, SameLeg,
               Connected, Attached
    <2> QED
      BY <2>1, <2>2
  <1> QED
    BY <1>1, <1>3, <1>5, <1>6 DEF Attachment

\* The same, when the contexts and the legs do not change at all.
LEMMA AttachmentAir ==
    ASSUME Typed, Attachment, UNCHANGED <<ctx, rntiOf, ue, rar>>,
           \A k \in Legs : srb0'[k] \cap Answers = srb0[k] \cap Answers,
           up'["mm"] = up["mm"],
           \/ up'["lte"] = up["lte"]
           \/ /\ Connected("lte")
              /\ \A m \in Items(up'["lte"]) : m.type \notin {"Request", "SetupCompleted"},
           s1' => s1, nas'.active = nas.active,
           DualStarted' => DualStarted \/ Connected("lte")
    PROVE  Attachment'
  <1>1. \A k \in Legs : SameLeg(k) /\ SameCell(k)
    BY SameContexts DEF SameLeg
  <1>2. BareContexts' /\ ConnectedContextsAreInUse'
    BY DEF Attachment, BareContexts, ConnectedContextsAreInUse
  <1> QED
    BY <1>1, <1>2, AttachmentSame

\* The calls of the UE's NAS and the messages of its bearers.
LEMMA AttachmentConfigured ==
    ASSUME Typed, Attachment, UeConfigured \/ RandomAccessFailed
    PROVE  Attachment'
  <1>0. /\ UeTyped /\ AirTyped /\ Legs = {"lte", "mm"}
        /\ LegInv("lte") /\ LegInv("mm")
        /\ ue["lte"] \in UeRrcs /\ ue["mm"] \in UeRrcs
        /\ \A m \in Items(up["mm"]) : m.type \in {"Request", "SetupCompleted"}
    BY UeFields, CellsDiffer DEF Typed, Attachment, LteFirst
  <1>1. CASE RetryConnect
    <2>1. PICK u : u = Connect(ue["lte"])
      OBVIOUS
    <2>2. /\ ue' = [ue EXCEPT !["lte"] = u] /\ ue'["lte"] = u
          /\ UNCHANGED <<nas, ctx, rntiOf, s1, rar, srb0, srb1, up, x2>>
      BY <1>0, <1>1, <2>1 DEF RetryConnect, contexts, air, UeTyped
    <2>3. /\ u.cell = ue["lte"].cell /\ u.rnti = ue["lte"].rnti
          /\ \/ u.state = ue["lte"].state
             \/ ue["lte"].state \in Waiting /\ u.state \notin Attached
          /\ u.state = "IDLE_START" <=> ue["lte"].state = "IDLE_START"
      BY <1>0, <2>1, ConnectStates
    <2>4. \A j \in Legs : SameAir(j) /\ SameCell(j)
      BY <2>2, SameContexts DEF SameAir
    <2>5. LegInv("lte")'
      <3>1. AtItsCell("lte")'
        BY <1>0, <2>2, <2>3 DEF LegInv, AtItsCell
      <3>2. CASE u.state = ue["lte"].state
        BY <1>0, <2>2, <2>3, <2>4, <3>2, LegKept DEF SameLeg
      <3>3. CASE ue["lte"].state \in Waiting /\ u.state \notin Attached
        BY <1>0, <2>2, <2>4, <3>1, <3>3, LegWaits
      <3> QED
        BY <2>3, <3>2, <3>3
    <2>6. DualStarted' => DualStarted
      BY <1>0, <2>2 DEF DualStarted, ToldToConnect, UeTyped
    <2>7. \/ SameLeg("lte")
          \/ /\ ue["lte"].state # "CONNECTED_NORMALLY" /\ u.state # "CONNECTED_NORMALLY"
             /\ ~s1
      BY <2>2, <2>3 DEF SameLeg, Attached, Waiting, Attachment, ContextAsked
    <2> QED
      BY <1>0, <2>2, <2>4, <2>5, <2>6, <2>7, AttachmentRrc
  <1>2. CASE RandomAccessFailed
    <2>1. PICK u : u = Camp(ue["lte"])
      OBVIOUS
    <2>2. /\ ue' = [ue EXCEPT !["lte"] = u] /\ ue'["lte"] = u
          /\ ue["lte"].state = "IDLE_RANDOM_ACCESS" /\ rar["lte"] = NoRnti
          /\ UNCHANGED <<nas, ctx, rntiOf, s1, rar, srb0, srb1, up, x2>>
      BY <1>0, <1>2, <2>1 DEF RandomAccessFailed, contexts, air, UeTyped
    <2>3. u.state \notin Attached /\ u.state # "IDLE_START" /\ u.cell = ue["lte"].cell
      BY <1>0, <2>1, CampStates
    <2>4. up["lte"] = <<>> /\ srb0["lte"] \cap Answers = {} /\ ~s1
      BY <1>0, <2>2 DEF LegInv, Detached, Attached, Attachment, ContextAsked
    <2>5. LegInv("lte")'
      <3>1. AtItsCell("lte")'
        BY <1>0, <2>2, <2>3 DEF LegInv, AtItsCell
      <3> QED
        BY <1>0, <2>2, <2>3, <2>4, <3>1, LegIdle
    <2>6. DualStarted' => DualStarted
      BY <1>0, <2>2 DEF DualStarted, ToldToConnect, UeTyped
    <2>7. \A j \in Legs : SameAir(j)
      BY <2>2 DEF SameAir
    <2> QED
      BY <1>0, <2>2, <2>3, <2>4, <2>5, <2>6, <2>7, AttachmentRrc DEF Attached
  <1>3. CASE UeRecvRrcConnectToMmWave
    <2>1. PICK m \in srb0["lte"] :
              /\ m.type = "ConnectToMmWave"
              /\ nas' = [nas EXCEPT !.cell = m.cell]
              /\ ue' = [ue EXCEPT !["mm"] = Connect(ForceCampedOnEnb(@, m.cell))]
              /\ srb0' = [srb0 EXCEPT !["lte"] = @ \ {m}]
              /\ UNCHANGED <<ctx, rntiOf, s1, rar, srb1, up, x2>>
      BY <1>3 DEF UeRecvRrcConnectToMmWave, contexts
    <2>2. m.cell \in Cells /\ m \notin Answers
      <3>1. m \in SignalMessages
        BY <1>0, <2>1 DEF AirTyped
      <3> QED
        BY <2>1, <3>1, FieldTypes, MessagesAre DEF Answers
    <2>3. PICK u : u = Connect(ForceCampedOnEnb(ue["mm"], m.cell))
      OBVIOUS
    <2>4. /\ u.state # "IDLE_START"
          /\ u.cell = IF ue["mm"].state = "IDLE_START" THEN m.cell ELSE ue["mm"].cell
          /\ \/ u.state = ue["mm"].state /\ u.rnti = ue["mm"].rnti
             \/ ue["mm"].state \in Waiting /\ u.state \notin Attached
      BY <1>0, <2>2, <2>3, ToldStates
    <2>5. /\ ue' = [ue EXCEPT !["mm"] = u] /\ ue'["mm"] = u
          /\ nas'.active = nas.active
          /\ srb0'["mm"] = srb0["mm"]
          /\ srb0'["lte"] \cap Answers = srb0["lte"] \cap Answers
      BY <1>0, <2>1, <2>2, <2>3 DEF UeTyped, AirTyped
    <2>6. \A j \in Legs : SameAir(j) /\ SameCell(j)
      BY <1>0, <2>1, <2>5, SameContexts DEF SameAir
    <2>7. LegInv("mm")'
      <3>1. AtItsCell("mm")'
        BY <1>0, <2>2, <2>4, <2>5 DEF LegInv, AtItsCell
      <3>2. CASE u.state = ue["mm"].state /\ u.rnti = ue["mm"].rnti
        BY <1>0, <2>4, <2>5, <2>6, <3>2, LegKept DEF SameLeg
      <3>3. CASE ue["mm"].state \in Waiting /\ u.state \notin Attached
        BY <1>0, <2>5, <2>6, <3>1, <3>3, LegWaits
      <3> QED
        BY <2>4, <3>2, <3>3
    <2>8. DualStarted' => DualStarted
      BY <2>1 DEF DualStarted, ToldToConnect
    <2>9. \/ SameLeg("mm")
          \/ ue["mm"].state # "CONNECTED_NORMALLY" /\ u.state # "CONNECTED_NORMALLY"
      BY <2>4, <2>5 DEF SameLeg, Attached, Waiting
    <2> QED
      BY <1>0, <2>1, <2>5, <2>6, <2>7, <2>8, <2>9, AttachmentRrc
  <1>4. CASE UeRecvReconfiguration
    <2>1. CASE ue["lte"].state # "CONNECTED_NORMALLY"
      BY <1>4, <2>1, AttachmentStop DEF UeRecvReconfiguration
    <2>2. CASE ue["lte"].state = "CONNECTED_NORMALLY"
      <3>1. /\ srb1 # <<>>
            /\ up' = [up EXCEPT !["lte"] = Append(@, Uplink("ReconfCompleted"))]
            /\ UNCHANGED <<ue, nas, ctx, rntiOf, s1, rar, srb0, x2>>
        BY <1>4, <2>2 DEF UeRecvReconfiguration, contexts
      <3>2. Connected("lte")
        BY <3>1 DEF Attachment, LteFirst, DualStarted
      <3>3. /\ up'["mm"] = up["mm"]
            /\ Items(up'["lte"]) = Items(up["lte"]) \cup {Uplink("ReconfCompleted")}
        BY <1>0, <3>1, MessagesAre, ItemsAppend DEF AirTyped
      <3>4. \A m \in Items(up'["lte"]) : m.type \notin {"Request", "SetupCompleted"}
        BY <3>2, <3>3, LteContextIs, MessagesAre
      <3> QED
        BY <3>1, <3>2, <3>3, <3>4, AttachmentAir
    <2> QED
      BY <2>1, <2>2
  <1>5. CASE UeRecvRrcConnectionSwitch
    <2>1. /\ srb1 # <<>>
          /\ UNCHANGED <<ue, nas, ctx, rntiOf, s1, rar, srb0, up, x2>>
      BY <1>5 DEF UeRecvRrcConnectionSwitch, contexts
    <2>2. Connected("lte")
      BY <2>1 DEF Attachment, LteFirst, DualStarted
    <2> QED
      BY <2>1, <2>2, AttachmentAir
  <1> QED
    BY <1>1, <1>2, <1>3, <1>4, <1>5 DEF UeConfigured

\* The end of a timer of a cell: the context that is removed is in nobody's use, or
\* the UE waits for an answer that was lost.
LEMMA AttachmentRemoved ==
    ASSUME Typed, Attachment, NEW c \in Nodes, NEW r \in Rntis, RemoveUe(c, r),
           ctx[c][r].state \in {"INITIAL_RANDOM_ACCESS", "CONNECTION_SETUP",
                                "CONNECTION_REJECTED"},
           \A k \in Legs : InUse(k, c, r) =>
               ctx[c][r].state = "CONNECTION_REJECTED" /\ srb0[k] = {}
    PROVE  Attachment'
  <1>1. /\ ctx' = [ctx EXCEPT ![c][r] = NoContext]
        /\ UNCHANGED <<ue, nas, rntiOf, s1, rar, srb0, srb1, up, x2>>
    BY DEF RemoveUe, terminal, air
  <1>2. NoContext \in Contexts /\ Bare(NoContext) /\ NoContext.state = "NONE"
    BY ContextFields DEF NoContext, Bare
  <1>3. \A k \in Legs : SameLeg(k) /\ SameAir(k) /\ ue[k].rnti \in SomeRnti
    BY <1>1, UeFields DEF SameLeg, SameAir, Typed
  <1>4. /\ BareContexts' /\ ConnectedContextsAreInUse'
        /\ \A d \in Nodes, s \in Rntis :
              ctx'[d][s] = IF d = c /\ s = r THEN NoContext ELSE ctx[d][s]
    BY <1>1, <1>2, <1>3, ContextsKept DEF ConnectedStates
  <1>5. ASSUME NEW k \in Legs, ue[k].state \in Attached,
               ContextOf(k)' # ContextOf(k)
        PROVE  /\ ue[k].state = "IDLE_CONNECTING" /\ up[k] = <<>> /\ srb0[k] = {}
               /\ ContextOf(k).state = "CONNECTION_REJECTED"
    <2>1. LegInv(k)
      BY DEF Attachment
    <2>2. ue[k].cell \in Nodes /\ ue[k].rnti \in Rntis
      BY <1>5, <2>1, LegLocated
    <2>3. ue[k].cell = c /\ ue[k].rnti = r
      BY <1>1, <1>4, <1>5, <2>2 DEF ContextOf
    <2>4. ContextOf(k).state = "CONNECTION_REJECTED" /\ srb0[k] = {}
      BY <1>5, <2>3 DEF InUse, Attached, ContextOf
    <2> QED
      BY <1>5, <2>1, <2>4
         DEF LegInv, Connecting, Requesting, Answered, Accepted, Attached, ConnectedStates
  <1>6. ASSUME NEW k \in Legs PROVE LegInv(k)'
    <2>1. LegInv(k)
      BY DEF Attachment
    <2>2. AtItsCell(k)' /\ Detached(k)'
      BY <1>1, <2>1 DEF LegInv, AtItsCell, Detached
    <2>3. Responding(k)'
      <3>1. CASE rar[k] # NoRnti
        <4>1. rar[k] \in Rntis /\ ue[k].state = "IDLE_RANDOM_ACCESS"
              /\ ctx[ue[k].cell][rar[k]].state = "INITIAL_RANDOM_ACCESS"
          BY <2>1, <3>1 DEF LegInv, Responding, Typed, AirTyped, SomeRnti
        <4>2. ue[k].cell \in Nodes
          BY <4>1, CellsDiffer DEF Legs
        <4>3. ~(ue[k].cell = c /\ rar[k] = r)
          BY <4>1 DEF InUse
        <4> QED
          BY <1>1, <1>4, <4>1, <4>2, <4>3 DEF Responding
      <3>2. CASE rar[k] = NoRnti
        BY <1>1, <3>2 DEF Responding
      <3> QED
        BY <3>1, <3>2
    <2>4. CASE ue[k].state \notin Attached
      BY <1>1, <2>2, <2>3, <2>4 DEF LegInv, Connecting, Accepted, Attached
    <2>5. CASE ue[k].state \in Attached /\ ContextOf(k)' = ContextOf(k)
      BY <1>1, <2>1, <2>2, <2>3, <2>5
         DEF LegInv, Connecting, Requesting, Answered, Accepted
    <2>6. CASE ue[k].state \in Attached /\ ContextOf(k)' # ContextOf(k)
      BY <1>1, <1>5, <2>1, <2>2, <2>3, <2>6
         DEF LegInv, Connecting, Requesting, Answered, Accepted
    <2> QED
      BY <2>4, <2>5, <2>6
  <1>7. "lte" \in Legs
    BY DEF Legs
  <1>8. LteFirst'
    <2>1. Connected("lte") => Connected("lte")'
      BY <1>1, <1>5, <1>7 DEF Connected, Attached
    <2> QED
      BY <1>1, <2>1 DEF Attachment, LteFirst, DualStarted, ToldToConnect
  <1>9. ContextAsked'
    BY <1>1, <1>5, <1>7 DEF Attachment, ContextAsked, ConnectedStates
  <1> QED
    BY <1>4, <1>6, <1>8, <1>9 DEF Attachment

\* Losses, the ends of the timers, and a change of the SINR.
LEMMA AttachmentExpire ==
    ASSUME Typed, Attachment, Expire \/ (\E k \in Legs : Lose(k)) \/ SinrChanges
    PROVE  Attachment'
  <1>1. CASE Expire
    <2>1. PICK c \in Nodes, r \in Rntis : \/ ConnectionRequestTimeout(c, r)
                                          \/ ConnectionSetupTimeout(c, r)
                                          \/ ConnectionRejectedTimeout(c, r)
      BY <1>1 DEF Expire
    <2> QED
      BY <2>1, AttachmentRemoved
         DEF ConnectionRequestTimeout, ConnectionSetupTimeout, ConnectionRejectedTimeout
  <1>2. ASSUME NEW k \in Legs, Lose(k) PROVE Attachment'
    <2>0. /\ AirTyped /\ Legs = {"lte", "mm"}
      BY DEF Typed, Legs
    <2>1. UNCHANGED <<ue, nas, ctx, rntiOf, s1, srb1, up, x2>>
      BY <1>2 DEF Lose, terminal, contexts
    <2>2. /\ \A j \in Legs : rar'[j] \in {rar[j], NoRnti} /\ srb0'[j] \subseteq srb0[j]
          /\ \A j \in Legs : j # k => rar'[j] = rar[j] /\ srb0'[j] = srb0[j]
      BY <1>2, <2>0 DEF Lose, AirTyped
    <2>3. ASSUME NEW j \in Legs PROVE LegInv(j)'
      <3>1. LegInv(j)
        BY DEF Attachment
      <3> QED
        BY <2>1, <2>2, <3>1
           DEF LegInv, AtItsCell, Responding, Detached, Connecting, Requesting, Answered,
               Accepted, ContextOf
    <2>4. DualStarted' => DualStarted
      BY <2>0, <2>1, <2>2 DEF DualStarted, ToldToConnect
    <2> QED
      BY <2>1, <2>3, <2>4
         DEF Attachment, LteFirst, Connected, ContextAsked, ContextOf, BareContexts,
             ConnectedContextsAreInUse
  <1>3. CASE SinrChanges
    BY <1>3, AttachmentAir
       DEF SinrChanges, terminal, contexts, air, DualStarted, ToldToConnect
  <1> QED
    BY <1>1, <1>2, <1>3

\* A context is replaced by one of the same stage, by a step of a cell that leaves
\* the UE alone.
LEMMA AttachmentContext ==
    ASSUME Typed, Attachment, NEW c \in Nodes, NEW r \in Rntis, NEW x \in Contexts,
           ctx' = [ctx EXCEPT ![c][r] = x], SameStage(ctx[c][r], x),
           Bare(x), UNCHANGED <<ue, rar, rntiOf>>, nas'.active = nas.active,
           \A k \in Legs : srb0'[k] \cap Answers = srb0[k] \cap Answers,
           up'["mm"] = up["mm"],
           \/ up'["lte"] = up["lte"]
           \/ /\ Connected("lte")
              /\ \A m \in Items(up'["lte"]) : m.type \notin {"Request", "SetupCompleted"},
           s1' => s1, DualStarted' => DualStarted \/ Connected("lte")
    PROVE  Attachment'
  <1>1. \A k \in Legs : SameLeg(k)
    BY DEF SameLeg
  <1>2. x.state \in ConnectedStates => ctx[c][r].state \in ConnectedStates
    BY DEF SameStage
  <1>3. /\ BareContexts' /\ ConnectedContextsAreInUse'
        /\ \A d \in Nodes, s \in Rntis :
              ctx'[d][s] = IF d = c /\ s = r THEN x ELSE ctx[d][s]
    BY <1>1, <1>2, ContextsKept
  <1>4. \A d \in Nodes, s \in Rntis : SameStage(ctx[d][s], ctx'[d][s])
    BY <1>3 DEF SameStage
  <1>5. \A k \in Legs : SameCell(k)
    BY <1>4 DEF SameCell
  <1> QED
    BY <1>1, <1>3, <1>5, AttachmentSame

\* A message on an X2 link: the LTE connection is there.
LEMMA OnALink ==
    ASSUME Attachment, NEW a, NEW b, NEW type, Arrives(x2, a, b, type)
    PROVE  Connected("lte")
  BY DEF Arrives, Attachment, LteFirst, DualStarted

\* The steps on the X2 links.
LEMMA AttachmentX2 ==
    ASSUME Typed, Attachment, NEW c \in Cells, X2Step(c)
    PROVE  Attachment'
  <1>0. CellsTyped /\ AirTyped /\ LteCell \in Nodes /\ c \in Nodes
    BY DEF Typed, Nodes
  <1>1. CASE RecvRlcSetupRequest(c)
    <2>1. PICK m : m = Head(x2[<<LteCell, c>>])
      OBVIOUS
    <2>2. CASE ~Known(c, m.rnti)
      BY <1>1, <2>1, <2>2, AttachmentStop DEF RecvRlcSetupRequest
    <2>3. CASE Known(c, m.rnti)
      <3>1. /\ ctx' = [ctx EXCEPT ![c][m.rnti].rlc = @ \cup {m.drb}]
            /\ Arrives(x2, LteCell, c, "RlcSetupRequest")
            /\ UNCHANGED <<ue, nas, rntiOf, s1, rar, srb0, srb1, up>>
        BY <1>1, <2>1, <2>3 DEF RecvRlcSetupRequest, terminal, air
      <3>2. m \in LinkMessages /\ m.type = "RlcSetupRequest"
        BY <1>0, <2>1, <3>1, TypedSent
      <3>3. m.drb \in Drbs /\ m.rnti \in Rntis
        BY <2>3, <3>2, FieldTypes DEF Known, SomeRnti
      <3>4. ctx[c][m.rnti] \in Contexts /\ Bare(ctx[c][m.rnti])
        BY <1>0, <3>3 DEF CellsTyped, Attachment, BareContexts
      <3> DEFINE x == [ctx[c][m.rnti] EXCEPT !.rlc = @ \cup {m.drb}]
      <3>5. x \in Contexts /\ Bare(x) /\ SameStage(ctx[c][m.rnti], x)
        BY <3>3, <3>4 DEF Contexts, Bare, SameStage
      <3>6. ctx' = [ctx EXCEPT ![c][m.rnti] = x]
        BY <3>1
      <3> HIDE DEF x
      <3>7. Connected("lte")
        BY <3>1, OnALink
      <3> QED
        BY <1>0, <3>1, <3>3, <3>5, <3>6, <3>7, AttachmentContext
    <2> QED
      BY <2>2, <2>3
  <1>2. CASE RecvRlcSetupCompleted(c)
    <2>1. PICK d, r : d = Head(x2[<<c, LteCell>>]).drb /\ r = rntiOf[LteCell]
      OBVIOUS
    <2> DEFINE x == [ctx[LteCell][r] EXCEPT !.mcDrbs = @ \cup {d}, !.pendingReconf = FALSE,
                                            !.state = "MC_CONNECTION_RECONFIGURATION"]
    <2>2. CASE ~Known(LteCell, r) \/ d \notin x.drbs
      BY <1>2, <2>1, <2>2, AttachmentStop DEF RecvRlcSetupCompleted
    <2>3. CASE ~(~Known(LteCell, r) \/ d \notin x.drbs)
      <3>1. /\ ctx' = [ctx EXCEPT ![LteCell][r] = x]
            /\ Arrives(x2, c, LteCell, "RlcSetupCompleted")
            /\ UNCHANGED <<ue, nas, rntiOf, s1, rar, srb0, up>>
        BY <1>2, <2>1, <2>3 DEF RecvRlcSetupCompleted, terminal
      <3>2. d \in Drbs
        BY <1>0, <2>1, <3>1, TypedSent, FieldTypes
      <3>3. Connected("lte")
        BY <3>1, OnALink
      <3>4. /\ r \in Rntis /\ ctx[LteCell][r] \in Contexts /\ Bare(ctx[LteCell][r])
            /\ ctx[LteCell][r].state \in ConnectedStates
        BY <2>1, <3>3, LteContextIs DEF Connected
      <3>5. x \in Contexts /\ Bare(x) /\ SameStage(ctx[LteCell][r], x)
        BY <3>2, <3>4 DEF Contexts, UeStates, Bare, SameStage, ConnectedStates
      <3> HIDE DEF x
      <3> QED
        BY <1>0, <3>1, <3>3, <3>4, <3>5, AttachmentContext
    <2> QED
      BY <2>2, <2>3
  <1>3. CASE RecvConnectionSwitchToMmWave(c)
    <2>1. CASE Stop("drbid not found in m_rlcMap")
      BY <2>1, AttachmentStop
    <2>2. CASE /\ x2' = Taken(x2, LteCell, c)
               /\ UNCHANGED <<terminal, contexts, coordinator, sinr, s1, air, bounds, fault>>
      <3>1. Connected("lte")
        BY <1>3, OnALink DEF RecvConnectionSwitchToMmWave
      <3> QED
        BY <2>2, <3>1, AttachmentAir DEF terminal, contexts, air
    <2> QED
      BY <1>3, <2>1, <2>2 DEF RecvConnectionSwitchToMmWave
  <1> QED
    BY <1>1, <1>2, <1>3 DEF X2Step

\* The decision of the coordinator: it touches the connection of the UE only when
\* the context it looks up is a connected one.
LEMMA AttachmentDecision ==
    ASSUME Typed, Attachment, TriggerUeAssociationUpdate
    PROVE  Attachment'
  <1>0. CellsTyped /\ AirTyped /\ LteCell \in Nodes /\ Legs = {"lte", "mm"}
    BY DEF Typed, Nodes, Legs
  <1> DEFINE known == Known(LteCell, rntiOf[LteCell])
  <1>1. CASE LooksUpUe /\ ~known
    BY <1>1, AttachmentStop DEF TriggerUeAssociationUpdate
  <1>2. CASE ~(LooksUpUe /\ ~known)
    <2>0. /\ SwitchToLte \/ SelectBest
          /\ UNCHANGED <<ue, nas, rntiOf, s1, rar, up>>
      BY <1>2 DEF TriggerUeAssociationUpdate, terminal
    <2>1. PICK r, x : r = rntiOf[LteCell] /\ x = ctx[LteCell][r]
      OBVIOUS
    <2>2. known => r \in Rntis /\ x \in Contexts /\ Bare(x)
      BY <1>0, <2>1 DEF Known, CellsTyped, SomeRnti, Attachment, BareContexts
    <2>3. known /\ (x.mcDrbs # {} \/ x.allInOutage) => Connected("lte")
      BY <2>1, <2>2, LteContextConnected DEF Bare
    <2>4. CASE SwitchToLte
      <3>1. known
        BY <1>2, <2>4 DEF SwitchToLte, LooksUpUe
      <3>2. UNCHANGED <<ctx, srb0>>
        BY <2>4 DEF SwitchToLte
      <3>3. CASE x.mcDrbs = {}
        <4>1. UNCHANGED <<x2, srb1>>
          BY <2>1, <2>4, <3>3 DEF SwitchToLte, LteContext
        <4> QED
          BY <2>0, <3>2, <4>1, AttachmentAir DEF DualStarted, ToldToConnect
      <3>4. CASE x.mcDrbs # {}
        BY <2>0, <2>3, <3>1, <3>2, <3>4, AttachmentAir
      <3> QED
        BY <3>3, <3>4
    <2>5. CASE SelectBest
      <3>1. PICK b \in Cells :
                /\ IF Mode = "Ttt" /\ associated /\ usingLte /\ x.allInOutage
                   THEN /\ ctx' = [ctx EXCEPT ![LteCell][r] = EndOutage(@)]
                        /\ srb0' = [srb0 EXCEPT !["lte"] = @ \cup {RrcConnectToMmWave(b)}]
                   ELSE UNCHANGED <<ctx, srb0>>
        BY <2>1, <2>5 DEF SelectBest, LteContext
      <3>2. UNCHANGED <<x2, srb1>>
        BY <2>5 DEF SelectBest
      <3>3. CASE Mode = "Ttt" /\ associated /\ usingLte /\ x.allInOutage
        <4>1. known
          BY <1>2, <2>1, <3>3 DEF LooksUpUe
        <4>2. Connected("lte") /\ r \in Rntis
          BY <2>2, <2>3, <3>3, <4>1
        <4> DEFINE y == EndOutage(x)
        <4>3. y \in Contexts /\ Bare(y) /\ SameStage(x, y)
          BY <2>2, <4>1 DEF EndOutage, Contexts, Bare, SameStage
        <4>4. ctx' = [ctx EXCEPT ![LteCell][r] = y]
          BY <2>1, <3>1, <3>3
        <4> HIDE DEF y
        <4>5. \A k \in Legs : srb0'[k] \cap Answers = srb0[k] \cap Answers
          <5>1. RrcConnectToMmWave(b) \notin Answers
            BY DEF Answers, RrcConnectToMmWave, RrcConnectionSetup, RrcConnectionReject
          <5> QED
            BY <1>0, <3>1, <3>3, <5>1 DEF AirTyped
        <4> QED
          BY <1>0, <2>0, <2>1, <4>2, <4>3, <4>4, <4>5, AttachmentContext
      <3>4. CASE ~(Mode = "Ttt" /\ associated /\ usingLte /\ x.allInOutage)
        BY <2>0, <3>1, <3>2, <3>4, AttachmentAir DEF DualStarted, ToldToConnect
      <3> QED
        BY <3>3, <3>4
    <2> QED
      BY <2>0, <2>4, <2>5
  <1> QED
    BY <1>1, <1>2

\* A message of a connected UE that its LTE cell takes.
LEMMA TakesFromConnected ==
    ASSUME Typed, Attachment, NEW m, up["lte"] # <<>>, m = Head(up["lte"]),
           m.type \notin {"Request", "SetupCompleted"}
    PROVE  /\ Connected("lte")
           /\ TakenUp("lte")["mm"] = up["mm"]
           /\ TakenUp("lte")["lte"] = Tail(up["lte"])
           /\ \A n \in Items(TakenUp("lte")["lte"]) : n.type \notin {"Request", "SetupCompleted"}
  <1>0. AirTyped /\ "lte" \in Legs /\ "mm" \in Legs /\ LegInv("lte")
    BY DEF Typed, Legs, Attachment
  <1>1. /\ m \in Items(up["lte"]) /\ Items(Tail(up["lte"])) \subseteq Items(up["lte"])
        /\ TakenUp("lte")["mm"] = up["mm"] /\ TakenUp("lte")["lte"] = Tail(up["lte"])
    BY <1>0, ItemsTail DEF AirTyped, TakenUp
  <1>2. ue["lte"].state \in Attached
    BY <1>0, SenderIsAttached
  <1>3. Uplink("Request").type = "Request" /\ Uplink("SetupCompleted").type = "SetupCompleted"
    BY MessagesAre
  <1>4. Connected("lte")
    BY <1>0, <1>2, <1>3
       DEF LegInv, Connecting, Requesting, Answered, Accepted, Attached, Connected
  <1> QED
    BY <1>1, <1>4, LteContextIs

\* The context that SwitchToState (CONNECTED_NORMALLY) leaves.
Normally(x, outage) == NoteOutage(
    [x EXCEPT !.pendingConnect = FALSE, !.pendingReconf = FALSE,
              !.state = IF x.pendingReconf THEN "CONNECTION_RECONFIGURATION"
                                           ELSE "CONNECTED_NORMALLY"],
    outage)

\* The fields of that context.
LEMMA NormallyIs ==
    ASSUME NEW x \in Contexts, NEW outage \in BOOLEAN
    PROVE  LET y == Normally(x, outage)
           IN  /\ y \in Contexts /\ ~y.pendingConnect /\ ~y.pendingReconf
               /\ y.state = IF x.pendingReconf THEN "CONNECTION_RECONFIGURATION"
                                               ELSE "CONNECTED_NORMALLY"
               /\ y.allInOutage = (x.allInOutage \/ outage)
               /\ y.available = x.available /\ y.mmCell = x.mmCell
               /\ y.mmRnti = x.mmRnti /\ y.drbs = x.drbs /\ y.mcDrbs = x.mcDrbs
               /\ y.rlc = x.rlc
  BY DEF Normally, NoteOutage, Contexts, UeStates

\* The steps of the cells that set up the bearers.
LEMMA AttachmentBearers ==
    ASSUME Typed, Attachment, BearersStep
    PROVE  Attachment'
  <1>0. CellsTyped /\ AirTyped /\ LteCell \in Nodes /\ Legs = {"lte", "mm"} /\ LegInv("lte")
    BY DEF Typed, Nodes, Legs, Attachment
  <1>1. CASE InitialContextSetup
    <2>1. PICK r, x : r = rntiOf[LteCell] /\ x = ctx[LteCell][r]
      OBVIOUS
    <2>2. CASE x.state \in {"NONE", "CONNECTION_REJECTED", "MC_CONNECTION_RECONFIGURATION"}
      BY <1>1, <2>1, <2>2, AttachmentStop DEF InitialContextSetup
    <2>3. CASE x.state \notin {"NONE", "CONNECTION_REJECTED",
                               "MC_CONNECTION_RECONFIGURATION"}
      <3> DEFINE now == x.state = "CONNECTED_NORMALLY"
                 y == [x EXCEPT !.drbs = Drbs, !.pendingReconf = ~now \/ Drbs # {FirstDrb},
                          !.state = IF now THEN "CONNECTION_RECONFIGURATION" ELSE @]
      <3>1. ctx' = [ctx EXCEPT ![LteCell][r] = y]
        BY <1>1, <2>1, <2>3 DEF InitialContextSetup
      <3>2. /\ srb1' # <<>> => srb1 # <<>> \/ now
            /\ s1' = FALSE /\ s1
            /\ UNCHANGED <<ue, nas, rntiOf, rar, srb0, up, x2>>
        BY <1>1, <2>1, <2>3 DEF InitialContextSetup, terminal
      <3>3. r = ue["lte"].rnti /\ ue["lte"].state \in Attached
        BY <2>1, <3>2 DEF Attachment, ContextAsked
      <3>4. r \in Rntis /\ x \in Contexts /\ Bare(x)
        BY <1>0, <2>1, <3>3, LegLocated DEF CellsTyped, Attachment, BareContexts
      <3>5. y \in Contexts /\ Bare(y) /\ SameStage(x, y)
        BY <3>4 DEF Contexts, UeStates, Bare, SameStage, ConnectedStates
      <3>6. now => Connected("lte")
        BY <2>1, <3>4, LteContextConnected DEF ConnectedStates
      <3>7. DualStarted' => DualStarted \/ Connected("lte")
        BY <3>2, <3>6 DEF DualStarted, ToldToConnect
      <3> HIDE DEF y, now
      <3> QED
        BY <1>0, <2>1, <3>1, <3>2, <3>4, <3>5, <3>7, AttachmentContext
    <2> QED
      BY <2>2, <2>3
  <1>2. CASE RecvSecondaryCellConnected
    <2>1. CASE ContextOf("lte").state = "NONE"
      BY <1>2, <2>1, AttachmentStop DEF RecvSecondaryCellConnected
    <2>2. CASE ContextOf("lte").state # "NONE"
      <3>1. PICK m, y, r : m = Head(up["lte"]) /\ y = ContextOf("lte") /\ r = ue["lte"].rnti
        OBVIOUS
      <3> DEFINE x == [y EXCEPT !.mmCell = m.cell, !.mmRnti = m.rnti,
                                !.available = @ \/ y.drbs = {}]
      <3>2. /\ ctx' = WithContext("lte", x)
            /\ up' = TakenUp("lte") /\ up["lte"] # <<>>
            /\ m.type = "SecondaryCellConnected"
            /\ UNCHANGED <<ue, nas, rntiOf, s1, rar, srb0, srb1>>
        BY <1>2, <2>2, <3>1 DEF RecvSecondaryCellConnected, ArrivesUp, terminal
      <3>3. /\ Connected("lte") /\ up'["mm"] = up["mm"]
            /\ \A n \in Items(up'["lte"]) : n.type \notin {"Request", "SetupCompleted"}
        BY <3>1, <3>2, TakesFromConnected
      <3>4. /\ r \in Rntis /\ y \in Contexts /\ y = ctx[LteCell][r] /\ Bare(y)
            /\ ue["lte"].cell = LteCell /\ y.state \in ConnectedStates
        BY <3>1, <3>3, LteContextIs DEF Connected
      <3>5. m.cell \in SomeCell /\ m.rnti \in SomeRnti
        BY <1>0, <3>1, <3>2, TypedSent, FieldTypes
      <3>6. x \in Contexts /\ Bare(x) /\ SameStage(y, x)
        BY <3>4, <3>5 DEF Contexts, SomeCell, SomeRnti, Bare, SameStage
      <3>7. ctx' = [ctx EXCEPT ![LteCell][r] = x]
        BY <3>1, <3>2, <3>4 DEF WithContext
      <3> HIDE DEF x
      <3> QED
        BY <1>0, <3>2, <3>3, <3>4, <3>6, <3>7, AttachmentContext
    <2> QED
      BY <2>1, <2>2
  <1>3. CASE RecvReconfigurationCompleted
    <2>1. PICK x, r : x = ContextOf("lte") /\ r = ue["lte"].rnti
      OBVIOUS
    <2>2. CASE x.state \notin ConnectedStates
      BY <1>3, <2>1, <2>2, AttachmentStop DEF RecvReconfigurationCompleted
    <2>3. CASE x.state \in ConnectedStates
      <3>1. /\ up' = TakenUp("lte") /\ up["lte"] # <<>> /\ Head(up["lte"]).type = "ReconfCompleted"
            /\ UNCHANGED <<ue, nas, rntiOf, s1, rar>>
        BY <1>3, <2>1, <2>3 DEF RecvReconfigurationCompleted, ArrivesUp, terminal
      <3>2. /\ Connected("lte") /\ up'["mm"] = up["mm"]
            /\ \A n \in Items(up'["lte"]) : n.type \notin {"Request", "SetupCompleted"}
        BY <3>1, TakesFromConnected
      <3>3. /\ r \in Rntis /\ x \in Contexts /\ x = ctx[LteCell][r] /\ Bare(x)
            /\ ue["lte"].cell = LteCell
        BY <2>1, <3>2, LteContextIs
      <3>4. CASE x.state = "CONNECTED_NORMALLY"
        <4>1. UNCHANGED <<ctx, srb0>>
          BY <1>3, <2>1, <2>3, <3>4 DEF RecvReconfigurationCompleted
        <4> QED
          BY <3>1, <3>2, <4>1, AttachmentAir
      <3>5. CASE x.state # "CONNECTED_NORMALLY"
        <4>1. PICK onLte : ConnectedNormally("lte", x, onLte)
          BY <1>3, <2>1, <2>3, <3>5 DEF RecvReconfigurationCompleted
        <4> DEFINE good == x.pendingConnect /\ sinr[best] > OutageThreshold
                   outage == x.pendingConnect /\ ~good
                   y == Normally(x, outage)
        <4>2. /\ ctx' = WithContext("lte", y)
              /\ srb0' = IF good THEN [srb0 EXCEPT !["lte"] = @ \cup {RrcConnectToMmWave(best)}]
                                 ELSE srb0
          BY <4>1 DEF ConnectedNormally, Normally
        <4>3. ~good /\ ~outage
          BY <3>3 DEF Bare
        <4>4. y \in Contexts /\ Bare(y) /\ SameStage(x, y)
          <5>1. outage \in BOOLEAN
            BY <4>3
          <5> HIDE DEF outage
          <5>2. /\ y \in Contexts /\ ~y.pendingConnect
                /\ y.state \in {"CONNECTION_RECONFIGURATION", "CONNECTED_NORMALLY"}
            BY <3>3, <5>1, NormallyIs
          <5> QED
            BY <2>3, <5>2 DEF Bare, SameStage, ConnectedStates
        <4> HIDE DEF y, good
        <4>5. ctx' = [ctx EXCEPT ![LteCell][r] = y] /\ srb0' = srb0
          BY <2>1, <3>3, <4>2, <4>3 DEF WithContext
        <4> QED
          BY <1>0, <3>1, <3>2, <3>3, <4>4, <4>5, AttachmentContext
      <3> QED
        BY <3>4, <3>5
    <2> QED
      BY <2>2, <2>3
  <1> QED
    BY <1>1, <1>2, <1>3 DEF BearersStep

\* Every step keeps the attachment.
LEMMA AttachmentStep ==
    ASSUME Typed, Attachment, [Next]_vars
    PROVE  Attachment'
  <1>1. CASE Next
    <2>1. CASE \E k \in Legs : UeStep(k) \/ CellStep(k)
      BY <2>1, AttachmentUeStep, AttachmentCellStep
    <2>2. CASE UeConfigured \/ RandomAccessFailed
      BY <2>2, AttachmentConfigured
    <2>3. CASE BearersStep
      BY <2>3, AttachmentBearers
    <2>4. CASE \E c \in Cells : X2Step(c)
      BY <2>4, AttachmentX2
    <2>5. CASE Expire \/ (\E k \in Legs : Lose(k)) \/ SinrChanges
      BY <2>5, AttachmentExpire
    <2>6. CASE TriggerUeAssociationUpdate
      BY <2>6, AttachmentDecision
    <2> QED
      BY <1>1, <2>1, <2>2, <2>3, <2>4, <2>5, <2>6 DEF Next
  <1>2. CASE UNCHANGED vars
    <2>1. UNCHANGED <<ue, nas, ctx, rntiOf, s1, rar, srb0, srb1, up, x2>>
      BY <1>2 DEF vars, terminal, contexts, air
    <2> QED
      BY <2>1, AttachmentAir DEF DualStarted, ToldToConnect
  <1> QED
    BY <1>1, <1>2

\* The attachment of both legs, on every step of every run.
LEMMA AttachmentAlways == Spec => [](Typed /\ Attachment)
  <1>1. Init => Typed /\ Attachment
    BY TypedInit, AttachmentInit
  <1>2. Typed /\ Attachment /\ [Next]_vars => (Typed /\ Attachment)'
    BY TypedStep, AttachmentStep
  <1> QED
    BY <1>1, <1>2, PTL DEF Spec

\* ConnectedContextsAreInUse holds, whatever is lost, however often the UE tries
\* again and whichever contexts the cells hold from its earlier attempts.
THEOREM ContextsAreInUse == Spec => []ConnectedContextsAreInUse
  <1>1. Attachment => ConnectedContextsAreInUse
    BY DEF Attachment
  <1> QED
    BY <1>1, AttachmentAlways, PTL

-----------------------------------------------------------------------------
(***************************************************************************)
(* The command to connect to an mmWave cell, and the report that the UE is *)
(* connected there: the NAS keeps the cell of the command until the        *)
(* connection is there, so there must never be a second command.           *)
(***************************************************************************)
Commands == {m \in srb0["lte"] : m.type = "ConnectToMmWave"}

OneCommand ==
    /\ nas.cell = ue["mm"].cell
    /\ \A m, n \in Commands : m = n
    /\ Commands # {} => nas.cell = NoCell
    /\ nas.cell # NoCell \/ Commands # {} =>
          \A r \in Rntis : ~ctx[LteCell][r].allInOutage

\* The UE is connected to mmWave cell c with RNTI r.
ServedBy(c, r) ==
    /\ ue["mm"].state = "CONNECTED_NORMALLY"
    /\ ue["mm"].cell = c /\ ue["mm"].rnti = r

Reports ==
    /\ \A m \in Items(up["lte"]) :
          m.type = "SecondaryCellConnected" => ServedBy(m.cell, m.rnti)
    /\ ReportNamesServingCell

Reporting == OneCommand /\ Reports

\* What a context may forget: an outage, or the secondary cell.
SameReport(old, new) ==
    /\ new.allInOutage => old.allInOutage
    /\ new.mmCell # NoCell => new.mmCell = old.mmCell /\ new.mmRnti = old.mmRnti

\* A step that gives no command and sends no report.
LEMMA ReportingKept ==
    ASSUME Reporting,
           nas'.cell = nas.cell, ue'["mm"].cell = ue["mm"].cell,
           ue["mm"].state = "CONNECTED_NORMALLY" => SameLeg("mm"),
           Commands' \subseteq Commands,
           \A r \in Rntis : SameReport(ctx[LteCell][r], ctx'[LteCell][r]),
           \A m \in Items(up'["lte"]) :
               m.type = "SecondaryCellConnected" => m \in Items(up["lte"])
    PROVE  Reporting'
  <1>1. OneCommand'
    <2>1. nas'.cell = ue'["mm"].cell /\ \A m, n \in Commands' : m = n
      BY DEF Reporting, OneCommand
    <2>2. Commands' # {} => nas'.cell = NoCell
      BY DEF Reporting, OneCommand
    <2>3. nas'.cell # NoCell \/ Commands' # {} =>
              \A r \in Rntis : ~ctx'[LteCell][r].allInOutage
      BY DEF Reporting, OneCommand, SameReport
    <2> QED
      BY <2>1, <2>2, <2>3 DEF OneCommand
  <1>2. \A c, r : ServedBy(c, r) => ServedBy(c, r)'
    BY DEF ServedBy, SameLeg
  <1>3. \A m \in Items(up'["lte"]) :
            m.type = "SecondaryCellConnected" => ServedBy(m.cell, m.rnti)'
    BY <1>2 DEF Reporting, Reports
  <1>4. ReportNamesServingCell'
    <2> SUFFICES ASSUME NEW r \in Rntis, ctx'[LteCell][r].mmCell # NoCell
                 PROVE  /\ ue'["mm"].state = "CONNECTED_NORMALLY"
                        /\ ctx'[LteCell][r].mmCell = ue'["mm"].cell
                        /\ ctx'[LteCell][r].mmRnti = ue'["mm"].rnti
      BY DEF ReportNamesServingCell
    <2>1. /\ ctx'[LteCell][r].mmCell = ctx[LteCell][r].mmCell
          /\ ctx'[LteCell][r].mmRnti = ctx[LteCell][r].mmRnti
      BY DEF SameReport
    <2>2. /\ ue["mm"].state = "CONNECTED_NORMALLY"
          /\ ctx[LteCell][r].mmCell = ue["mm"].cell
          /\ ctx[LteCell][r].mmRnti = ue["mm"].rnti
      BY <2>1 DEF Reporting, Reports, ReportNamesServingCell
    <2> QED
      BY <2>1, <2>2 DEF SameLeg
  <1> QED
    BY <1>1, <1>3, <1>4 DEF Reporting, Reports

\* Nothing is reported at the start.
LEMMA ReportingInit == Init => Reporting
  <1> SUFFICES ASSUME Init PROVE Reporting
    OBVIOUS
  <1>1. \A r \in Rntis : ctx[LteCell][r] = NoContext
    BY DEF Init, Nodes
  <1>2. Commands = {} /\ up["lte"] = <<>>
    BY DEF Init, Commands, Legs
  <1>3. nas.cell = NoCell /\ ue["mm"].cell = NoCell
    BY DEF Init, Legs
  <1>4. OneCommand
    BY <1>1, <1>2, <1>3 DEF OneCommand, NoContext
  <1>5. Items(up["lte"]) = {}
    BY <1>2 DEF Items
  <1>6. ReportNamesServingCell
    BY <1>1 DEF ReportNamesServingCell, NoContext
  <1> QED
    BY <1>4, <1>5, <1>6 DEF Reporting, Reports

\* Nothing is reported when an assertion ends the simulation.
LEMMA ReportingStop ==
    ASSUME Reporting, NEW why, Stop(why)
    PROVE  Reporting'
  BY DEF Stop, Reporting, OneCommand, Commands, Reports, ReportNamesServingCell, ServedBy,
         terminal, contexts, air

\* The contexts of the LTE cell, when one is replaced.
LEMMA ReportsOfContexts ==
    ASSUME Typed, NEW c \in Nodes, NEW r \in Rntis, NEW x \in Contexts,
           ctx' = [ctx EXCEPT ![c][r] = x],
           c = LteCell => SameReport(ctx[c][r], x)
    PROVE  \A s \in Rntis : SameReport(ctx[LteCell][s], ctx'[LteCell][s])
  <1>1. \A d \in Nodes, s \in Rntis :
            ctx'[d][s] = IF d = c /\ s = r THEN x ELSE ctx[d][s]
    BY ContextSet DEF Typed
  <1>2. LteCell \in Nodes
    BY DEF Nodes
  <1> QED
    BY <1>1, <1>2 DEF SameReport

\* The steps of the UE's RRCs.
LEMMA ReportingUeStep ==
    ASSUME Typed, Attachment, Reporting, NEW k \in Legs, UeStep(k)
    PROVE  Reporting'
  <1>0. /\ UeTyped /\ AirTyped /\ LegInv(k) /\ ue[k] \in UeRrcs
        /\ ue \in [Legs -> UeRrcs] /\ Legs = {"lte", "mm"}
    BY UeFields, CellsDiffer DEF Typed, UeTyped, Attachment
  <1>1. ASSUME NEW u, ue' = [ue EXCEPT ![k] = u], u.cell = ue[k].cell,
               ue[k].state = "CONNECTED_NORMALLY" =>
                   u.state = ue[k].state /\ u.rnti = ue[k].rnti,
               nas' = nas, ctx' = ctx, srb0' = srb0, up' = up
        PROVE  Reporting'
    <2>1. ue'[k] = u /\ \A j \in Legs : j # k => ue'[j] = ue[j]
      BY <1>0, <1>1
    <2>2. ue'["mm"].cell = ue["mm"].cell
      BY <1>0, <1>1, <2>1
    <2>3. ue["mm"].state = "CONNECTED_NORMALLY" => SameLeg("mm")
      BY <1>0, <1>1, <2>1 DEF SameLeg
    <2>4. Commands' = Commands
      BY <1>1 DEF Commands
    <2> QED
      BY <1>1, <2>2, <2>3, <2>4, ReportingKept DEF SameReport
  <1>2. CASE RecvMib(k)
    <2>1. PICK u : u = Camp(ue[k])
      OBVIOUS
    <2>2. u.cell = ue[k].cell
      BY <1>0, <2>1, CampStates
    <2> QED
      BY <1>1, <1>2, <2>1, <2>2 DEF RecvMib, contexts, air
  <1>3. CASE RecvSib2(k)
    <2> DEFINE v == [ue[k] EXCEPT !.sib2 = TRUE]
    <2>1. PICK u : u = IF v.state = "IDLE_WAIT_SIB2" THEN StartConnection(v) ELSE v
      OBVIOUS
    <2>2. /\ u.cell = ue[k].cell
          /\ ue[k].state = "CONNECTED_NORMALLY" => u.state = ue[k].state /\ u.rnti = ue[k].rnti
      BY <1>0, <2>1 DEF UeRrcs, StartConnection
    <2> QED
      BY <1>1, <1>3, <2>1, <2>2 DEF RecvSib2, contexts, air
  <1>4. CASE RandomAccessSuccessful(k)
    <2>1. PICK u : u = [ue[k] EXCEPT !.state = "IDLE_CONNECTING", !.rnti = rar[k]]
      OBVIOUS
    <2>2. /\ ue' = [ue EXCEPT ![k] = u] /\ rar[k] # NoRnti
          /\ up' = [up EXCEPT ![k] = Append(@, Uplink("Request"))]
          /\ UNCHANGED <<nas, ctx, srb0>>
      BY <1>4, <2>1 DEF RandomAccessSuccessful, contexts
    <2>3. u.cell = ue[k].cell /\ ue[k].state # "CONNECTED_NORMALLY"
      BY <1>0, <2>1, <2>2 DEF UeRrcs, LegInv, Responding
    <2>4. ue'[k] = u /\ \A j \in Legs : j # k => ue'[j] = ue[j]
      BY <1>0, <2>2
    <2>5. \A m \in Items(up'["lte"]) :
              m.type = "SecondaryCellConnected" => m \in Items(up["lte"])
      BY <1>0, <2>2, ItemsAppend, MessagesAre DEF AirTyped
    <2>6. Commands' = Commands
      BY <2>2 DEF Commands
    <2> QED
      BY <1>0, <2>2, <2>3, <2>4, <2>5, <2>6, ReportingKept DEF SameLeg, SameReport
  <1>5. CASE UeRecvRrcConnectionSetup(k)
    <2>1. /\ RrcConnectionSetup \in srb0[k] /\ ue[k].state = "IDLE_CONNECTING"
      BY <1>0, <1>5, AnswerFinds DEF UeRecvRrcConnectionSetup
    <2> DEFINE u == [up EXCEPT ![k] = Append(@, Uplink("SetupCompleted"))]
    <2>0. PICK m : m = SecondaryCellConnected(nas.cell, ue[k].rnti)
      OBVIOUS
    <2>2. /\ ue' = [ue EXCEPT ![k].state = "CONNECTED_NORMALLY"]
          /\ nas'.cell = nas.cell
          /\ up' = IF nas.active THEN [u EXCEPT !["lte"] = Append(@, m)] ELSE u
          /\ srb0' = [srb0 EXCEPT ![k] = @ \ {RrcConnectionSetup}]
          /\ UNCHANGED ctx
      BY <1>0, <1>5, <2>0, <2>1 DEF UeRecvRrcConnectionSetup, contexts, UeTyped
    <2>3. /\ ue'[k].cell = ue[k].cell /\ ue'[k].rnti = ue[k].rnti
          /\ ue'[k].state = "CONNECTED_NORMALLY"
          /\ \A j \in Legs : j # k => ue'[j] = ue[j]
      BY <1>0, <2>2 DEF UeTyped, UeRrcs
    <2>4. Commands' \subseteq Commands
      BY <1>0, <2>2 DEF Commands, AirTyped
    <2>5. /\ \A n \in Items(u["lte"]) :
                n.type = "SecondaryCellConnected" => n \in Items(up["lte"])
          /\ u \in [Legs -> Seq(UplinkMessages)]
      <3>1. Uplink("SetupCompleted") \in UplinkMessages
            /\ Uplink("SetupCompleted").type # "SecondaryCellConnected"
        BY MessagesAre
      <3>2. Append(up[k], Uplink("SetupCompleted")) \in Seq(UplinkMessages)
        BY <1>0, <3>1, ItemsAppend DEF AirTyped
      <3> QED
        BY <1>0, <3>1, <3>2, ItemsAppend DEF AirTyped
    <2> HIDE DEF u
    <2>6. CASE k = "lte"
      <3>1. ~nas.active
        BY <2>1, <2>6 DEF Attachment, LteFirst
      <3>2. up' = u
        BY <2>2, <3>1
      <3> QED
        BY <1>0, <2>2, <2>3, <2>4, <2>5, <2>6, <3>2, ReportingKept DEF SameLeg, SameReport
    <2>7. CASE k = "mm"
      <3>1. nas.cell = ue["mm"].cell
        BY DEF Reporting, OneCommand
      <3>2. m \in UplinkMessages /\ m.cell = nas.cell /\ m.rnti = ue["mm"].rnti
        BY <1>0, <2>0, <2>7, UeFields, MessagesAre
      <3>3. ServedBy(m.cell, m.rnti)'
        BY <2>3, <2>7, <3>1, <3>2 DEF ServedBy
      <3>4. \A n \in Items(up'["lte"]) : n.type = "SecondaryCellConnected" =>
                n = m \/ n \in Items(up["lte"])
        <4>1. u["lte"] \in Seq(UplinkMessages)
          BY <1>0, <2>5
        <4>2. Items(Append(u["lte"], m)) = Items(u["lte"]) \cup {m}
          BY <3>2, <4>1, ItemsAppend
        <4>3. up'["lte"] = u["lte"] \/ up'["lte"] = Append(u["lte"], m)
          BY <1>0, <2>2, <2>5
        <4> QED
          BY <2>5, <4>2, <4>3
      <3>5. OneCommand'
        BY <2>2, <2>3, <2>4, <2>7 DEF Reporting, OneCommand
      <3>6. \A c, r : ~ServedBy(c, r)
        BY <2>1, <2>7 DEF ServedBy
      <3>7. \A n \in Items(up'["lte"]) :
                n.type = "SecondaryCellConnected" => ServedBy(n.cell, n.rnti)'
        BY <3>3, <3>4, <3>6 DEF Reporting, Reports
      <3>8. ReportNamesServingCell'
        <4>1. \A r \in Rntis : ctx[LteCell][r].mmCell = NoCell
          BY <2>1, <2>7 DEF Reporting, Reports, ReportNamesServingCell
        <4> QED
          BY <2>2, <4>1 DEF ReportNamesServingCell
      <3> QED
        BY <3>5, <3>7, <3>8 DEF Reporting, Reports
    <2> QED
      BY <1>0, <2>6, <2>7
  <1>6. ASSUME ue[k].state = "IDLE_CONNECTING", ConnectionFailed(k),
               \A j \in Legs : srb0'[j] \subseteq srb0[j], UNCHANGED <<nas, ctx, up>>
        PROVE  Reporting'
    <2>1. PICK u : u = Camp([ue[k] EXCEPT !.sib2 = FALSE])
      OBVIOUS
    <2>2. u.cell = ue[k].cell
      BY <1>0, <2>1, CampStates
    <2>3. ue'[k] = u /\ \A j \in Legs : j # k => ue'[j] = ue[j]
      BY <1>0, <1>6, <2>1 DEF ConnectionFailed
    <2>4. Commands' \subseteq Commands
      BY <1>0, <1>6 DEF Commands
    <2> QED
      BY <1>0, <1>6, <2>2, <2>3, <2>4, ReportingKept DEF SameLeg, SameReport
  <1>7. CASE UeRecvRrcConnectionReject(k)
    <2>1. ue[k].state = "IDLE_CONNECTING"
      BY <1>0, <1>7, AnswerFinds DEF UeRecvRrcConnectionReject
    <2>2. \A j \in Legs : srb0'[j] \subseteq srb0[j]
      BY <1>0, <1>7 DEF UeRecvRrcConnectionReject, AirTyped
    <2> QED
      BY <1>6, <1>7, <2>1, <2>2 DEF UeRecvRrcConnectionReject, contexts
  <1>8. CASE ConnectionTimeout(k)
    BY <1>6, <1>8 DEF ConnectionTimeout, contexts, air
  <1> QED
    BY <1>2, <1>3, <1>4, <1>5, <1>7, <1>8 DEF UeStep

\* A step of the cells that leaves the UE alone and gives no command.
LEMMA ReportingContext ==
    ASSUME Typed, Reporting, NEW c \in Nodes, NEW r \in Rntis, NEW x \in Contexts,
           ctx' = [ctx EXCEPT ![c][r] = x],
           c = LteCell => SameReport(ctx[c][r], x),
           UNCHANGED <<ue, nas>>, Commands' \subseteq Commands,
           \A m \in Items(up'["lte"]) :
               m.type = "SecondaryCellConnected" => m \in Items(up["lte"])
    PROVE  Reporting'
  <1>1. \A s \in Rntis : SameReport(ctx[LteCell][s], ctx'[LteCell][s])
    BY ReportsOfContexts
  <1>2. SameLeg("mm")
    BY DEF SameLeg
  <1> QED
    BY <1>1, <1>2, ReportingKept

\* The same, when the contexts do not change either.
LEMMA ReportingAir ==
    ASSUME Reporting, UNCHANGED <<ue, nas, ctx>>, Commands' \subseteq Commands,
           \A m \in Items(up'["lte"]) :
               m.type = "SecondaryCellConnected" => m \in Items(up["lte"])
    PROVE  Reporting'
  BY ReportingKept DEF SameLeg, SameReport

\* While nothing of the dual connection has started, no context is in outage.
LEMMA NoOutageBefore ==
    ASSUME Typed, Attachment, Reporting, ~Connected("lte")
    PROVE  /\ nas.cell = NoCell /\ Commands = {}
           /\ \A r \in Rntis : ~ctx[LteCell][r].allInOutage /\ ctx[LteCell][r].mmCell = NoCell
  <1>1. ~DualStarted
    BY DEF Attachment, LteFirst
  <1>2. ue["mm"].state = "IDLE_START" /\ Commands = {}
    BY <1>1 DEF DualStarted, ToldToConnect, Commands
  <1>3. nas.cell = NoCell
    BY <1>2 DEF Attachment, LegInv, AtItsCell, Legs, Reporting, OneCommand
  <1>4. \A r \in Rntis : ctx[LteCell][r].state \notin ConnectedStates
    BY LteContextConnected
  <1> QED
    BY <1>2, <1>3, <1>4 DEF Attachment, BareContexts, Bare, Nodes

\* The steps of the cells during random access and connection set-up.
LEMMA ReportingCellStep ==
    ASSUME Typed, Attachment, Reporting, NEW k \in Legs, CellStep(k)
    PROVE  Reporting'
  <1>0. /\ CellsTyped /\ AirTyped /\ LegInv(k) /\ Legs = {"lte", "mm"}
        /\ k = "lte" => ue[k].cell = LteCell
        /\ k = "mm" => ue[k].cell # LteCell
    BY CellsDiffer DEF Typed, Attachment
  <1>1. CASE AllocateTemporaryCellRnti(k)
    <2>1. CASE FreeSteps(ue[k].cell) = {}
      BY <1>1, <2>1, ReportingStop DEF AllocateTemporaryCellRnti
    <2>2. CASE FreeSteps(ue[k].cell) # {}
      <3> DEFINE x == [NoContext EXCEPT !.state = "INITIAL_RANDOM_ACCESS"]
      <3>0. PICK c : c = ue[k].cell
        OBVIOUS
      <3>1. PICK r \in Rntis :
                /\ ctx' = [ctx EXCEPT ![c][r] = x]
                /\ UNCHANGED <<ue, nas, srb0, up>>
                /\ ue[k].state = "IDLE_RANDOM_ACCESS"
        BY <1>1, <2>2, <3>0 DEF AllocateTemporaryCellRnti, terminal
      <3>2. x \in Contexts /\ SameReport(ctx[c][r], x)
        BY ContextFields DEF UeStates, SameReport, NoContext
      <3>3. c \in Nodes
        BY <1>0, <3>0, <3>1, CellsDiffer DEF Legs
      <3> HIDE DEF x
      <3> QED
        BY <3>1, <3>2, <3>3, ReportingContext DEF Commands
    <2> QED
      BY <2>1, <2>2
  <1>2. CASE RecvRrcConnectionRequest(k)
    <2>1. CASE ContextOf(k).state # "INITIAL_RANDOM_ACCESS"
      BY <1>2, <2>1, ReportingStop DEF RecvRrcConnectionRequest
    <2>2. CASE ContextOf(k).state = "INITIAL_RANDOM_ACCESS"
      <3>1. PICK st, answer :
                /\ ctx' = WithContext(k, [ContextOf(k) EXCEPT !.state = st])
                /\ st \in UeStates /\ answer \in Answers
                /\ srb0' = [srb0 EXCEPT ![k] = @ \cup {answer}]
                /\ up' = TakenUp(k) /\ up[k] # <<>>
                /\ UNCHANGED <<ue, nas>>
        BY <1>2, <2>2 DEF RecvRrcConnectionRequest, ArrivesUp, terminal, UeStates, Answers
      <3>2. PICK c, r, x : c = ue[k].cell /\ r = ue[k].rnti /\ x = [ContextOf(k) EXCEPT !.state = st]
        OBVIOUS
      <3>3. /\ c \in Nodes /\ r \in Rntis /\ ContextOf(k) \in Contexts
            /\ ContextOf(k) = ctx[c][r]
        BY <1>0, <3>1, <3>2, LegLocated, SenderIsAttached DEF ContextOf
      <3>4. x \in Contexts /\ SameReport(ctx[c][r], x)
        BY <3>1, <3>2, <3>3 DEF Contexts, SameReport
      <3>5. ctx' = [ctx EXCEPT ![c][r] = x]
        BY <3>1, <3>2 DEF WithContext
      <3>6. Commands' \subseteq Commands
        <4>1. answer.type # "ConnectToMmWave"
          BY <3>1, MessagesAre DEF Answers
        <4> QED
          BY <1>0, <3>1, <4>1 DEF Commands, AirTyped
      <3>7. Items(up'["lte"]) \subseteq Items(up["lte"])
        BY <1>0, <3>1, ItemsTail DEF TakenUp, AirTyped
      <3> QED
        BY <3>1, <3>3, <3>4, <3>5, <3>6, <3>7, ReportingContext
    <2> QED
      BY <2>1, <2>2
  <1>3. CASE RecvRrcConnectionSetupCompleted(k)
    <2>1. CASE ContextOf(k).state # "CONNECTION_SETUP"
      BY <1>3, <2>1, ReportingStop DEF RecvRrcConnectionSetupCompleted
    <2>2. CASE ContextOf(k).state = "CONNECTION_SETUP"
      <3> DEFINE w == [ContextOf(k) EXCEPT !.pendingConnect = (k = "lte")]
                 good == w.pendingConnect /\ sinr[best] > OutageThreshold
                 outage == w.pendingConnect /\ ~good
      <3>0. PICK c, r, x : c = ue[k].cell /\ r = ue[k].rnti /\ x = Normally(w, outage)
        OBVIOUS
      <3>1. /\ ctx' = WithContext(k, x)
            /\ srb0' = IF good THEN [srb0 EXCEPT ![k] = @ \cup {RrcConnectToMmWave(best)}]
                               ELSE srb0
            /\ up' = TakenUp(k) /\ up[k] # <<>>
            /\ UNCHANGED <<ue, nas>>
        BY <1>3, <2>2, <3>0
           DEF RecvRrcConnectionSetupCompleted, ArrivesUp, ConnectedNormally, Normally, terminal
      <3>2. /\ c \in Nodes /\ r \in Rntis /\ ContextOf(k) \in Contexts
            /\ ContextOf(k) = ctx[c][r]
        BY <1>0, <3>0, <3>1, LegLocated, SenderIsAttached DEF ContextOf
      <3>3. w \in Contexts /\ w.pendingConnect = (k = "lte")
            /\ w.allInOutage = ctx[c][r].allInOutage /\ w.mmCell = ctx[c][r].mmCell
            /\ w.mmRnti = ctx[c][r].mmRnti
        BY <3>2 DEF Contexts
      <3> HIDE DEF w
      <3>4. /\ x \in Contexts /\ x.allInOutage = (ctx[c][r].allInOutage \/ outage)
            /\ x.mmCell = ctx[c][r].mmCell /\ x.mmRnti = ctx[c][r].mmRnti
        <4>1. outage \in BOOLEAN
          OBVIOUS
        <4> HIDE DEF outage
        <4> QED
          BY <3>0, <3>3, <4>1, NormallyIs
      <3>5. ctx' = [ctx EXCEPT ![c][r] = x]
        BY <3>0, <3>1 DEF WithContext
      <3>6. \A m \in Items(up'["lte"]) : m \in Items(up["lte"])
        BY <1>0, <3>1, ItemsTail DEF TakenUp, AirTyped
      <3>7. CASE k = "mm"
        <4>1. ~good /\ ~outage
          BY <3>3, <3>7
        <4> HIDE DEF good, outage
        <4>2. Commands' \subseteq Commands
          BY <3>1, <4>1 DEF Commands
        <4>3. c # LteCell
          BY <1>0, <3>0, <3>7
        <4> QED
          BY <3>1, <3>2, <3>4, <3>5, <3>6, <4>2, <4>3, ReportingContext
      <3>8. CASE k = "lte"
        <4>1. ~Connected("lte")
          BY <2>2, <3>8 DEF Connected, ConnectedStates
        <4>2. /\ nas.cell = NoCell /\ Commands = {}
              /\ \A s \in Rntis : /\ ~ctx[LteCell][s].allInOutage
                                  /\ ctx[LteCell][s].mmCell = NoCell
          BY <4>1, NoOutageBefore
        <4>3. c = LteCell
          BY <1>0, <3>0, <3>8
        <4>4. \A s \in Rntis : ctx'[LteCell][s] = IF s = r THEN x ELSE ctx[LteCell][s]
          BY <1>0, <3>2, <3>4, <3>5, <4>3, ContextSet
        <4>5. /\ \A m \in Commands' : m = RrcConnectToMmWave(best)
              /\ Commands' # {} => good
          BY <1>0, <3>1, <3>8, <4>2 DEF Commands, AirTyped
        <4>6. good => ~outage
          OBVIOUS
        <4> HIDE DEF good, outage
        <4>7. OneCommand'
          <5>1. nas'.cell = ue'["mm"].cell /\ nas'.cell = NoCell
            BY <3>1, <4>2 DEF Reporting, OneCommand
          <5>2. Commands' # {} => \A s \in Rntis : ~ctx'[LteCell][s].allInOutage
            BY <3>2, <3>4, <4>2, <4>3, <4>4, <4>5, <4>6
          <5>3. \A m, n \in Commands' : m = n
            <6>1. PICK b : b = RrcConnectToMmWave(best)
              OBVIOUS
            <6> QED
              BY <4>5, <6>1
          <5> QED
            BY <5>1, <5>2, <5>3 DEF OneCommand
        <4>8. Reports'
          <5>1. ReportNamesServingCell'
            BY <3>2, <3>4, <4>2, <4>3, <4>4 DEF ReportNamesServingCell
          <5>2. \A m \in Items(up'["lte"]) :
                    m.type = "SecondaryCellConnected" => ServedBy(m.cell, m.rnti)'
            BY <3>1, <3>6 DEF Reporting, Reports, ServedBy
          <5> QED
            BY <5>1, <5>2 DEF Reports
        <4> QED
          BY <4>7, <4>8 DEF Reporting
      <3> QED
        BY <1>0, <3>7, <3>8
    <2> QED
      BY <2>1, <2>2
  <1> QED
    BY <1>1, <1>2, <1>3 DEF CellStep

\* The calls of the UE's NAS and the messages of its bearers.
LEMMA ReportingConfigured ==
    ASSUME Typed, Attachment, Reporting, UeConfigured \/ RandomAccessFailed
    PROVE  Reporting'
  <1>0. /\ UeTyped /\ AirTyped /\ Legs = {"lte", "mm"}
        /\ LegInv("lte") /\ LegInv("mm")
        /\ ue["lte"] \in UeRrcs /\ ue["mm"] \in UeRrcs
    BY UeFields, CellsDiffer DEF Typed, Attachment
  <1>1. CASE RetryConnect \/ RandomAccessFailed
    <2>1. ue'["mm"] = ue["mm"] /\ UNCHANGED <<nas, ctx, srb0, up>>
      BY <1>0, <1>1 DEF RetryConnect, RandomAccessFailed, contexts, air, UeTyped
    <2> QED
      BY <2>1, ReportingKept DEF Commands, SameLeg, SameReport
  <1>2. CASE UeRecvRrcConnectToMmWave
    <2>1. PICK m \in srb0["lte"] :
              /\ m.type = "ConnectToMmWave"
              /\ nas' = [nas EXCEPT !.cell = m.cell]
              /\ ue' = [ue EXCEPT !["mm"] = Connect(ForceCampedOnEnb(@, m.cell))]
              /\ srb0' = [srb0 EXCEPT !["lte"] = @ \ {m}]
              /\ UNCHANGED <<ctx, up>>
      BY <1>2 DEF UeRecvRrcConnectToMmWave, contexts
    <2>2. m.cell \in Cells /\ m \in Commands
      BY <1>0, <2>1, FieldTypes DEF AirTyped, Commands
    <2>3. nas.cell = NoCell /\ ue["mm"].cell = NoCell /\ ue["mm"].state = "IDLE_START"
      <3>1. nas.cell = NoCell /\ ue["mm"].cell = NoCell
        BY <2>2 DEF Reporting, OneCommand
      <3> QED
        BY <1>0, <3>1, CellsAssumption DEF LegInv, AtItsCell, NoCell
    <2>4. PICK u : u = Connect(ForceCampedOnEnb(ue["mm"], m.cell))
      OBVIOUS
    <2>5. u.cell = m.cell
      BY <1>0, <2>2, <2>3, <2>4, ToldStates
    <2>6. ue'["mm"] = u /\ nas'.cell = m.cell
      BY <1>0, <2>1, <2>4 DEF UeTyped
    <2>7. Commands' = {}
      BY <1>0, <2>1, <2>2 DEF Commands, AirTyped, Reporting, OneCommand
    <2>8. OneCommand'
      BY <2>1, <2>2, <2>5, <2>6, <2>7 DEF Reporting, OneCommand
    <2>9. Reports'
      <3>1. \A c, r : ~ServedBy(c, r)
        BY <2>3 DEF ServedBy
      <3>2. \A r \in Rntis : ctx[LteCell][r].mmCell = NoCell
        BY <2>3 DEF Reporting, Reports, ReportNamesServingCell
      <3> QED
        BY <2>1, <3>1, <3>2 DEF Reporting, Reports, ReportNamesServingCell
    <2> QED
      BY <2>8, <2>9 DEF Reporting
  <1>3. CASE UeRecvReconfiguration
    <2>1. CASE ue["lte"].state # "CONNECTED_NORMALLY"
      BY <1>3, <2>1, ReportingStop DEF UeRecvReconfiguration
    <2>2. CASE ue["lte"].state = "CONNECTED_NORMALLY"
      <3>1. /\ up' = [up EXCEPT !["lte"] = Append(@, Uplink("ReconfCompleted"))]
            /\ UNCHANGED <<ue, nas, ctx, srb0>>
        BY <1>3, <2>2 DEF UeRecvReconfiguration, contexts
      <3>2. Items(up'["lte"]) = Items(up["lte"]) \cup {Uplink("ReconfCompleted")}
        BY <1>0, <3>1, MessagesAre, ItemsAppend DEF AirTyped
      <3>3. Uplink("ReconfCompleted").type # "SecondaryCellConnected"
        BY MessagesAre
      <3> QED
        BY <3>1, <3>2, <3>3, ReportingAir DEF Commands
    <2> QED
      BY <2>1, <2>2
  <1>4. CASE UeRecvRrcConnectionSwitch
    BY <1>4, ReportingAir DEF UeRecvRrcConnectionSwitch, contexts, Commands
  <1> QED
    BY <1>1, <1>2, <1>3, <1>4 DEF UeConfigured

\* Losses, the ends of the timers, and a change of the SINR.
LEMMA ReportingExpire ==
    ASSUME Typed, Attachment, Reporting, Expire \/ (\E k \in Legs : Lose(k)) \/ SinrChanges
    PROVE  Reporting'
  <1>1. ASSUME NEW c \in Nodes, NEW r \in Rntis, RemoveUe(c, r) PROVE Reporting'
    <2>1. NoContext \in Contexts /\ SameReport(ctx[c][r], NoContext)
      BY ContextFields DEF NoContext, SameReport
    <2> QED
      BY <1>1, <2>1, ReportingContext DEF RemoveUe, terminal, air, Commands
  <1>2. CASE Expire
    BY <1>1, <1>2 DEF Expire, ConnectionRequestTimeout, ConnectionSetupTimeout,
                      ConnectionRejectedTimeout
  <1>3. ASSUME NEW k \in Legs, Lose(k) PROVE Reporting'
    <2>1. UNCHANGED <<ue, nas, ctx, up>>
      BY <1>3 DEF Lose, terminal, contexts
    <2>2. \A j \in Legs : srb0'[j] \subseteq srb0[j]
      BY <1>3 DEF Lose, Typed, AirTyped
    <2>3. Commands' \subseteq Commands
      BY <2>2 DEF Commands, Legs
    <2> QED
      BY <2>1, <2>3, ReportingAir
  <1>4. CASE SinrChanges
    BY <1>4, ReportingAir DEF SinrChanges, terminal, contexts, air, Commands
  <1> QED
    BY <1>2, <1>3, <1>4

\* The steps on the X2 links.
LEMMA ReportingX2 ==
    ASSUME Typed, Attachment, Reporting, NEW c \in Cells, X2Step(c)
    PROVE  Reporting'
  <1>0. CellsTyped /\ AirTyped /\ LteCell \in Nodes /\ c \in Nodes
    BY DEF Typed, Nodes
  <1>1. CASE RecvRlcSetupRequest(c)
    <2>1. PICK m : m = Head(x2[<<LteCell, c>>])
      OBVIOUS
    <2>2. CASE ~Known(c, m.rnti)
      BY <1>1, <2>1, <2>2, ReportingStop DEF RecvRlcSetupRequest
    <2>3. CASE Known(c, m.rnti)
      <3>1. /\ ctx' = [ctx EXCEPT ![c][m.rnti].rlc = @ \cup {m.drb}]
            /\ Arrives(x2, LteCell, c, "RlcSetupRequest")
            /\ UNCHANGED <<ue, nas, srb0, up>>
        BY <1>1, <2>1, <2>3 DEF RecvRlcSetupRequest, terminal, air
      <3>2. m \in LinkMessages /\ m.type = "RlcSetupRequest"
        BY <1>0, <2>1, <3>1, TypedSent
      <3>3. m.drb \in Drbs /\ m.rnti \in Rntis
        BY <2>3, <3>2, FieldTypes DEF Known, SomeRnti
      <3>4. ctx[c][m.rnti] \in Contexts
        BY <1>0, <3>3 DEF CellsTyped
      <3> DEFINE x == [ctx[c][m.rnti] EXCEPT !.rlc = @ \cup {m.drb}]
      <3>5. x \in Contexts /\ SameReport(ctx[c][m.rnti], x)
        BY <3>3, <3>4 DEF Contexts, SameReport
      <3>6. ctx' = [ctx EXCEPT ![c][m.rnti] = x]
        BY <3>1
      <3> HIDE DEF x
      <3> QED
        BY <1>0, <3>1, <3>3, <3>5, <3>6, ReportingContext DEF Commands
    <2> QED
      BY <2>2, <2>3
  <1>2. CASE RecvRlcSetupCompleted(c)
    <2>1. PICK d, r : d = Head(x2[<<c, LteCell>>]).drb /\ r = rntiOf[LteCell]
      OBVIOUS
    <2> DEFINE x == [ctx[LteCell][r] EXCEPT !.mcDrbs = @ \cup {d}, !.pendingReconf = FALSE,
                                            !.state = "MC_CONNECTION_RECONFIGURATION"]
    <2>2. CASE ~Known(LteCell, r) \/ d \notin x.drbs
      BY <1>2, <2>1, <2>2, ReportingStop DEF RecvRlcSetupCompleted
    <2>3. CASE ~(~Known(LteCell, r) \/ d \notin x.drbs)
      <3>1. /\ ctx' = [ctx EXCEPT ![LteCell][r] = x]
            /\ Arrives(x2, c, LteCell, "RlcSetupCompleted")
            /\ UNCHANGED <<ue, nas, srb0, up>>
        BY <1>2, <2>1, <2>3 DEF RecvRlcSetupCompleted, terminal
      <3>2. d \in Drbs
        BY <1>0, <2>1, <3>1, TypedSent, FieldTypes
      <3>3. r \in Rntis /\ ctx[LteCell][r] \in Contexts
        BY <2>1, <3>1, OnALink, LteContextIs
      <3>4. x \in Contexts /\ SameReport(ctx[LteCell][r], x)
        BY <3>2, <3>3 DEF Contexts, UeStates, SameReport
      <3> HIDE DEF x
      <3> QED
        BY <1>0, <3>1, <3>3, <3>4, ReportingContext DEF Commands
    <2> QED
      BY <2>2, <2>3
  <1>3. CASE RecvConnectionSwitchToMmWave(c)
    <2>1. CASE Stop("drbid not found in m_rlcMap")
      BY <2>1, ReportingStop
    <2>2. CASE /\ x2' = Taken(x2, LteCell, c)
               /\ UNCHANGED <<terminal, contexts, coordinator, sinr, s1, air, bounds, fault>>
      BY <2>2, ReportingAir DEF terminal, contexts, air, Commands
    <2> QED
      BY <1>3, <2>1, <2>2 DEF RecvConnectionSwitchToMmWave
  <1> QED
    BY <1>1, <1>2, <1>3 DEF X2Step

\* The decision of the coordinator.  A UE that found all cells in outage was not told
\* to connect, and is told at most once: the flag is reset with the command.
LEMMA ReportingDecision ==
    ASSUME Typed, Attachment, Reporting, TriggerUeAssociationUpdate
    PROVE  Reporting'
  <1>0. CellsTyped /\ AirTyped /\ LteCell \in Nodes /\ Legs = {"lte", "mm"}
    BY DEF Typed, Nodes, Legs
  <1> DEFINE known == Known(LteCell, rntiOf[LteCell])
  <1>1. CASE LooksUpUe /\ ~known
    BY <1>1, ReportingStop DEF TriggerUeAssociationUpdate
  <1>2. CASE ~(LooksUpUe /\ ~known)
    <2>0. /\ SwitchToLte \/ SelectBest
          /\ UNCHANGED <<ue, nas, up>>
      BY <1>2 DEF TriggerUeAssociationUpdate, terminal
    <2>1. PICK r, x : r = rntiOf[LteCell] /\ x = ctx[LteCell][r]
      OBVIOUS
    <2>2. CASE SwitchToLte
      BY <2>0, <2>2, ReportingAir DEF SwitchToLte, Commands
    <2>3. CASE SelectBest
      <3>1. PICK b \in Cells :
                /\ IF Mode = "Ttt" /\ associated /\ usingLte /\ x.allInOutage
                   THEN /\ ctx' = [ctx EXCEPT ![LteCell][r] = EndOutage(@)]
                        /\ srb0' = [srb0 EXCEPT !["lte"] = @ \cup {RrcConnectToMmWave(b)}]
                   ELSE UNCHANGED <<ctx, srb0>>
        BY <2>1, <2>3 DEF SelectBest, LteContext
      <3>2. CASE ~(Mode = "Ttt" /\ associated /\ usingLte /\ x.allInOutage)
        BY <2>0, <3>1, <3>2, ReportingAir DEF Commands
      <3>3. CASE Mode = "Ttt" /\ associated /\ usingLte /\ x.allInOutage
        <4>1. known
          BY <1>2, <2>1, <3>3 DEF LooksUpUe
        <4>2. r \in Rntis /\ x \in Contexts
          BY <1>0, <2>1, <4>1 DEF Known, CellsTyped, SomeRnti
        <4>3. nas.cell = NoCell /\ Commands = {}
          BY <2>1, <3>3, <4>2 DEF Reporting, OneCommand
        <4>4. \A s \in Rntis : s # r => ~ctx[LteCell][s].allInOutage
          <5> SUFFICES ASSUME NEW s \in Rntis, ctx[LteCell][s].allInOutage PROVE s = r
            OBVIOUS
          <5>1. Bare(ctx[LteCell][s]) /\ Bare(ctx[LteCell][r])
            BY <1>0, <4>2 DEF Attachment, BareContexts
          <5>2. /\ ctx[LteCell][s].state \in ConnectedStates
                /\ ctx[LteCell][r].state \in ConnectedStates
            BY <2>1, <3>3, <5>1 DEF Bare
          <5> QED
            BY <4>2, <5>2, LteContextConnected
        <4> DEFINE y == EndOutage(x)
        <4>5. y \in Contexts /\ SameReport(x, y) /\ ~y.allInOutage
          BY <4>2 DEF EndOutage, Contexts, SameReport
        <4>6. ctx' = [ctx EXCEPT ![LteCell][r] = y]
          BY <2>1, <3>1, <3>3
        <4> HIDE DEF y
        <4>7. \A s \in Rntis : ctx'[LteCell][s] = IF s = r THEN y ELSE ctx[LteCell][s]
          BY <1>0, <4>2, <4>5, <4>6, ContextSet
        <4>8. \A m \in Commands' : m = RrcConnectToMmWave(b)
          BY <1>0, <3>1, <3>3, <4>3 DEF Commands, AirTyped
        <4>9. OneCommand'
          <5>1. PICK n : n = RrcConnectToMmWave(b)
            OBVIOUS
          <5>2. \A m, o \in Commands' : m = o
            BY <4>8, <5>1
          <5>3. \A s \in Rntis : ~ctx'[LteCell][s].allInOutage
            BY <4>4, <4>5, <4>7
          <5>4. nas'.cell = ue'["mm"].cell /\ nas'.cell = NoCell
            BY <2>0, <4>3 DEF Reporting, OneCommand
          <5> QED
            BY <5>2, <5>3, <5>4 DEF OneCommand
        <4>10. ReportNamesServingCell'
          BY <2>0, <2>1, <4>2, <4>5, <4>7
             DEF Reporting, Reports, ReportNamesServingCell, SameReport
        <4>11. \A m \in Items(up'["lte"]) :
                   m.type = "SecondaryCellConnected" => ServedBy(m.cell, m.rnti)'
          BY <2>0 DEF Reporting, Reports, ServedBy
        <4> QED
          BY <4>9, <4>10, <4>11 DEF Reporting, Reports
      <3> QED
        BY <3>2, <3>3
    <2> QED
      BY <2>0, <2>2, <2>3
  <1> QED
    BY <1>1, <1>2

\* The steps of the cells that set up the bearers.
LEMMA ReportingBearers ==
    ASSUME Typed, Attachment, Reporting, BearersStep
    PROVE  Reporting'
  <1>0. CellsTyped /\ AirTyped /\ LteCell \in Nodes /\ Legs = {"lte", "mm"}
    BY DEF Typed, Nodes, Legs
  <1>1. CASE InitialContextSetup
    <2>1. PICK r, x : r = rntiOf[LteCell] /\ x = ctx[LteCell][r]
      OBVIOUS
    <2>2. CASE x.state \in {"NONE", "CONNECTION_REJECTED", "MC_CONNECTION_RECONFIGURATION"}
      BY <1>1, <2>1, <2>2, ReportingStop DEF InitialContextSetup
    <2>3. CASE x.state \notin {"NONE", "CONNECTION_REJECTED",
                               "MC_CONNECTION_RECONFIGURATION"}
      <3> DEFINE now == x.state = "CONNECTED_NORMALLY"
                 y == [x EXCEPT !.drbs = Drbs, !.pendingReconf = ~now \/ Drbs # {FirstDrb},
                          !.state = IF now THEN "CONNECTION_RECONFIGURATION" ELSE @]
      <3>1. ctx' = [ctx EXCEPT ![LteCell][r] = y]
        BY <1>1, <2>1, <2>3 DEF InitialContextSetup
      <3>2. s1 /\ UNCHANGED <<ue, nas, srb0, up>>
        BY <1>1, <2>1, <2>3 DEF InitialContextSetup, terminal
      <3>3. r = ue["lte"].rnti /\ ue["lte"].state \in Attached /\ LegInv("lte")
        BY <1>0, <2>1, <3>2 DEF Attachment, ContextAsked
      <3>4. r \in Rntis /\ x \in Contexts
        BY <1>0, <2>1, <3>3, LegLocated DEF CellsTyped
      <3>5. y \in Contexts /\ SameReport(x, y)
        BY <3>4 DEF Contexts, UeStates, SameReport
      <3> HIDE DEF y, now
      <3> QED
        BY <1>0, <2>1, <3>1, <3>2, <3>4, <3>5, ReportingContext DEF Commands
    <2> QED
      BY <2>2, <2>3
  <1>2. CASE RecvSecondaryCellConnected
    <2>1. CASE ContextOf("lte").state = "NONE"
      BY <1>2, <2>1, ReportingStop DEF RecvSecondaryCellConnected
    <2>2. CASE ContextOf("lte").state # "NONE"
      <3>1. PICK m, y, r : m = Head(up["lte"]) /\ y = ContextOf("lte") /\ r = ue["lte"].rnti
        OBVIOUS
      <3> DEFINE x == [y EXCEPT !.mmCell = m.cell, !.mmRnti = m.rnti,
                                !.available = @ \/ y.drbs = {}]
      <3>2. /\ ctx' = WithContext("lte", x)
            /\ up' = TakenUp("lte") /\ up["lte"] # <<>>
            /\ m.type = "SecondaryCellConnected"
            /\ UNCHANGED <<ue, nas, srb0>>
        BY <1>2, <2>2, <3>1 DEF RecvSecondaryCellConnected, ArrivesUp, terminal
      <3>3. /\ Connected("lte") /\ up'["lte"] = Tail(up["lte"])
        BY <3>1, <3>2, TakesFromConnected
      <3>4. /\ r \in Rntis /\ y \in Contexts /\ y = ctx[LteCell][r]
            /\ ue["lte"].cell = LteCell
        BY <3>1, <3>3, LteContextIs DEF Connected
      <3>5. /\ m \in Items(up["lte"]) /\ Items(up'["lte"]) \subseteq Items(up["lte"])
            /\ m.cell \in SomeCell /\ m.rnti \in SomeRnti
        BY <1>0, <3>1, <3>2, <3>3, ItemsTail, TypedSent, FieldTypes DEF AirTyped
      <3>6. ServedBy(m.cell, m.rnti)
        BY <3>2, <3>5 DEF Reporting, Reports
      <3>7. x \in Contexts /\ x.mmCell = m.cell /\ x.mmRnti = m.rnti
            /\ x.allInOutage = y.allInOutage
        BY <3>4, <3>5 DEF Contexts, SomeCell, SomeRnti
      <3>8. ctx' = [ctx EXCEPT ![LteCell][r] = x]
        BY <3>1, <3>2, <3>4 DEF WithContext
      <3> HIDE DEF x
      <3>9. \A s \in Rntis : ctx'[LteCell][s] = IF s = r THEN x ELSE ctx[LteCell][s]
        BY <1>0, <3>4, <3>7, <3>8, ContextSet
      <3>10. OneCommand'
        <4>1. Commands' = Commands
          BY <3>2 DEF Commands
        <4>2. \A s \in Rntis : ctx'[LteCell][s].allInOutage = ctx[LteCell][s].allInOutage
          BY <3>4, <3>7, <3>9
        <4> QED
          BY <3>2, <4>1, <4>2 DEF Reporting, OneCommand
      <3>11. ReportNamesServingCell'
        BY <3>2, <3>6, <3>7, <3>9
           DEF Reporting, Reports, ReportNamesServingCell, ServedBy
      <3>12. \A n \in Items(up'["lte"]) :
                 n.type = "SecondaryCellConnected" => ServedBy(n.cell, n.rnti)'
        BY <3>2, <3>5 DEF Reporting, Reports, ServedBy
      <3> QED
        BY <3>10, <3>11, <3>12 DEF Reporting, Reports
    <2> QED
      BY <2>1, <2>2
  <1>3. CASE RecvReconfigurationCompleted
    <2>1. PICK x, r : x = ContextOf("lte") /\ r = ue["lte"].rnti
      OBVIOUS
    <2>2. CASE x.state \notin ConnectedStates
      BY <1>3, <2>1, <2>2, ReportingStop DEF RecvReconfigurationCompleted
    <2>3. CASE x.state \in ConnectedStates
      <3>1. /\ up' = TakenUp("lte") /\ up["lte"] # <<>>
            /\ Head(up["lte"]).type = "ReconfCompleted"
            /\ UNCHANGED <<ue, nas>>
        BY <1>3, <2>1, <2>3 DEF RecvReconfigurationCompleted, ArrivesUp, terminal
      <3>2. Connected("lte") /\ up'["lte"] = Tail(up["lte"])
        BY <3>1, TakesFromConnected
      <3>3. Items(up'["lte"]) \subseteq Items(up["lte"])
        BY <1>0, <3>1, <3>2, ItemsTail DEF AirTyped
      <3>4. /\ r \in Rntis /\ x \in Contexts /\ x = ctx[LteCell][r] /\ Bare(x)
            /\ ue["lte"].cell = LteCell
        BY <2>1, <3>2, LteContextIs
      <3>5. CASE x.state = "CONNECTED_NORMALLY"
        <4>1. UNCHANGED <<ctx, srb0>>
          BY <1>3, <2>1, <2>3, <3>5 DEF RecvReconfigurationCompleted
        <4> QED
          BY <3>1, <3>3, <4>1, ReportingAir DEF Commands
      <3>6. CASE x.state # "CONNECTED_NORMALLY"
        <4>1. PICK onLte : ConnectedNormally("lte", x, onLte)
          BY <1>3, <2>1, <2>3, <3>6 DEF RecvReconfigurationCompleted
        <4> DEFINE good == x.pendingConnect /\ sinr[best] > OutageThreshold
                   outage == x.pendingConnect /\ ~good
                   y == Normally(x, outage)
        <4>2. /\ ctx' = WithContext("lte", y)
              /\ srb0' = IF good THEN [srb0 EXCEPT !["lte"] = @ \cup {RrcConnectToMmWave(best)}]
                                 ELSE srb0
          BY <4>1 DEF ConnectedNormally, Normally
        <4>3. ~good /\ ~outage
          BY <3>4 DEF Bare
        <4>4. y \in Contexts /\ SameReport(x, y)
          <5>1. outage \in BOOLEAN
            BY <4>3
          <5> HIDE DEF outage
          <5>2. /\ y \in Contexts /\ y.allInOutage = (x.allInOutage \/ outage)
                /\ y.mmCell = x.mmCell /\ y.mmRnti = x.mmRnti
            BY <3>4, <5>1, NormallyIs
          <5> QED
            BY <4>3, <5>2 DEF SameReport
        <4> HIDE DEF y, good
        <4>5. ctx' = [ctx EXCEPT ![LteCell][r] = y] /\ srb0' = srb0
          BY <2>1, <3>4, <4>2, <4>3 DEF WithContext
        <4> QED
          BY <1>0, <3>1, <3>3, <3>4, <4>4, <4>5, ReportingContext DEF Commands
      <3> QED
        BY <3>5, <3>6
    <2> QED
      BY <2>2, <2>3
  <1> QED
    BY <1>1, <1>2, <1>3 DEF BearersStep

\* Every step keeps what is reported.
LEMMA ReportingStep ==
    ASSUME Typed, Attachment, Reporting, [Next]_vars
    PROVE  Reporting'
  <1>1. CASE Next
    <2>1. CASE \E k \in Legs : UeStep(k) \/ CellStep(k)
      BY <2>1, ReportingUeStep, ReportingCellStep
    <2>2. CASE UeConfigured \/ RandomAccessFailed
      BY <2>2, ReportingConfigured
    <2>3. CASE BearersStep
      BY <2>3, ReportingBearers
    <2>4. CASE \E c \in Cells : X2Step(c)
      BY <2>4, ReportingX2
    <2>5. CASE Expire \/ (\E k \in Legs : Lose(k)) \/ SinrChanges
      BY <2>5, ReportingExpire
    <2>6. CASE TriggerUeAssociationUpdate
      BY <2>6, ReportingDecision
    <2> QED
      BY <1>1, <2>1, <2>2, <2>3, <2>4, <2>5, <2>6 DEF Next
  <1>2. CASE UNCHANGED vars
    <2>1. UNCHANGED <<ue, nas, ctx, srb0, up>>
      BY <1>2 DEF vars, terminal, contexts, air
    <2> QED
      BY <2>1, ReportingAir DEF Commands
  <1> QED
    BY <1>1, <1>2

\* The command and the report, on every step of every run.
LEMMA ReportingAlways == Spec => [](Typed /\ Attachment /\ Reporting)
  <1>1. Init => Typed /\ Attachment /\ Reporting
    BY TypedInit, AttachmentInit, ReportingInit
  <1>2. Typed /\ Attachment /\ Reporting /\ [Next]_vars => (Typed /\ Attachment /\ Reporting)'
    BY TypedStep, AttachmentStep, ReportingStep
  <1> QED
    BY <1>1, <1>2, PTL DEF Spec

\* ReportNamesServingCell: no second command replaces the cell that the NAS has noted
\* before the connection that it reports is there, and no leg leaves the mmWave cell
\* that it has reported.
THEOREM ServingCellIsReported == Spec => []ReportNamesServingCell
  <1>1. Reporting => ReportNamesServingCell
    BY DEF Reporting, Reports
  <1> QED
    BY <1>1, ReportingAlways, PTL

-----------------------------------------------------------------------------
(***************************************************************************)
(* The split of the bearers: a bearer is sent over mmWave when its remote  *)
(* RLC was asked for, set up, confirmed and told to the UE, in this order, *)
(* and each of the messages on the way still finds the context, the cell   *)
(* and the RNTI that it was sent for.                                      *)
(***************************************************************************)
BearerFields(x) ==
    /\ x.drbs \in {{}, Drbs} /\ x.mcDrbs \subseteq x.drbs
    /\ x.available \/ x.mcDrbs # {} => x.mmCell # NoCell
    /\ x.state = "INITIAL_RANDOM_ACCESS" => x.drbs = {}

\* The PDCP q sends to the secondary cell of context x.
DirectedTo(q, x) == q.cell = x.mmCell /\ q.rnti = x.mmRnti

\* Message m on link l, with the context x of the LTE cell, the bearers "rlc" that have
\* an RLC in the secondary cell, and the PDCPs p.
Placed(x, rlc, p, l, m) ==
    /\ x.mmCell # NoCell
    /\ m.type = "RlcSetupRequest" =>
          /\ l = <<LteCell, x.mmCell>> /\ m.rnti = x.mmRnti
          /\ m.drb \in x.drbs /\ DirectedTo(p[m.drb], x)
    /\ m.type = "RlcSetupCompleted" =>
          /\ l = <<x.mmCell, LteCell>> /\ m.drb \in rlc
          /\ m.drb \in x.drbs /\ DirectedTo(p[m.drb], x)
    /\ m.type = "SwitchConnection" =>
          l = <<LteCell, x.mmCell>> /\ m.rnti = x.mmRnti /\ rlc # {}

SplitOver(x, rlc, p, net) ==
    /\ \A l \in Links : \A m \in Items(net[l]) : Placed(x, rlc, p, l, m)
    /\ \A d \in x.mcDrbs : d \in rlc /\ DirectedTo(p[d], x)
    /\ \A d \in Drbs : p[d].mm => d \in x.mcDrbs

LteX == ContextOf("lte")
MmRlc == ContextOf("mm").rlc

AllFields == \A c \in Nodes, r \in Rntis : BearerFields(ctx[c][r])
NotSetUpYet == s1 => LteX.drbs = {}
Splitting ==
    /\ Connected("lte") => SplitOver(LteX, MmRlc, pdcp, x2)
    /\ ~Connected("lte") => \A d \in Drbs : ~pdcp[d].mm

Bearers == AllFields /\ NotSetUpYet /\ Splitting

\* What a context goes on holding of the bearers.
SameBearers(old, new) ==
    /\ new.drbs = old.drbs /\ new.mcDrbs = old.mcDrbs
    /\ new.mmCell = old.mmCell /\ new.mmRnti = old.mmRnti
    /\ new.available = old.available /\ old.rlc \subseteq new.rlc

\* Messages may be taken, RLCs be added, and nothing else may change; without a
\* secondary cell, its RLCs do not matter.
LEMMA SplitKept ==
    ASSUME NEW x, NEW y, NEW rlc, NEW rlc2, NEW p, NEW net, NEW net2,
           SplitOver(x, rlc, p, net), BearerFields(x), SameBearers(x, y),
           x.mmCell # NoCell => rlc \subseteq rlc2,
           \A l \in Links : Items(net2[l]) \subseteq Items(net[l])
    PROVE  SplitOver(y, rlc2, p, net2)
  <1>0. /\ y.drbs = x.drbs /\ y.mcDrbs = x.mcDrbs
        /\ y.mmCell = x.mmCell /\ y.mmRnti = x.mmRnti
    BY DEF SameBearers
  <1>1. ASSUME NEW l \in Links, NEW m \in Items(net2[l]) PROVE Placed(y, rlc2, p, l, m)
    <2>1. Placed(x, rlc, p, l, m)
      BY DEF SplitOver
    <2> QED
      BY <1>0, <2>1 DEF Placed, DirectedTo
  <1>2. \A d \in y.mcDrbs : d \in rlc2 /\ DirectedTo(p[d], y)
    <2>1. x.mcDrbs # {} => x.mmCell # NoCell
      BY DEF BearerFields
    <2> QED
      BY <1>0, <2>1 DEF SplitOver, DirectedTo
  <1>3. \A d \in Drbs : p[d].mm => d \in y.mcDrbs
    BY <1>0 DEF SplitOver
  <1> QED
    BY <1>1, <1>2, <1>3 DEF SplitOver

\* Nothing is split and nothing is on its way.
LEMMA NothingSplit ==
    ASSUME NEW x, NEW rlc, NEW p, NEW net, x.mcDrbs = {}, \A d \in Drbs : ~p[d].mm,
           \A l \in Links : Items(net[l]) = {}
    PROVE  SplitOver(x, rlc, p, net)
  BY DEF SplitOver

\* The context of the secondary cell that the LTE cell knows.
LEMMA SecondaryContext ==
    ASSUME Typed, Attachment, Reporting, Connected("lte"), LteX.mmCell # NoCell
    PROVE  /\ ue["mm"].state = "CONNECTED_NORMALLY"
           /\ LteX.mmCell = ue["mm"].cell /\ LteX.mmRnti = ue["mm"].rnti
           /\ LteX.mmCell \in Cells /\ LteX.mmRnti \in Rntis
           /\ ContextOf("mm") = ctx[LteX.mmCell][LteX.mmRnti]
           /\ ContextOf("mm") \in Contexts
           /\ ContextOf("mm").state \in {"CONNECTION_SETUP"} \cup ConnectedStates
           /\ rntiOf[LteX.mmCell] = LteX.mmRnti
  <1>1. rntiOf[LteCell] \in Rntis /\ LteX = ctx[LteCell][rntiOf[LteCell]]
    BY LteContextIs DEF LteX
  <1>2. /\ ue["mm"].state = "CONNECTED_NORMALLY"
        /\ LteX.mmCell = ue["mm"].cell /\ LteX.mmRnti = ue["mm"].rnti
    BY <1>1 DEF Reporting, Reports, ReportNamesServingCell
  <1>3. LegInv("mm") /\ "mm" \in Legs /\ ue["mm"].state \in Attached
    BY <1>2 DEF Attachment, Legs, Attached
  <1>4. ue["mm"].cell \in Cells /\ ue["mm"].rnti \in Rntis /\ ContextOf("mm") \in Contexts
    BY <1>3, LegLocated
  <1>5. /\ ContextOf("mm").state \in {"CONNECTION_SETUP"} \cup ConnectedStates
        /\ rntiOf[ue["mm"].cell] = ue["mm"].rnti
    BY <1>2, <1>3 DEF LegInv, Accepted
  <1>6. ContextOf("mm") = ctx[LteX.mmCell][LteX.mmRnti]
    BY <1>2 DEF ContextOf
  <1> QED
    BY <1>2, <1>4, <1>5, <1>6

\* A step that leaves the bearers of the legs that are connected.
LEMMA BearersKept ==
    ASSUME Typed, Attachment, Reporting, Bearers, AllFields',
           \A k \in Legs : ue[k].state = "CONNECTED_NORMALLY" =>
               SameLeg(k) /\ SameBearers(ContextOf(k), ContextOf(k)'),
           s1' => LteX'.drbs = {},
           Connected("lte") => Connected("lte")',
           Connected("lte")' => Connected("lte") \/ LteX'.mcDrbs = {},
           pdcp' = pdcp, \A l \in Links : Items(x2'[l]) \subseteq Items(x2[l])
    PROVE  Bearers'
  <1>0. "lte" \in Legs /\ "mm" \in Legs
    BY DEF Legs
  <1>1. CASE Connected("lte")
    <2>1. SplitOver(LteX, MmRlc, pdcp, x2)
      BY <1>1 DEF Bearers, Splitting
    <2>2. SameBearers(LteX, LteX')
      BY <1>0, <1>1 DEF Connected, LteX
    <2>3. BearerFields(LteX)
      <3>1. LteX = ctx[LteCell][rntiOf[LteCell]] /\ rntiOf[LteCell] \in Rntis
        BY <1>1, LteContextIs DEF LteX
      <3> QED
        BY <3>1 DEF Bearers, AllFields, Nodes
    <2>4. LteX.mmCell # NoCell => MmRlc \subseteq MmRlc'
      BY <1>0, <1>1, SecondaryContext DEF MmRlc, SameBearers
    <2>5. SplitOver(LteX', MmRlc', pdcp', x2')
      <3>1. PICK x, y, rlc, rlc2, net2 : x = LteX /\ y = LteX' /\ rlc = MmRlc /\ rlc2 = MmRlc'
                /\ net2 = x2'
        OBVIOUS
      <3>2. SplitOver(y, rlc2, pdcp, net2)
        BY <2>1, <2>2, <2>3, <2>4, <3>1, SplitKept
      <3> QED
        BY <3>1, <3>2
    <2>6. Splitting'
      BY <1>1, <2>5 DEF Splitting
    <2> QED
      BY <2>6 DEF Bearers, NotSetUpYet
  <1>2. CASE ~Connected("lte")
    <2>1. \A d \in Drbs : ~pdcp'[d].mm
      BY <1>2 DEF Bearers, Splitting
    <2>2. \A l \in Links : Items(x2'[l]) = {}
      <3>1. \A l \in Links : x2[l] = <<>>
        BY <1>2 DEF Attachment, LteFirst, DualStarted
      <3>2. \A l \in Links : Items(x2[l]) = {}
        BY <3>1 DEF Items
      <3> QED
        BY <3>2
    <2>3. Connected("lte")' => SplitOver(LteX', MmRlc', pdcp', x2')
      <3> SUFFICES ASSUME LteX'.mcDrbs = {} PROVE SplitOver(LteX', MmRlc', pdcp', x2')
        BY <1>2
      <3>1. PICK x, rlc, p, net : x = LteX' /\ rlc = MmRlc' /\ p = pdcp' /\ net = x2'
        OBVIOUS
      <3>2. SplitOver(x, rlc, p, net)
        BY <2>1, <2>2, <3>1, NothingSplit
      <3> QED
        BY <3>1, <3>2
    <2> QED
      BY <2>1, <2>3 DEF Bearers, NotSetUpYet, Splitting
  <1> QED
    BY <1>1, <1>2

\* Nothing is split at the start.
LEMMA BearersInit == Init => Bearers
  <1> SUFFICES ASSUME Init PROVE Bearers
    OBVIOUS
  <1>1. AllFields
    BY DEF Init, AllFields, BearerFields, NoContext
  <1>2. ~Connected("lte") /\ ~s1
    BY DEF Init, Connected, Legs
  <1>3. \A d \in Drbs : ~pdcp[d].mm
    BY DEF Init, NoPdcp
  <1> QED
    BY <1>1, <1>2, <1>3 DEF Bearers, NotSetUpYet, Splitting

\* Nothing of the bearers changes when an assertion ends the simulation.
LEMMA BearersStop ==
    ASSUME Bearers, NEW why, Stop(why)
    PROVE  Bearers'
  BY DEF Stop, Bearers, AllFields, NotSetUpYet, Splitting, Connected, LteX, MmRlc, ContextOf,
         terminal, contexts, coordinator

\* A cell replaces a context, and takes nothing from a leg that is connected.
ReplacesContext(c, r, x) ==
    /\ ctx' = [ctx EXCEPT ![c][r] = x] /\ BearerFields(x)
    /\ UNCHANGED <<ue, pdcp>>
    /\ ctx[c][r].state \in ConnectedStates => x.state \in ConnectedStates
    /\ \A k \in Legs : (/\ ue[k].state = "CONNECTED_NORMALLY"
                        /\ ue[k].cell = c /\ ue[k].rnti = r)
                       => SameBearers(ctx[c][r], x)
    /\ s1' => /\ ue["lte"].state \in Attached
              /\ \/ s1 /\ x.drbs = ctx[c][r].drbs
                 \/ x.drbs = {} /\ (s1 \/ (ue["lte"].cell = c /\ ue["lte"].rnti = r))
    /\ \A l \in Links : Items(x2'[l]) \subseteq Items(x2[l])

\* Such a step keeps the split of the bearers.
LEMMA BearersContext ==
    ASSUME Typed, Attachment, Reporting, Bearers,
           NEW c \in Nodes, NEW r \in Rntis, NEW x \in Contexts, ReplacesContext(c, r, x)
    PROVE  Bearers'
  <1> USE DEF ReplacesContext
  <1>0. "lte" \in Legs /\ "mm" \in Legs
    BY DEF Legs
  <1>1. \A d \in Nodes, s \in Rntis : ctx'[d][s] = IF d = c /\ s = r THEN x ELSE ctx[d][s]
    BY ContextSet DEF Typed
  <1>2. AllFields'
    BY <1>1 DEF Bearers, AllFields
  <1>3. ASSUME NEW k \in Legs, ue[k].state \in Attached
        PROVE  /\ ContextOf(k)' = IF ue[k].cell = c /\ ue[k].rnti = r THEN x ELSE ContextOf(k)
               /\ ue[k].cell = c /\ ue[k].rnti = r => ContextOf(k) = ctx[c][r]
    <2>1. ue[k].cell \in Nodes /\ ue[k].rnti \in Rntis
      BY <1>3, LegLocated DEF Attachment
    <2> QED
      BY <1>1, <2>1 DEF ContextOf
  <1>4. ASSUME NEW k \in Legs, ue[k].state = "CONNECTED_NORMALLY"
        PROVE  SameLeg(k) /\ SameBearers(ContextOf(k), ContextOf(k)')
    <2>1. ue[k].state \in Attached
      BY <1>4 DEF Attached
    <2>2. SameLeg(k)
      BY DEF SameLeg
    <2>3. CASE ue[k].cell = c /\ ue[k].rnti = r
      BY <1>3, <1>4, <2>1, <2>2, <2>3
    <2>4. CASE ~(ue[k].cell = c /\ ue[k].rnti = r)
      BY <1>3, <2>1, <2>2, <2>4 DEF SameBearers
    <2> QED
      BY <2>3, <2>4
  <1>5. s1' => LteX'.drbs = {}
    <2> SUFFICES ASSUME s1' PROVE LteX'.drbs = {}
      OBVIOUS
    <2>1. LteX' = IF ue["lte"].cell = c /\ ue["lte"].rnti = r THEN x ELSE LteX
      BY <1>0, <1>3 DEF LteX
    <2>2. ue["lte"].cell = c /\ ue["lte"].rnti = r => LteX = ctx[c][r]
      BY <1>0, <1>3 DEF LteX
    <2>3. s1 => LteX.drbs = {}
      BY DEF Bearers, NotSetUpYet
    <2> QED
      BY <2>1, <2>2, <2>3
  <1>6. Connected("lte") => Connected("lte")'
    BY <1>0, <1>3 DEF Connected, Attached
  <1>7. Connected("lte")' => Connected("lte") \/ LteX'.mcDrbs = {}
    <2> SUFFICES ASSUME Connected("lte")', ~Connected("lte") PROVE LteX'.mcDrbs = {}
      OBVIOUS
    <2>1. ue["lte"].state = "CONNECTED_NORMALLY" /\ ue["lte"].state \in Attached
      BY DEF Connected, Attached
    <2>2. LteX.state \notin ConnectedStates
      BY <2>1 DEF Connected, LteX
    <2>3. Bare(LteX)
      BY <1>0, <2>1, LegLocated DEF Attachment, BareContexts, LteX, ContextOf
    <2>4. SameBearers(LteX, LteX')
      BY <1>0, <1>4, <2>1 DEF LteX
    <2> QED
      BY <2>2, <2>3, <2>4 DEF Bare, SameBearers
  <1> QED
    BY <1>2, <1>4, <1>5, <1>6, <1>7, BearersKept

\* A step that leaves the contexts and the PDCPs alone.
LEMMA BearersAir ==
    ASSUME Typed, Attachment, Reporting, Bearers, UNCHANGED <<ctx, pdcp>>,
           \A k \in Legs : ue[k].state = "CONNECTED_NORMALLY" => SameLeg(k),
           s1' => s1 /\ ue'["lte"].cell = ue["lte"].cell /\ ue'["lte"].rnti = ue["lte"].rnti,
           Connected("lte")' => Connected("lte"),
           \A l \in Links : Items(x2'[l]) \subseteq Items(x2[l])
    PROVE  Bearers'
  <1>0. "lte" \in Legs
    BY DEF Legs
  <1>1. AllFields'
    BY DEF Bearers, AllFields
  <1>2. ASSUME NEW k \in Legs, ue[k].state = "CONNECTED_NORMALLY"
        PROVE  SameLeg(k) /\ SameBearers(ContextOf(k), ContextOf(k)')
    BY <1>2 DEF SameLeg, SameBearers, ContextOf
  <1>3. s1' => LteX'.drbs = {}
    BY DEF Bearers, NotSetUpYet, LteX, ContextOf
  <1>4. Connected("lte") => Connected("lte")'
    BY <1>0 DEF Connected, SameLeg, ContextOf
  <1> QED
    BY <1>1, <1>2, <1>3, <1>4, BearersKept

\* A step that leaves the UE alone, too.
LEMMA BearersSame ==
    ASSUME Typed, Attachment, Reporting, Bearers, UNCHANGED <<ue, ctx, pdcp>>, s1' => s1,
           \A l \in Links : Items(x2'[l]) \subseteq Items(x2[l])
    PROVE  Bearers'
  BY BearersAir DEF SameLeg, Connected, ContextOf

\* The steps of the UE's RRCs.
LEMMA BearersUeStep ==
    ASSUME Typed, Attachment, Reporting, Bearers, NEW k \in Legs, UeStep(k)
    PROVE  Bearers'
  <1>0. /\ UeTyped /\ AirTyped /\ LegInv(k) /\ ue[k] \in UeRrcs
        /\ ue \in [Legs -> UeRrcs] /\ Legs = {"lte", "mm"}
    BY UeFields, CellsDiffer DEF Typed, UeTyped, Attachment
  <1>1. UNCHANGED <<ctx, pdcp, x2, s1>>
    <2>1. CASE RecvMib(k) \/ RecvSib2(k) \/ RandomAccessSuccessful(k)
      BY <2>1 DEF RecvMib, RecvSib2, RandomAccessSuccessful, contexts, coordinator
    <2>2. CASE UeRecvRrcConnectionReject(k) \/ ConnectionTimeout(k)
      BY <2>2 DEF UeRecvRrcConnectionReject, ConnectionTimeout, contexts, coordinator
    <2>3. CASE UeRecvRrcConnectionSetup(k)
      BY <2>3 DEF UeRecvRrcConnectionSetup, Stop, contexts, coordinator
    <2> QED
      BY <2>1, <2>2, <2>3 DEF UeStep
  <1>2. ASSUME NEW u, ue' = [ue EXCEPT ![k] = u],
               ue[k].state = "CONNECTED_NORMALLY" =>
                   u.state = ue[k].state /\ u.cell = ue[k].cell /\ u.rnti = ue[k].rnti,
               k = "lte" /\ s1 => u.cell = ue[k].cell /\ u.rnti = ue[k].rnti,
               k = "lte" /\ u.state = "CONNECTED_NORMALLY" =>
                   ue[k].state = "CONNECTED_NORMALLY"
                   \/ (u.cell = ue[k].cell /\ u.rnti = ue[k].rnti
                       /\ ContextOf(k).state = "CONNECTION_SETUP")
        PROVE  Bearers'
    <2>1. ue'[k] = u /\ \A j \in Legs : j # k => ue'[j] = ue[j]
      BY <1>0, <1>2
    <2>2. \A j \in Legs : ue[j].state = "CONNECTED_NORMALLY" => SameLeg(j)
      BY <1>2, <2>1 DEF SameLeg
    <2>3. s1' => s1 /\ ue'["lte"].cell = ue["lte"].cell /\ ue'["lte"].rnti = ue["lte"].rnti
      BY <1>0, <1>1, <1>2, <2>1
    <2>4. Connected("lte")' => Connected("lte")
      <3>1. CASE k = "mm"
        BY <1>0, <1>1, <2>1, <3>1 DEF Connected, ContextOf
      <3>2. CASE k = "lte"
        BY <1>1, <1>2, <2>1, <3>2 DEF Connected, ContextOf, ConnectedStates
      <3> QED
        BY <1>0, <3>1, <3>2
    <2> QED
      BY <1>1, <2>2, <2>3, <2>4, BearersAir
  <1>3. CASE RecvMib(k)
    <2>1. PICK u : u = Camp(ue[k])
      OBVIOUS
    <2>2. u.state \notin Attached
      BY <1>0, <2>1, CampStates
    <2>3. ue[k].state \notin Attached /\ ue' = [ue EXCEPT ![k] = u]
      BY <1>3, <2>1 DEF RecvMib, Attached
    <2> QED
      BY <1>2, <2>2, <2>3 DEF Attached, Attachment, ContextAsked
  <1>4. CASE RecvSib2(k)
    <2> DEFINE v == [ue[k] EXCEPT !.sib2 = TRUE]
    <2>1. PICK u : u = IF v.state = "IDLE_WAIT_SIB2" THEN StartConnection(v) ELSE v
      OBVIOUS
    <2>2. v \in UeRrcs /\ v.state = ue[k].state /\ v.cell = ue[k].cell /\ v.rnti = ue[k].rnti
      BY <1>0 DEF UeRrcs
    <2>4. /\ u.cell = ue[k].cell /\ u.rnti = ue[k].rnti
          /\ \/ u.state = ue[k].state
             \/ ue[k].state = "IDLE_WAIT_SIB2" /\ u.state = "IDLE_RANDOM_ACCESS"
      <3> HIDE DEF v
      <3> QED
        BY <2>1, <2>2 DEF UeRrcs, StartConnection
    <2>3. ue' = [ue EXCEPT ![k] = u]
      BY <1>4, <2>1 DEF RecvSib2
    <2> QED
      BY <1>2, <2>3, <2>4
  <1>5. CASE RandomAccessSuccessful(k)
    <2>1. PICK u : u = [ue[k] EXCEPT !.state = "IDLE_CONNECTING", !.rnti = rar[k]]
      OBVIOUS
    <2>2. ue' = [ue EXCEPT ![k] = u] /\ ue[k].state = "IDLE_RANDOM_ACCESS"
      BY <1>0, <1>5, <2>1 DEF RandomAccessSuccessful, LegInv, Responding
    <2>3. u.state = "IDLE_CONNECTING"
      BY <1>0, <2>1 DEF UeRrcs
    <2> QED
      BY <1>2, <2>2, <2>3 DEF Attachment, ContextAsked, Attached
  <1>6. CASE UeRecvRrcConnectionSetup(k)
    <2>1. ue[k].state = "IDLE_CONNECTING" /\ ContextOf(k).state = "CONNECTION_SETUP"
      BY <1>0, <1>6, AnswerFinds DEF UeRecvRrcConnectionSetup
    <2>2. PICK u : u = [ue[k] EXCEPT !.state = "CONNECTED_NORMALLY"]
      OBVIOUS
    <2>3. ue' = [ue EXCEPT ![k] = u]
      BY <1>6, <2>1, <2>2 DEF UeRecvRrcConnectionSetup
    <2>4. u.cell = ue[k].cell /\ u.rnti = ue[k].rnti
      BY <1>0, <2>2 DEF UeRrcs
    <2> QED
      BY <1>2, <2>1, <2>3, <2>4
  <1>7. CASE UeRecvRrcConnectionReject(k) \/ ConnectionTimeout(k)
    <2>1. PICK u : u = Camp([ue[k] EXCEPT !.sib2 = FALSE])
      OBVIOUS
    <2>2. u.state \notin Attached
      BY <1>0, <2>1, CampStates
    <2>3. ue' = [ue EXCEPT ![k] = u]
      BY <1>7, <2>1 DEF UeRecvRrcConnectionReject, ConnectionTimeout, ConnectionFailed
    <2>4. ue[k].state = "IDLE_CONNECTING" /\ (k = "lte" => ~s1)
      BY <1>0, <1>7, AnswerFinds
         DEF UeRecvRrcConnectionReject, ConnectionTimeout, Attachment, ContextAsked,
             ConnectedStates
    <2> QED
      BY <1>2, <2>2, <2>3, <2>4 DEF Attached
  <1> QED
    BY <1>3, <1>4, <1>5, <1>6, <1>7 DEF UeStep

\* Losses, the ends of the timers, and a change of the SINR.
LEMMA BearersExpire ==
    ASSUME Typed, Attachment, Reporting, Bearers,
           Expire \/ (\E k \in Legs : Lose(k)) \/ SinrChanges
    PROVE  Bearers'
  <1>1. ASSUME NEW c \in Nodes, NEW r \in Rntis, RemoveUe(c, r),
               ctx[c][r].state \in {"INITIAL_RANDOM_ACCESS", "CONNECTION_SETUP",
                                    "CONNECTION_REJECTED"},
               \A k \in Legs : InUse(k, c, r) => ctx[c][r].state = "CONNECTION_REJECTED"
        PROVE  Bearers'
    <2>1. /\ ctx' = [ctx EXCEPT ![c][r] = NoContext]
          /\ UNCHANGED <<ue, pdcp, s1, x2>>
      BY <1>1 DEF RemoveUe, terminal, coordinator
    <2>2. NoContext \in Contexts /\ BearerFields(NoContext) /\ NoContext.drbs = {}
      BY ContextFields DEF NoContext, BearerFields
    <2>3. ASSUME NEW k \in Legs, ue[k].state = "CONNECTED_NORMALLY",
                 ue[k].cell = c, ue[k].rnti = r
          PROVE  FALSE
      <3>1. LegInv(k) /\ InUse(k, c, r)
        BY <2>3 DEF Attachment, InUse
      <3> QED
        BY <1>1, <2>3, <3>1 DEF LegInv, Accepted, ContextOf, ConnectedStates
    <2>4. s1 => ue["lte"].state \in Attached
      BY DEF Attachment, ContextAsked
    <2>5. ctx[c][r].state \notin ConnectedStates
      BY <1>1 DEF ConnectedStates
    <2>6. \A k \in Legs : ~(/\ ue[k].state = "CONNECTED_NORMALLY"
                            /\ ue[k].cell = c /\ ue[k].rnti = r)
      BY <2>3
    <2> QED
      <3>1. ReplacesContext(c, r, NoContext)
        BY <2>1, <2>2, <2>4, <2>5, <2>6 DEF ReplacesContext
      <3> QED
        BY <1>1, <2>2, <3>1, BearersContext
  <1>2. CASE Expire
    <2>1. PICK c \in Nodes, r \in Rntis : \/ ConnectionRequestTimeout(c, r)
                                          \/ ConnectionSetupTimeout(c, r)
                                          \/ ConnectionRejectedTimeout(c, r)
      BY <1>2 DEF Expire
    <2> QED
      BY <1>1, <2>1
         DEF ConnectionRequestTimeout, ConnectionSetupTimeout, ConnectionRejectedTimeout
  <1>3. CASE (\E k \in Legs : Lose(k)) \/ SinrChanges
    <2>1. UNCHANGED <<ue, ctx, pdcp, s1, x2>>
      BY <1>3 DEF Lose, SinrChanges, terminal, contexts, coordinator
    <2> QED
      BY <2>1, BearersSame
  <1> QED
    BY <1>2, <1>3

\* The calls of the UE's NAS and the messages of its bearers.
LEMMA BearersConfigured ==
    ASSUME Typed, Attachment, Reporting, Bearers, UeConfigured \/ RandomAccessFailed
    PROVE  Bearers'
  <1>0. /\ UeTyped /\ AirTyped /\ Legs = {"lte", "mm"}
        /\ LegInv("lte") /\ LegInv("mm")
        /\ ue["lte"] \in UeRrcs /\ ue["mm"] \in UeRrcs
    BY UeFields, CellsDiffer DEF Typed, Attachment
  <1>1. CASE RetryConnect
    <2>1. PICK u : u = Connect(ue["lte"])
      OBVIOUS
    <2>2. /\ ue' = [ue EXCEPT !["lte"] = u]
          /\ UNCHANGED <<ctx, pdcp, x2, s1>>
      BY <1>1, <2>1 DEF RetryConnect, contexts, coordinator
    <2>3. /\ u.cell = ue["lte"].cell /\ u.rnti = ue["lte"].rnti
          /\ u.state = ue["lte"].state \/ (ue["lte"].state \in Waiting /\ u.state \notin Attached)
      BY <1>0, <2>1, ConnectStates
    <2>4. ue'["lte"] = u /\ ue'["mm"] = ue["mm"]
      BY <1>0, <2>2 DEF UeTyped
    <2>5. \A k \in Legs : ue[k].state = "CONNECTED_NORMALLY" => SameLeg(k)
      BY <1>0, <2>3, <2>4 DEF SameLeg, Waiting
    <2>6. Connected("lte")' => Connected("lte")
      BY <2>2, <2>3, <2>4 DEF Connected, ContextOf, Attached
    <2> QED
      BY <2>2, <2>3, <2>4, <2>5, <2>6, BearersAir
  <1>2. CASE UeRecvRrcConnectToMmWave
    <2>1. PICK m \in srb0["lte"] :
              /\ m.type = "ConnectToMmWave"
              /\ ue' = [ue EXCEPT !["mm"] = Connect(ForceCampedOnEnb(@, m.cell))]
              /\ UNCHANGED <<ctx, pdcp, x2, s1>>
      BY <1>2 DEF UeRecvRrcConnectToMmWave, contexts, coordinator
    <2>2. PICK u : u = Connect(ForceCampedOnEnb(ue["mm"], m.cell))
      OBVIOUS
    <2>3. m.cell \in Cells
      BY <1>0, <2>1, FieldTypes DEF AirTyped
    <2>4. /\ u.cell = IF ue["mm"].state = "IDLE_START" THEN m.cell ELSE ue["mm"].cell
          /\ \/ u.state = ue["mm"].state /\ u.rnti = ue["mm"].rnti
             \/ ue["mm"].state \in Waiting /\ u.state \notin Attached
      BY <1>0, <2>2, <2>3, ToldStates
    <2>5. ue'["mm"] = u /\ ue'["lte"] = ue["lte"]
      BY <1>0, <2>1, <2>2 DEF UeTyped
    <2>6. \A k \in Legs : ue[k].state = "CONNECTED_NORMALLY" => SameLeg(k)
      BY <1>0, <2>4, <2>5 DEF SameLeg, Waiting
    <2>7. Connected("lte")' => Connected("lte")
      BY <2>1, <2>5 DEF Connected, ContextOf
    <2> QED
      BY <2>1, <2>5, <2>6, <2>7, BearersAir
  <1>3. CASE UeRecvReconfiguration \/ UeRecvRrcConnectionSwitch
    <2>1. UNCHANGED <<ue, ctx, pdcp, s1, x2>>
      BY <1>3 DEF UeRecvReconfiguration, UeRecvRrcConnectionSwitch, Stop, terminal, contexts,
                  coordinator
    <2> QED
      BY <2>1, BearersSame
  <1>4. CASE RandomAccessFailed
    <2>1. PICK u : u = Camp(ue["lte"])
      OBVIOUS
    <2>2. /\ ue' = [ue EXCEPT !["lte"] = u] /\ ue["lte"].state = "IDLE_RANDOM_ACCESS"
          /\ UNCHANGED <<ctx, pdcp, x2, s1>>
      BY <1>4, <2>1 DEF RandomAccessFailed, contexts, coordinator
    <2>3. u.state \notin Attached /\ ~s1
      BY <1>0, <2>1, <2>2, CampStates DEF Attachment, ContextAsked, Attached
    <2>4. ue'["lte"] = u /\ ue'["mm"] = ue["mm"]
      BY <1>0, <2>2 DEF UeTyped
    <2>5. \A k \in Legs : ue[k].state = "CONNECTED_NORMALLY" => SameLeg(k)
      BY <1>0, <2>2, <2>4 DEF SameLeg
    <2>6. ~Connected("lte")'
      BY <2>3, <2>4 DEF Connected, Attached
    <2> QED
      BY <2>2, <2>3, <2>5, <2>6, BearersAir
  <1> QED
    BY <1>1, <1>2, <1>3, <1>4 DEF UeConfigured

\* The steps of the cells during random access and connection set-up.
LEMMA BearersCellStep ==
    ASSUME Typed, Attachment, Reporting, Bearers, NEW k \in Legs, CellStep(k)
    PROVE  Bearers'
  <1>0. /\ CellsTyped /\ AirTyped /\ LegInv(k) /\ Legs = {"lte", "mm"}
        /\ k = "lte" => ue[k].cell = LteCell
        /\ s1 => ue["lte"].state \in Attached
    BY CellsDiffer DEF Typed, Attachment, ContextAsked
  <1>1. CASE AllocateTemporaryCellRnti(k)
    <2>1. CASE FreeSteps(ue[k].cell) = {}
      BY <1>1, <2>1, BearersStop DEF AllocateTemporaryCellRnti
    <2>2. CASE FreeSteps(ue[k].cell) # {}
      <3>0. PICK c, x : c = ue[k].cell /\ x = [NoContext EXCEPT !.state = "INITIAL_RANDOM_ACCESS"]
        OBVIOUS
      <3>1. PICK r \in Rntis :
                /\ IsNextRnti(c, r)
                /\ ctx' = [ctx EXCEPT ![c][r] = x]
                /\ UNCHANGED <<ue, pdcp, s1, x2>>
                /\ ue[k].state = "IDLE_RANDOM_ACCESS"
        BY <1>1, <2>2, <3>0 DEF AllocateTemporaryCellRnti, terminal, coordinator
      <3>2. x \in Contexts /\ BearerFields(x) /\ x.drbs = {}
        BY <3>0, ContextFields DEF UeStates, BearerFields, NoContext
      <3>3. c \in Nodes
        BY <1>0, <3>0, <3>1, CellsDiffer DEF Legs
      <3>4. ctx[c][r].state = "NONE"
        BY <3>1 DEF IsNextRnti, FreeSteps
      <3>5. \A j \in Legs : ~(/\ ue[j].state = "CONNECTED_NORMALLY"
                              /\ ue[j].cell = c /\ ue[j].rnti = r)
        BY <3>4 DEF Attachment, LegInv, Accepted, ContextOf, ConnectedStates
      <3>6. ReplacesContext(c, r, x)
        BY <1>0, <3>1, <3>2, <3>4, <3>5 DEF ReplacesContext, ConnectedStates
      <3> QED
        BY <3>1, <3>2, <3>3, <3>6, BearersContext
    <2> QED
      BY <2>1, <2>2
  <1>2. CASE RecvRrcConnectionRequest(k)
    <2>1. CASE ContextOf(k).state # "INITIAL_RANDOM_ACCESS"
      BY <1>2, <2>1, BearersStop DEF RecvRrcConnectionRequest
    <2>2. CASE ContextOf(k).state = "INITIAL_RANDOM_ACCESS"
      <3>1. PICK st :
                /\ ctx' = WithContext(k, [ContextOf(k) EXCEPT !.state = st])
                /\ st \in {"CONNECTION_SETUP", "CONNECTION_REJECTED"}
                /\ s1' => s1 \/ k = "lte"
                /\ up[k] # <<>>
                /\ UNCHANGED <<ue, pdcp, x2>>
        <4>0. PICK st : st = IF ue[k].cell \in AdmittingCells THEN "CONNECTION_SETUP"
                                                              ELSE "CONNECTION_REJECTED"
          OBVIOUS
        <4>1. /\ ctx' = WithContext(k, [ContextOf(k) EXCEPT !.state = st])
              /\ s1' => s1 \/ k = "lte"
              /\ up[k] # <<>>
              /\ UNCHANGED <<ue, pdcp, x2>>
          BY <1>2, <2>2, <4>0 DEF RecvRrcConnectionRequest, ArrivesUp, terminal
        <4> QED
          BY <4>0, <4>1
      <3>2. PICK c, r, x : c = ue[k].cell /\ r = ue[k].rnti /\ x = [ContextOf(k) EXCEPT !.state = st]
        OBVIOUS
      <3>3. /\ c \in Nodes /\ r \in Rntis /\ ContextOf(k) \in Contexts
            /\ ContextOf(k) = ctx[c][r] /\ ue[k].state \in Attached
        BY <1>0, <3>1, <3>2, LegLocated, SenderIsAttached DEF ContextOf
      <3>4. BearerFields(ContextOf(k))
        BY <3>3 DEF Bearers, AllFields
      <3>5. /\ x \in Contexts /\ SameBearers(ctx[c][r], x) /\ BearerFields(x)
            /\ x.drbs = {} /\ x.drbs = ctx[c][r].drbs
        BY <2>2, <3>1, <3>2, <3>3, <3>4 DEF Contexts, UeStates, SameBearers, BearerFields
      <3>6. ctx' = [ctx EXCEPT ![c][r] = x]
        BY <3>1, <3>2 DEF WithContext
      <3>7. ReplacesContext(c, r, x)
        BY <1>0, <2>2, <3>1, <3>2, <3>3, <3>5, <3>6 DEF ReplacesContext, ConnectedStates
      <3> QED
        BY <3>3, <3>5, <3>7, BearersContext
    <2> QED
      BY <2>1, <2>2
  <1>3. CASE RecvRrcConnectionSetupCompleted(k)
    <2>1. CASE ContextOf(k).state # "CONNECTION_SETUP"
      BY <1>3, <2>1, BearersStop DEF RecvRrcConnectionSetupCompleted
    <2>2. CASE ContextOf(k).state = "CONNECTION_SETUP"
      <3> DEFINE w == [ContextOf(k) EXCEPT !.pendingConnect = (k = "lte")]
                 good == w.pendingConnect /\ sinr[best] > OutageThreshold
                 outage == w.pendingConnect /\ ~good
      <3>0. PICK c, r, x : c = ue[k].cell /\ r = ue[k].rnti /\ x = Normally(w, outage)
        OBVIOUS
      <3>1. /\ ctx' = WithContext(k, x)
            /\ up[k] # <<>>
            /\ UNCHANGED <<ue, pdcp, s1, x2>>
        BY <1>3, <2>2, <3>0
           DEF RecvRrcConnectionSetupCompleted, ArrivesUp, ConnectedNormally, Normally, terminal
      <3>2. /\ c \in Nodes /\ r \in Rntis /\ ContextOf(k) \in Contexts
            /\ ContextOf(k) = ctx[c][r]
        BY <1>0, <3>0, <3>1, LegLocated, SenderIsAttached DEF ContextOf
      <3>3. w \in Contexts /\ SameBearers(ctx[c][r], w)
        BY <3>2 DEF Contexts, SameBearers
      <3>4. outage \in BOOLEAN
        OBVIOUS
      <3> HIDE DEF w, outage
      <3>5. /\ x \in Contexts /\ SameBearers(ctx[c][r], x)
            /\ x.state \in {"CONNECTION_RECONFIGURATION", "CONNECTED_NORMALLY"}
        <4>1. /\ x \in Contexts
              /\ x.state \in {"CONNECTION_RECONFIGURATION", "CONNECTED_NORMALLY"}
              /\ x.available = w.available /\ x.mmCell = w.mmCell
              /\ x.mmRnti = w.mmRnti /\ x.drbs = w.drbs /\ x.mcDrbs = w.mcDrbs
              /\ x.rlc = w.rlc
          <5>1. PICK u \in Contexts, o \in BOOLEAN : u = w /\ o = outage
            BY <3>3, <3>4
          <5>2. u \in Contexts /\ x = Normally(u, o)
            BY <3>0, <3>3, <5>1
          <5> QED
            BY <5>1, <5>2, NormallyIs
        <4> QED
          BY <3>3, <4>1 DEF SameBearers
      <3>6. BearerFields(x)
        BY <3>2, <3>5 DEF Bearers, AllFields, BearerFields, SameBearers
      <3>7. ctx' = [ctx EXCEPT ![c][r] = x]
        BY <3>0, <3>1 DEF WithContext
      <3>8. x.drbs = ctx[c][r].drbs
        BY <3>5 DEF SameBearers
      <3>9. ReplacesContext(c, r, x)
        BY <1>0, <3>1, <3>5, <3>6, <3>7, <3>8 DEF ReplacesContext, ConnectedStates
      <3> QED
        BY <3>2, <3>5, <3>9, BearersContext
    <2> QED
      BY <2>1, <2>2
  <1> QED
    BY <1>1, <1>2, <1>3 DEF CellStep

\* The first set-up of the bearers finds nothing split, and forgets what earlier attempts
\* have left in the PDCPs.
LEMMA BearersAsked ==
    ASSUME Typed, Attachment, Reporting, Bearers, InitialContextSetup
    PROVE  Bearers'
  <1>0. CellsTyped /\ AirTyped /\ LteCell \in Nodes /\ Legs = {"lte", "mm"} /\ LegInv("lte")
    BY DEF Typed, Nodes, Legs, Attachment
  <1>1. PICK r, x : r = rntiOf[LteCell] /\ x = ctx[LteCell][r]
    OBVIOUS
  <1>2. CASE x.state \in {"NONE", "CONNECTION_REJECTED", "MC_CONNECTION_RECONFIGURATION"}
    BY <1>1, <1>2, BearersStop DEF InitialContextSetup
  <1>3. CASE x.state \notin {"NONE", "CONNECTION_REJECTED", "MC_CONNECTION_RECONFIGURATION"}
    <2> DEFINE now == x.state = "CONNECTED_NORMALLY"
    <2>0. PICK y : y = [x EXCEPT !.drbs = Drbs, !.pendingReconf = ~now \/ Drbs # {FirstDrb},
                                 !.state = IF now THEN "CONNECTION_RECONFIGURATION" ELSE @]
      OBVIOUS
    <2>1. ctx' = [ctx EXCEPT ![LteCell][r] = y] /\ pdcp' = NoPdcp
      BY <1>1, <1>3, <2>0 DEF InitialContextSetup
    <2>2. s1 /\ ~s1' /\ UNCHANGED <<ue, x2>>
      BY <1>1, <1>3 DEF InitialContextSetup, terminal
    <2>3. r = ue["lte"].rnti /\ ue["lte"].state \in Attached /\ ue["lte"].cell = LteCell
      BY <1>0, <1>1, <2>2, CellsDiffer DEF Attachment, ContextAsked
    <2>4. r \in Rntis /\ x \in Contexts /\ Bare(x) /\ BearerFields(x) /\ x = LteX
      BY <1>0, <1>1, <2>3, LegLocated
         DEF CellsTyped, Attachment, BareContexts, Bearers, AllFields, LteX, ContextOf
    <2>5. x.drbs = {} /\ x.mcDrbs = {}
      BY <2>2, <2>4 DEF Bearers, NotSetUpYet, BearerFields
    <2>6. x.state # "INITIAL_RANDOM_ACCESS"
      BY <2>2, <2>4 DEF Attachment, ContextAsked, LteX, ConnectedStates
    <2>7. /\ y \in Contexts /\ y.mcDrbs = {} /\ y.drbs = Drbs
          /\ y.state # "INITIAL_RANDOM_ACCESS" /\ y.available = x.available
          /\ y.mmCell = x.mmCell /\ y.mmRnti = x.mmRnti
      BY <2>0, <2>4, <2>5, <2>6 DEF Contexts, UeStates
    <2>8. BearerFields(y)
      BY <2>4, <2>5, <2>7 DEF BearerFields
    <2>9. \A d \in Nodes, s \in Rntis : ctx'[d][s] = IF d = LteCell /\ s = r THEN y ELSE ctx[d][s]
      BY <1>0, <2>1, <2>7, ContextSet
    <2>10. AllFields'
      BY <2>8, <2>9 DEF Bearers, AllFields
    <2>11. \A d \in Drbs : ~pdcp'[d].mm
      BY <2>1 DEF NoPdcp
    <2>12. LteX'.mcDrbs = {}
      BY <1>0, <2>2, <2>3, <2>4, <2>7, <2>9 DEF LteX, ContextOf
    <2>13. Connected("lte")' => SplitOver(LteX', MmRlc', pdcp', x2')
      <3>1. CASE ~Connected("lte")
        <4>1. \A l \in Links : Items(x2[l]) = {}
          BY <3>1 DEF Attachment, LteFirst, DualStarted, Items
        <4>2. PICK z, rlc, p, net : z = LteX' /\ rlc = MmRlc' /\ p = pdcp' /\ net = x2'
          OBVIOUS
        <4>3. SplitOver(z, rlc, p, net)
          BY <2>2, <2>11, <2>12, <4>1, <4>2, NothingSplit
        <4> QED
          BY <4>2, <4>3
      <3>2. CASE Connected("lte")
        <4>1. SplitOver(x, MmRlc, pdcp, x2)
          BY <2>4, <3>2 DEF Bearers, Splitting
        <4>2. ASSUME NEW l \in Links, NEW m \in Items(x2[l])
              PROVE  Placed(y, MmRlc, pdcp', l, m)
          <5>1. Placed(x, MmRlc, pdcp, l, m)
            BY <4>1 DEF SplitOver
          <5> QED
            BY <2>4, <2>5, <2>7, <5>1 DEF Placed
        <4>3. SplitOver(y, MmRlc, pdcp', x2)
          BY <2>7, <2>11, <4>2 DEF SplitOver
        <4>4. LteX' = y
          BY <1>0, <2>2, <2>3, <2>4, <2>9 DEF LteX, ContextOf
        <4>5. y.mmCell # NoCell => MmRlc' = MmRlc
          <5> SUFFICES ASSUME y.mmCell # NoCell PROVE MmRlc' = MmRlc
            OBVIOUS
          <5>1. /\ ContextOf("mm") = ctx[ue["mm"].cell][ue["mm"].rnti]
                /\ ue["mm"].cell \in Cells /\ ue["mm"].rnti \in Rntis
            BY <2>4, <2>7, <3>2, SecondaryContext
          <5>2. ue["mm"].cell \in Nodes /\ ue["mm"].cell # LteCell
            BY <5>1, CellsAssumption DEF Nodes
          <5> QED
            BY <2>2, <2>9, <5>1, <5>2 DEF MmRlc, ContextOf
        <4>6. PICK rlc, rlc2, p, net : rlc = MmRlc /\ rlc2 = MmRlc' /\ p = pdcp' /\ net = x2
          OBVIOUS
        <4>7. SplitOver(y, rlc2, p, net)
          <5>1. SameBearers(y, y) /\ SplitOver(y, rlc, p, net)
            BY <4>3, <4>6 DEF SameBearers
          <5>2. y.mmCell # NoCell => rlc \subseteq rlc2
            BY <4>5, <4>6
          <5> QED
            BY <2>8, <5>1, <5>2, SplitKept
        <4> QED
          BY <2>2, <4>4, <4>6, <4>7
      <3> QED
        BY <3>1, <3>2
    <2> QED
      BY <2>2, <2>10, <2>11, <2>13 DEF Bearers, NotSetUpYet, Splitting
  <1> QED
    BY <1>2, <1>3

\* Nothing but message m is added, on the link from a to b.
AddsOnly(net, net2, a, b, m) == \A l \in Links : \A n \in Items(net2[l]) :
    n \in Items(net[l]) \/ (l = <<a, b>> /\ n = m)

\* That is so when it is sent.
LEMMA SentItems ==
    ASSUME NEW net \in [Links -> Seq(LinkMessages)], NEW a, NEW b, NEW m \in LinkMessages
    PROVE  AddsOnly(net, Sent(net, a, b, m), a, b, m)
  <1>1. PICK net2 : net2 = Sent(net, a, b, m)
    OBVIOUS
  <1>2. ASSUME NEW l \in Links, NEW n \in Items(net2[l])
        PROVE  n \in Items(net[l]) \/ (l = <<a, b>> /\ n = m)
    <2>1. CASE l = <<a, b>>
      <3>1. net2[l] = Append(net[l], m)
        BY <1>1, <2>1 DEF Sent
      <3>2. Items(net2[l]) = Items(net[l]) \cup {m}
        BY <3>1, ItemsAppend
      <3> QED
        BY <1>2, <2>1, <3>2
    <2>2. CASE l # <<a, b>>
      BY <1>1, <1>2, <2>2 DEF Sent
    <2> QED
      BY <2>1, <2>2
  <1>3. AddsOnly(net, net2, a, b, m)
    BY <1>2 DEF AddsOnly
  <1> QED
    BY <1>1, <1>3

\* What is on the links when a message is taken.
LEMMA TakenItems ==
    ASSUME NEW net \in [Links -> Seq(LinkMessages)], NEW a, NEW b, NEW type,
           Arrives(net, a, b, type)
    PROVE  /\ <<a, b>> \in Links
           /\ Head(net[<<a, b>>]) \in Items(net[<<a, b>>])
           /\ Head(net[<<a, b>>]) \in LinkMessages
           /\ Head(net[<<a, b>>]).type = type
           /\ Taken(net, a, b) \in [Links -> Seq(LinkMessages)]
           /\ \A l \in Links : Items(Taken(net, a, b)[l]) \subseteq Items(net[l])
           /\ \A l \in Links : l # <<a, b>> => Taken(net, a, b)[l] = net[l]
           /\ Items(net[<<a, b>>]) \subseteq
                  Items(Taken(net, a, b)[<<a, b>>]) \cup {Head(net[<<a, b>>])}
  <1>1. /\ <<a, b>> \in Links /\ net[<<a, b>>] # <<>>
        /\ Head(net[<<a, b>>]).type = type
    BY DEF Arrives
  <1>2. net[<<a, b>>] \in Seq(LinkMessages)
    BY <1>1
  <1>3. \A l \in Links : Taken(net, a, b)[l] =
            IF l = <<a, b>> THEN Tail(net[l]) ELSE net[l]
    BY DEF Taken
  <1>4. /\ Tail(net[<<a, b>>]) \in Seq(LinkMessages)
        /\ Head(net[<<a, b>>]) \in LinkMessages
        /\ Head(net[<<a, b>>]) \in Items(net[<<a, b>>])
        /\ Items(Tail(net[<<a, b>>])) \subseteq Items(net[<<a, b>>])
        /\ Items(net[<<a, b>>]) \subseteq
               Items(Tail(net[<<a, b>>])) \cup {Head(net[<<a, b>>])}
    BY <1>1, <1>2, ItemsTail
  <1>5. Taken(net, a, b) \in [Links -> Seq(LinkMessages)]
    BY <1>4 DEF Taken
  <1> QED
    BY <1>1, <1>3, <1>4, <1>5

\* The requests for the RLCs that are missing, and the PDCPs that are directed with them.
RequestsFor(x, p, new) ==
    /\ x.drbs \subseteq new \cup x.mcDrbs
    /\ \A l \in Links : Items(x2'[l]) = Items(x2[l]) \cup
           (IF l = <<LteCell, x.mmCell>> THEN {RlcSetupRequest(d, x.mmRnti) : d \in new} ELSE {})
    /\ \A d \in Drbs : /\ pdcp'[d].mm = p[d].mm
                       /\ d \in new => DirectedTo(pdcp'[d], x)
                       /\ DirectedTo(p[d], x) => DirectedTo(pdcp'[d], x)

LEMMA RequestsMade ==
    ASSUME NEW x \in Contexts, NEW p \in [Drbs -> Pdcps], NEW lastCell,
           x2 \in [Links -> Seq(LinkMessages)], x.mmCell \in Cells,
           SetupRemoteRlcs(x, p, lastCell)
    PROVE  \E new \in SUBSET x.drbs : RequestsFor(x, p, new)
  <1>1. PICK new, order : new = WithoutRlc(x, lastCell) /\ order = InOrder(new)
    OBVIOUS
  <1>2. PICK l0 \in Links : l0 = <<LteCell, x.mmCell>>
    BY CellsAssumption DEF Links, Nodes
  <1>3. /\ new \in SUBSET Drbs /\ new \subseteq x.drbs
        /\ x.drbs \subseteq new \cup x.mcDrbs
        /\ x.mmRnti \in SomeRnti
    BY <1>1, ContextFields DEF WithoutRlc
  <1>4. /\ pdcp' = [d \in Drbs |-> IF d \in new THEN Directed(p[d], x) ELSE p[d]]
        /\ x2' = IF new = {} THEN x2
                 ELSE [x2 EXCEPT ![l0] = @ \o
                        [i \in DOMAIN order |-> RlcSetupRequest(order[i], x.mmRnti)]]
    BY <1>1, <1>2 DEF SetupRemoteRlcs
  <1>5. PICK n \in Nat : /\ order \in [1 .. n -> new]
                         /\ \A d \in new : \E i \in 1 .. n : order[i] = d
    <2>1. PICK n : n = Cardinality(new)
      OBVIOUS
    <2>2. /\ Cardinality(new) \in Nat
          /\ InOrder(new) \in [1 .. Cardinality(new) -> new]
          /\ \A d \in new : \E i \in 1 .. Cardinality(new) : InOrder(new)[i] = d
      BY <1>3, InOrderLists
    <2>3. /\ n \in Nat /\ order \in [1 .. n -> new]
          /\ \A d \in new : \E i \in 1 .. n : order[i] = d
      BY <1>1, <2>1, <2>2
    <2> QED
      BY <2>3
  <1>6. PICK requests : requests = [i \in DOMAIN order |-> RlcSetupRequest(order[i], x.mmRnti)]
    OBVIOUS
  <1>7. /\ requests \in Seq(LinkMessages)
        /\ Items(requests) = {RlcSetupRequest(d, x.mmRnti) : d \in new}
    <2>1. \A i \in 1 .. n : RlcSetupRequest(order[i], x.mmRnti) \in LinkMessages
      BY <1>3, <1>5, MessagesAre
    <2>2. requests \in [1 .. n -> LinkMessages]
      BY <1>5, <1>6, <2>1
    <2>3. requests \in Seq(LinkMessages) /\ Len(requests) = n
      BY <2>2
    <2>4. \A i \in 1 .. n : requests[i] = RlcSetupRequest(order[i], x.mmRnti)
      BY <1>5, <1>6
    <2>5. Items(requests) \subseteq {RlcSetupRequest(d, x.mmRnti) : d \in new}
      BY <1>5, <2>3, <2>4 DEF Items
    <2>6. ASSUME NEW d \in new PROVE RlcSetupRequest(d, x.mmRnti) \in Items(requests)
      <3>1. PICK i \in 1 .. n : order[i] = d
        BY <1>5, <2>6
      <3> QED
        BY <2>3, <2>4, <3>1 DEF Items
    <2> QED
      BY <2>3, <2>5, <2>6
  <1>8. \A l \in Links : Items(x2'[l]) =
            Items(x2[l]) \cup (IF l = l0 THEN {RlcSetupRequest(d, x.mmRnti) : d \in new} ELSE {})
    <2>1. CASE new = {}
      BY <1>4, <2>1
    <2>2. CASE new # {}
      <3>1. \A l \in Links : x2'[l] = IF l = l0 THEN x2[l] \o requests ELSE x2[l]
        BY <1>4, <1>6, <2>2
      <3>2. Items(x2[l0] \o requests) = Items(x2[l0]) \cup Items(requests)
        BY <1>2, <1>7, ItemsConcat
      <3> QED
        BY <1>7, <3>1, <3>2
    <2> QED
      BY <2>1, <2>2
  <1>9. \A d \in Drbs : /\ pdcp'[d].mm = p[d].mm
                        /\ d \in new => DirectedTo(pdcp'[d], x)
                        /\ DirectedTo(p[d], x) => DirectedTo(pdcp'[d], x)
    BY <1>4 DEF Directed, DirectedTo, Pdcps
  <1>10. RequestsFor(x, p, new)
    <2>1. \A l \in Links : Items(x2'[l]) = Items(x2[l]) \cup
              (IF l = <<LteCell, x.mmCell>> THEN {RlcSetupRequest(d, x.mmRnti) : d \in new} ELSE {})
      BY <1>2, <1>8
    <2> QED
      BY <1>3, <1>9, <2>1 DEF RequestsFor
  <1> QED
    BY <1>3, <1>10

\* They leave no bearer without a RLC.
LEMMA RequestsSent ==
    ASSUME NEW x \in Contexts, NEW p \in [Drbs -> Pdcps], NEW lastCell,
           x2 \in [Links -> Seq(LinkMessages)], x.mmCell \in Cells,
           SetupRemoteRlcs(x, p, lastCell)
    PROVE  /\ \A d \in Drbs : pdcp'[d].mm = p[d].mm
           /\ \A l \in Links : Items(x2[l]) \subseteq Items(x2'[l])
           /\ \A d \in x.drbs : \/ d \in x.mcDrbs
                                \/ RlcSetupRequest(d, x.mmRnti) \in
                                       Items(x2'[<<LteCell, x.mmCell>>])
  <1>1. PICK new \in SUBSET x.drbs : RequestsFor(x, p, new)
    BY RequestsMade
  <1>2. <<LteCell, x.mmCell>> \in Links
    BY CellsAssumption DEF Links, Nodes
  <1> QED
    BY <1>1, <1>2 DEF RequestsFor

\* The requests are part of the split.
LEMMA SplitRequests ==
    ASSUME NEW x \in Contexts, NEW rlc, NEW p \in [Drbs -> Pdcps], NEW lastCell,
           x2 \in [Links -> Seq(LinkMessages)], x.mmCell \in Cells,
           SplitOver(x, rlc, p, x2), SetupRemoteRlcs(x, p, lastCell)
    PROVE  SplitOver(x, rlc, pdcp', x2')
  <1>1. PICK new \in SUBSET x.drbs : RequestsFor(x, p, new)
    BY RequestsMade
  <1>2. PICK l0 \in Links : l0 = <<LteCell, x.mmCell>>
    BY CellsAssumption DEF Links, Nodes
  <1>3. x.drbs \in SUBSET Drbs
    BY ContextFields
  <1>4. \A l \in Links : Items(x2'[l]) =
            Items(x2[l]) \cup (IF l = l0 THEN {RlcSetupRequest(d, x.mmRnti) : d \in new} ELSE {})
    BY <1>1, <1>2 DEF RequestsFor
  <1>5. \A d \in Drbs : /\ pdcp'[d].mm = p[d].mm
                        /\ d \in new => DirectedTo(pdcp'[d], x)
                        /\ DirectedTo(p[d], x) => DirectedTo(pdcp'[d], x)
    BY <1>1 DEF RequestsFor
  <1>6. ASSUME NEW l \in Links, NEW m \in Items(x2'[l])
         PROVE  Placed(x, rlc, pdcp', l, m)
    <2>1. CASE m \in Items(x2[l])
      <3>1. Placed(x, rlc, p, l, m)
        BY <2>1 DEF SplitOver
      <3>2. x.drbs \subseteq Drbs
        BY ContextFields
      <3> QED
        BY <1>5, <3>1, <3>2 DEF Placed
    <2>2. CASE l = l0 /\ \E d \in new : m = RlcSetupRequest(d, x.mmRnti)
      <3>1. PICK d \in new : m = RlcSetupRequest(d, x.mmRnti)
        BY <2>2
      <3>2. m.type = "RlcSetupRequest" /\ m.drb = d /\ m.rnti = x.mmRnti
        BY <3>1, MessagesAre
      <3>3. x.mmCell # NoCell
        BY CellsAssumption DEF NoCell
      <3> QED
        BY <1>2, <1>3, <1>5, <2>2, <3>2, <3>3 DEF Placed
    <2> QED
      BY <1>4, <1>6, <2>1, <2>2
  <1>7. \A d \in x.mcDrbs : d \in rlc /\ DirectedTo(pdcp'[d], x)
    BY <1>5, ContextFields DEF SplitOver
  <1> QED
    BY <1>5, <1>6, <1>7 DEF SplitOver

\* A step of the LTE cell that goes on with the split of its connected UE.
LEMMA BearersLte ==
    ASSUME Typed, Attachment, Reporting, Bearers, Connected("lte"), NEW x \in Contexts,
           ctx' = [ctx EXCEPT ![LteCell][rntiOf[LteCell]] = x], UNCHANGED <<ue, s1>>,
           x.drbs = LteX.drbs, BearerFields(x), x.state \in ConnectedStates,
           x.mmCell # NoCell => ue["mm"].state = "CONNECTED_NORMALLY",
           SplitOver(x, MmRlc, pdcp', x2')
    PROVE  Bearers' /\ LteX' = x
  <1>0. CellsTyped /\ LteCell \in Nodes /\ "mm" \in Legs /\ LegInv("mm")
    BY CellsDiffer DEF Typed, Nodes, Legs
  <1>1. PICK r \in Rntis : r = rntiOf[LteCell] /\ r = ue["lte"].rnti /\ ue["lte"].cell = LteCell
    BY LteContextIs
  <1>2. \A d \in Nodes, s \in Rntis : ctx'[d][s] = IF d = LteCell /\ s = r THEN x ELSE ctx[d][s]
    BY <1>0, <1>1, ContextSet
  <1>3. AllFields'
    BY <1>2 DEF Bearers, AllFields
  <1>4. LteX' = x
    BY <1>0, <1>1, <1>2 DEF LteX, ContextOf
  <1>5. x.mmCell # NoCell => MmRlc' = MmRlc
    <2> SUFFICES ASSUME x.mmCell # NoCell PROVE MmRlc' = MmRlc
      OBVIOUS
    <2>1. ue["mm"].cell \in Cells /\ ue["mm"].rnti \in Rntis
      BY <1>0, LegLocated DEF Attached
    <2>2. ue["mm"].cell \in Nodes /\ ue["mm"].cell # LteCell
      BY <2>1, CellsAssumption DEF Nodes
    <2> QED
      BY <1>2, <2>1, <2>2 DEF MmRlc, ContextOf
  <1>6. PICK rlc, rlc2, p, net : rlc = MmRlc /\ rlc2 = MmRlc' /\ p = pdcp' /\ net = x2'
    OBVIOUS
  <1>7. SplitOver(x, rlc2, p, net)
    <2>1. SameBearers(x, x) /\ SplitOver(x, rlc, p, net)
      BY <1>6 DEF SameBearers
    <2>2. x.mmCell # NoCell => rlc \subseteq rlc2
      BY <1>5, <1>6
    <2> QED
      BY <2>1, <2>2, SplitKept
  <1>8. Connected("lte")'
    BY <1>4 DEF Connected, LteX
  <1>9. Splitting'
    BY <1>4, <1>6, <1>7, <1>8 DEF Splitting
  <1>10. NotSetUpYet'
    BY <1>4 DEF NotSetUpYet, Bearers
  <1> QED
    BY <1>3, <1>4, <1>9, <1>10 DEF Bearers

\* The fields of the bearers of a context.
LEMMA FieldsOf ==
    ASSUME Bearers, NEW c \in Nodes, NEW r \in Rntis
    PROVE  BearerFields(ctx[c][r])
  BY DEF Bearers, AllFields

\* The report of the mmWave connection: the RLCs are asked for in the cell of which
\* the LTE cell knows now, or has known all the time.
LEMMA BearersReported ==
    ASSUME Typed, Attachment, Reporting, Bearers, RecvSecondaryCellConnected
    PROVE  Bearers'
  <1>0. CellsTyped /\ CoordinatorTyped /\ AirTyped /\ LteCell \in Nodes /\ Legs = {"lte", "mm"}
    BY DEF Typed, Nodes, Legs
  <1>1. CASE ContextOf("lte").state = "NONE"
    BY <1>1, BearersStop DEF RecvSecondaryCellConnected
  <1>2. CASE ContextOf("lte").state # "NONE"
    <2>1. PICK m, y : m = Head(up["lte"]) /\ y = ContextOf("lte")
      OBVIOUS
    <2> DEFINE x == [y EXCEPT !.mmCell = m.cell, !.mmRnti = m.rnti,
                              !.available = @ \/ y.drbs = {}]
    <2>2. /\ ctx' = WithContext("lte", x)
          /\ SetupRemoteRlcs(x, pdcp, last)
          /\ up["lte"] # <<>> /\ m.type = "SecondaryCellConnected"
          /\ UNCHANGED <<ue, s1>>
      BY <1>2, <2>1 DEF RecvSecondaryCellConnected, ArrivesUp, terminal
    <2>3. Connected("lte")
      BY <2>1, <2>2, TakesFromConnected
    <2>4. /\ y \in Contexts /\ y = ctx[LteCell][rntiOf[LteCell]] /\ rntiOf[LteCell] \in Rntis
          /\ ue["lte"].cell = LteCell /\ ue["lte"].rnti = rntiOf[LteCell]
          /\ y.state \in ConnectedStates
      BY <2>1, <2>3, LteContextIs DEF Connected
    <2>5. m \in Items(up["lte"]) /\ m.cell \in SomeCell /\ m.rnti \in SomeRnti
      BY <1>0, <2>1, <2>2, ItemsTail, TypedSent, FieldTypes DEF AirTyped
    <2>6. ServedBy(m.cell, m.rnti)
      BY <2>2, <2>5 DEF Reporting, Reports
    <2>7. ue["mm"].state = "CONNECTED_NORMALLY" /\ m.cell = ue["mm"].cell /\ m.rnti = ue["mm"].rnti
      BY <2>6 DEF ServedBy
    <2>8. m.cell \in Cells
      BY <1>0, <2>7, LegLocated DEF Attachment, Attached
    <2>9. /\ x \in Contexts /\ x.mmCell = m.cell /\ x.mmRnti = m.rnti /\ x.drbs = y.drbs
          /\ x.mcDrbs = y.mcDrbs /\ x.state = y.state
      BY <2>4, <2>5 DEF Contexts, SomeCell, SomeRnti
    <2>10. ctx' = [ctx EXCEPT ![LteCell][rntiOf[LteCell]] = x]
      BY <2>2, <2>4 DEF WithContext
    <2> HIDE DEF x
    <2>11. BearerFields(y)
      BY <1>0, <2>4, FieldsOf
    <2>12. x.mmCell # NoCell
      BY <2>8, <2>9, CellsAssumption DEF NoCell
    <2>13. BearerFields(x)
      BY <2>9, <2>11, <2>12 DEF BearerFields
    <2>14. SplitOver(y, MmRlc, pdcp, x2)
      BY <2>1, <2>3 DEF Bearers, Splitting, LteX
    <2>15. SplitOver(x, MmRlc, pdcp, x2)
      <3>1. CASE y.mmCell = NoCell
        <4>1. \A l \in Links : Items(x2[l]) = {}
          BY <2>14, <3>1 DEF SplitOver, Placed
        <4>2. x.mcDrbs = {} /\ \A d \in Drbs : ~pdcp[d].mm
          BY <2>9, <2>11, <2>14, <3>1 DEF SplitOver, BearerFields
        <4>3. PICK rlc, p, net : rlc = MmRlc /\ p = pdcp /\ net = x2
          OBVIOUS
        <4>4. SplitOver(x, rlc, p, net)
          BY <4>1, <4>2, <4>3, NothingSplit
        <4> QED
          BY <4>3, <4>4
      <3>2. CASE y.mmCell # NoCell
        <4>1. y.mmCell = m.cell /\ y.mmRnti = m.rnti
          BY <2>1, <2>3, <2>7, <3>2, SecondaryContext DEF LteX
        <4>2. ASSUME NEW l \in Links, NEW n \in Items(x2[l])
              PROVE  Placed(x, MmRlc, pdcp, l, n)
          <5>1. Placed(y, MmRlc, pdcp, l, n)
            BY <2>14 DEF SplitOver
          <5> QED
            BY <2>9, <4>1, <5>1 DEF Placed, DirectedTo
        <4> QED
          BY <2>9, <2>14, <4>1, <4>2 DEF SplitOver, DirectedTo
      <3> QED
        BY <3>1, <3>2
    <2>16. SplitOver(x, MmRlc, pdcp', x2')
      <3>1. PICK rlc, p, lastCell : rlc = MmRlc /\ p = pdcp /\ lastCell = last
        OBVIOUS
      <3>2. p \in [Drbs -> Pdcps] /\ x2 \in [Links -> Seq(LinkMessages)] /\ x.mmCell \in Cells
        BY <1>0, <2>8, <2>9, <3>1 DEF CoordinatorTyped, AirTyped
      <3>3. SplitOver(x, rlc, p, x2) /\ SetupRemoteRlcs(x, p, lastCell)
        BY <2>2, <2>15, <3>1
      <3>4. SplitOver(x, rlc, pdcp', x2')
        BY <2>9, <3>2, <3>3, SplitRequests
      <3> QED
        BY <3>1, <3>4
    <2> QED
      BY <2>1, <2>2, <2>3, <2>4, <2>7, <2>9, <2>10, <2>13, <2>16, BearersLte DEF LteX
  <1> QED
    BY <1>1, <1>2

\* A reconfiguration is complete: bearers that are split go to mmWave, and the RLCs
\* that could not be asked for before are asked for.
LEMMA BearersReconfigured ==
    ASSUME Typed, Attachment, Reporting, Bearers, RecvReconfigurationCompleted
    PROVE  Bearers'
  <1>0. CellsTyped /\ CoordinatorTyped /\ AirTyped /\ LteCell \in Nodes /\ Legs = {"lte", "mm"}
    BY DEF Typed, Nodes, Legs
  <1>1. PICK x : x = ContextOf("lte")
    OBVIOUS
  <1>2. CASE x.state \notin ConnectedStates
    BY <1>1, <1>2, BearersStop DEF RecvReconfigurationCompleted
  <1>3. CASE x.state \in ConnectedStates
    <2>1. /\ up["lte"] # <<>> /\ Head(up["lte"]).type = "ReconfCompleted"
          /\ UNCHANGED <<ue, s1>>
      BY <1>1, <1>3 DEF RecvReconfigurationCompleted, ArrivesUp, terminal
    <2>2. Connected("lte")
      BY <2>1, TakesFromConnected
    <2>3. /\ x \in Contexts /\ x = ctx[LteCell][rntiOf[LteCell]] /\ rntiOf[LteCell] \in Rntis
          /\ ue["lte"].cell = LteCell /\ ue["lte"].rnti = rntiOf[LteCell] /\ Bare(x)
      BY <1>1, <2>2, LteContextIs
    <2>4. CASE x.state = "CONNECTED_NORMALLY"
      <3>1. UNCHANGED <<ctx, pdcp, x2>>
        BY <1>1, <1>3, <2>4 DEF RecvReconfigurationCompleted
      <3> QED
        BY <2>1, <3>1, BearersSame
    <2>5. CASE x.state # "CONNECTED_NORMALLY"
      <3>1. PICK split \in BOOLEAN : split <=> x.state = "MC_CONNECTION_RECONFIGURATION"
        OBVIOUS
      <3> DEFINE p == [d \in Drbs |-> IF split /\ d \in x.mcDrbs
                                      THEN [pdcp[d] EXCEPT !.mm = TRUE] ELSE pdcp[d]]
                 y == Normally(x, x.pendingConnect /\ ~(x.pendingConnect
                                                          /\ sinr[best] > OutageThreshold))
      <3>2. /\ IF x.available THEN SetupRemoteRlcs(x, p, last') ELSE pdcp' = p /\ x2' = x2
            /\ ConnectedNormally("lte", x, usingLte /\ ~split)
        BY <1>1, <1>3, <2>5, <3>1 DEF RecvReconfigurationCompleted
      <3>3. ctx' = WithContext("lte", y)
        BY <3>2 DEF ConnectedNormally, Normally
      <3>4. /\ y \in Contexts /\ SameBearers(x, y)
            /\ y.state \in {"CONNECTED_NORMALLY", "CONNECTION_RECONFIGURATION"}
        <4>1. PICK outage \in BOOLEAN : outage = (x.pendingConnect /\ ~(x.pendingConnect
                                                          /\ sinr[best] > OutageThreshold))
          OBVIOUS
        <4>2. y = Normally(x, outage)
          BY <4>1
        <4> HIDE DEF y
        <4> QED
          BY <2>3, <4>2, NormallyIs DEF SameBearers
      <3> HIDE DEF y
      <3>5. /\ p \in [Drbs -> Pdcps]
            /\ \A d \in Drbs : /\ p[d].cell = pdcp[d].cell /\ p[d].rnti = pdcp[d].rnti
                               /\ p[d].mm => pdcp[d].mm \/ d \in x.mcDrbs
        BY <1>0 DEF CoordinatorTyped, Pdcps
      <3> HIDE DEF p
      <3>6. BearerFields(x)
        BY <1>0, <2>3, FieldsOf
      <3>7. SplitOver(x, MmRlc, p, x2)
        <4>1. SplitOver(x, MmRlc, pdcp, x2) /\ x.drbs \subseteq Drbs /\ x.mcDrbs \subseteq Drbs
          BY <1>1, <2>2, <2>3, ContextFields DEF Bearers, Splitting, LteX
        <4>2. ASSUME NEW l \in Links, NEW n \in Items(x2[l])
              PROVE  Placed(x, MmRlc, p, l, n)
          <5>1. Placed(x, MmRlc, pdcp, l, n)
            BY <4>1 DEF SplitOver
          <5> QED
            BY <3>5, <4>1, <5>1 DEF Placed, DirectedTo
        <4>3. \A d \in x.mcDrbs : d \in MmRlc /\ DirectedTo(p[d], x)
          BY <3>5, <4>1 DEF SplitOver, DirectedTo
        <4>4. \A d \in Drbs : p[d].mm => d \in x.mcDrbs
          BY <3>5, <4>1 DEF SplitOver
        <4> QED
          BY <4>2, <4>3, <4>4 DEF SplitOver
      <3>8. SplitOver(x, MmRlc, pdcp', x2')
        <4>1. CASE ~x.available
          BY <3>2, <3>7, <4>1
        <4>2. CASE x.available
          <5>1. PICK rlc, lastCell : rlc = MmRlc /\ lastCell = last'
            OBVIOUS
          <5>2. x2 \in [Links -> Seq(LinkMessages)] /\ x.mmCell \in Cells
            BY <1>0, <2>3, <3>6, <4>2, ContextFields DEF AirTyped, BearerFields, SomeCell
          <5>3. SplitOver(x, rlc, p, x2) /\ SetupRemoteRlcs(x, p, lastCell)
            BY <3>2, <3>7, <4>2, <5>1
          <5>4. SplitOver(x, rlc, pdcp', x2')
            BY <2>3, <3>5, <5>2, <5>3, SplitRequests
          <5> QED
            BY <5>1, <5>4
        <4> QED
          BY <4>1, <4>2
      <3>9. SplitOver(y, MmRlc, pdcp', x2')
        <4>1. PICK rlc, q, net : rlc = MmRlc /\ q = pdcp' /\ net = x2'
          OBVIOUS
        <4>2. SplitOver(y, rlc, q, net)
          BY <3>4, <3>6, <3>8, <4>1, SplitKept
        <4> QED
          BY <4>1, <4>2
      <3>10. BearerFields(y) /\ y.state \in ConnectedStates /\ y.drbs = x.drbs
        BY <3>4, <3>6 DEF BearerFields, SameBearers, ConnectedStates
      <3>11. y.mmCell # NoCell => ue["mm"].state = "CONNECTED_NORMALLY"
        BY <1>1, <2>2, <3>4, SecondaryContext DEF LteX, SameBearers
      <3>12. ctx' = [ctx EXCEPT ![LteCell][rntiOf[LteCell]] = y]
        BY <2>3, <3>3 DEF WithContext
      <3> QED
        BY <1>1, <2>1, <2>2, <3>4, <3>9, <3>10, <3>11, <3>12, BearersLte DEF LteX
    <2> QED
      BY <2>4, <2>5
  <1> QED
    BY <1>2, <1>3

\* The steps on the X2 links: a request becomes a confirmation, which becomes a bearer
\* that is split.
LEMMA BearersX2 ==
    ASSUME Typed, Attachment, Reporting, Bearers, NEW c \in Cells, X2Step(c)
    PROVE  Bearers'
  <1>0. /\ CellsTyped /\ x2 \in [Links -> Seq(LinkMessages)] /\ LteCell \in Nodes
        /\ c \in Nodes /\ c # LteCell /\ <<LteCell, c>> # <<c, LteCell>>
        /\ c # NoCell
    BY CellsAssumption DEF Typed, AirTyped, Nodes, NoCell
  <1>1. CASE RecvRlcSetupRequest(c)
    <2>1. PICK m : m = Head(x2[<<LteCell, c>>])
      OBVIOUS
    <2>2. CASE ~Known(c, m.rnti)
      BY <1>1, <2>1, <2>2, BearersStop DEF RecvRlcSetupRequest
    <2>3. CASE Known(c, m.rnti)
      <3>1. /\ ctx' = [ctx EXCEPT ![c][m.rnti].rlc = @ \cup {m.drb}]
            /\ x2' = Sent(Taken(x2, LteCell, c), c, LteCell, RlcSetupCompleted(m.drb))
            /\ Arrives(x2, LteCell, c, "RlcSetupRequest")
            /\ UNCHANGED <<ue, s1, pdcp>>
        BY <1>1, <2>1, <2>3 DEF RecvRlcSetupRequest, terminal, coordinator
      <3>2. Connected("lte")
        BY <3>1, OnALink
      <3>3. PICK net : net = Taken(x2, LteCell, c)
        OBVIOUS
      <3>4. /\ m \in Items(x2[<<LteCell, c>>]) /\ m \in LinkMessages
            /\ m.type = "RlcSetupRequest" /\ net \in [Links -> Seq(LinkMessages)]
            /\ \A l \in Links : Items(net[l]) \subseteq Items(x2[l])
            /\ <<LteCell, c>> \in Links
        BY <1>0, <2>1, <3>1, <3>3, TakenItems
      <3>5. m.drb \in Drbs /\ m.rnti \in Rntis
        BY <2>3, <3>4, FieldTypes DEF Known, SomeRnti
      <3>6. PICK y, rlc : y = LteX /\ rlc = MmRlc
        OBVIOUS
      <3>7. SplitOver(y, rlc, pdcp, x2)
        BY <3>2, <3>6 DEF Bearers, Splitting
      <3>8. Placed(y, rlc, pdcp, <<LteCell, c>>, m)
        BY <3>4, <3>7 DEF SplitOver
      <3>9. /\ y.mmCell = c /\ m.rnti = y.mmRnti /\ m.drb \in y.drbs
            /\ DirectedTo(pdcp[m.drb], y)
        BY <3>4, <3>8 DEF Placed
      <3>10. /\ ue["mm"].cell = c /\ ue["mm"].rnti = m.rnti
             /\ ContextOf("mm") = ctx[c][m.rnti] /\ ContextOf("mm") \in Contexts
        BY <1>0, <3>2, <3>6, <3>9, SecondaryContext
      <3> DEFINE x == [ctx[c][m.rnti] EXCEPT !.rlc = @ \cup {m.drb}]
      <3>11. x \in Contexts /\ x.rlc = rlc \cup {m.drb}
        BY <3>5, <3>6, <3>10 DEF Contexts, MmRlc
      <3>12. BearerFields(x)
        <4>1. BearerFields(ctx[c][m.rnti])
          BY <1>0, <3>5, FieldsOf
        <4>2. /\ x.drbs = ctx[c][m.rnti].drbs /\ x.mcDrbs = ctx[c][m.rnti].mcDrbs
              /\ x.mmCell = ctx[c][m.rnti].mmCell /\ x.state = ctx[c][m.rnti].state
              /\ x.available = ctx[c][m.rnti].available
          BY <3>10 DEF Contexts
        <4> QED
          BY <4>1, <4>2 DEF BearerFields
      <3>13. ctx' = [ctx EXCEPT ![c][m.rnti] = x]
        BY <3>1
      <3> HIDE DEF x
      <3>14. \A d \in Nodes, s \in Rntis :
                 ctx'[d][s] = IF d = c /\ s = m.rnti THEN x ELSE ctx[d][s]
        BY <1>0, <3>5, <3>11, <3>13, ContextSet
      <3>15. AllFields'
        BY <3>12, <3>14 DEF Bearers, AllFields
      <3>16. y = ctx[LteCell][rntiOf[LteCell]] /\ rntiOf[LteCell] \in Rntis
             /\ ue["lte"].cell = LteCell /\ ue["lte"].rnti = rntiOf[LteCell]
        BY <3>2, <3>6, LteContextIs DEF LteX
      <3>17. LteX' = y
        BY <1>0, <3>1, <3>14, <3>16 DEF LteX, ContextOf
      <3>18. MmRlc' = rlc \cup {m.drb}
        BY <1>0, <3>1, <3>5, <3>10, <3>11, <3>14 DEF MmRlc, ContextOf
      <3>19. PICK net2 : net2 = x2'
        OBVIOUS
      <3>20. \A l \in Links : \A o \in Items(net2[l]) :
                 \/ o \in Items(net[l])
                 \/ l = <<c, LteCell>> /\ o = RlcSetupCompleted(m.drb)
        <4>1. PICK n : n = RlcSetupCompleted(m.drb)
          OBVIOUS
        <4>2. n \in LinkMessages
          BY <3>5, <4>1, MessagesAre
        <4>3. net2 = Sent(net, c, LteCell, n)
          BY <3>1, <3>3, <3>19, <4>1
        <4>4. AddsOnly(net, net2, c, LteCell, n)
          BY <3>4, <4>2, <4>3, SentItems
        <4> QED
          BY <4>1, <4>4 DEF AddsOnly
      <3>21. SplitOver(y, rlc \cup {m.drb}, pdcp, net2)
        <4>1. ASSUME NEW l \in Links, NEW n \in Items(net2[l])
              PROVE  Placed(y, rlc \cup {m.drb}, pdcp, l, n)
          <5>1. CASE n \in Items(net[l])
            <6>1. Placed(y, rlc, pdcp, l, n)
              BY <3>4, <3>7, <5>1 DEF SplitOver
            <6> QED
              BY <6>1 DEF Placed
          <5>2. CASE l = <<c, LteCell>> /\ n = RlcSetupCompleted(m.drb)
            <6>1. n.type = "RlcSetupCompleted" /\ n.drb = m.drb
              BY <5>2, MessagesAre
            <6> QED
              BY <1>0, <3>9, <5>2, <6>1 DEF Placed
          <5> QED
            BY <3>20, <4>1, <5>1, <5>2
        <4> QED
          BY <3>7, <4>1 DEF SplitOver
      <3>22. Connected("lte")'
        BY <3>1, <3>2, <3>6, <3>17 DEF Connected, LteX
      <3>23. Splitting'
        BY <3>1, <3>17, <3>18, <3>19, <3>21, <3>22 DEF Splitting
      <3>24. NotSetUpYet'
        BY <3>1, <3>6, <3>17 DEF NotSetUpYet, Bearers
      <3> QED
        BY <3>15, <3>23, <3>24 DEF Bearers
    <2> QED
      BY <2>2, <2>3
  <1>2. CASE RecvRlcSetupCompleted(c)
    <2>1. PICK m, d, r : m = Head(x2[<<c, LteCell>>]) /\ d = m.drb /\ r = rntiOf[LteCell]
      OBVIOUS
    <2> DEFINE x == [ctx[LteCell][r] EXCEPT !.mcDrbs = @ \cup {d}, !.pendingReconf = FALSE,
                                            !.state = "MC_CONNECTION_RECONFIGURATION"]
    <2>2. CASE ~Known(LteCell, r) \/ d \notin x.drbs
      BY <1>2, <2>1, <2>2, BearersStop DEF RecvRlcSetupCompleted
    <2>3. CASE ~(~Known(LteCell, r) \/ d \notin x.drbs)
      <3>1. /\ ctx' = [ctx EXCEPT ![LteCell][r] = x]
            /\ Arrives(x2, c, LteCell, "RlcSetupCompleted")
            /\ x2' = Taken(x2, c, LteCell)
            /\ UNCHANGED <<ue, s1, pdcp>>
        BY <1>2, <2>1, <2>3 DEF RecvRlcSetupCompleted, terminal, coordinator
      <3>2. Connected("lte")
        BY <3>1, OnALink
      <3>3. /\ m \in Items(x2[<<c, LteCell>>]) /\ m \in LinkMessages
            /\ m.type = "RlcSetupCompleted" /\ <<c, LteCell>> \in Links
            /\ \A l \in Links : Items(x2'[l]) \subseteq Items(x2[l])
        BY <1>0, <2>1, <3>1, TakenItems
      <3>4. d \in Drbs
        BY <2>1, <3>3, FieldTypes
      <3>5. PICK y, rlc : y = LteX /\ rlc = MmRlc
        OBVIOUS
      <3>6. y = ctx[LteCell][r] /\ r \in Rntis /\ y \in Contexts
        BY <2>1, <3>2, <3>5, LteContextIs DEF LteX
      <3>7. SplitOver(y, rlc, pdcp, x2) /\ BearerFields(y)
        BY <1>0, <3>2, <3>5, <3>6, FieldsOf DEF Bearers, Splitting
      <3>8. Placed(y, rlc, pdcp, <<c, LteCell>>, m)
        BY <3>3, <3>7 DEF SplitOver
      <3>9. d \in rlc /\ d \in y.drbs /\ DirectedTo(pdcp[d], y) /\ y.mmCell # NoCell
        BY <2>1, <3>3, <3>8 DEF Placed
      <3>10. /\ x \in Contexts /\ x.drbs = y.drbs /\ x.mcDrbs = y.mcDrbs \cup {d}
             /\ x.mmCell = y.mmCell /\ x.mmRnti = y.mmRnti /\ x.available = y.available
             /\ x.state = "MC_CONNECTION_RECONFIGURATION"
        BY <3>4, <3>6 DEF Contexts, UeStates
      <3> HIDE DEF x
      <3>11. BearerFields(x) /\ x.state \in ConnectedStates
        BY <3>7, <3>9, <3>10 DEF BearerFields, ConnectedStates
      <3>12. PICK net : net = x2'
        OBVIOUS
      <3>13. SplitOver(x, rlc, pdcp, net)
        <4>1. ASSUME NEW l \in Links, NEW n \in Items(net[l])
              PROVE  Placed(x, rlc, pdcp, l, n)
          <5>1. Placed(y, rlc, pdcp, l, n)
            BY <3>3, <3>7, <3>12 DEF SplitOver
          <5> QED
            BY <3>10, <5>1 DEF Placed, DirectedTo
        <4>2. \A e \in x.mcDrbs : e \in rlc /\ DirectedTo(pdcp[e], x)
          BY <3>7, <3>9, <3>10 DEF SplitOver, DirectedTo
        <4>3. \A e \in Drbs : pdcp[e].mm => e \in x.mcDrbs
          BY <3>7, <3>10 DEF SplitOver
        <4> QED
          BY <4>1, <4>2, <4>3 DEF SplitOver
      <3>14. x.mmCell # NoCell => ue["mm"].state = "CONNECTED_NORMALLY"
        BY <3>2, <3>5, <3>9, SecondaryContext
      <3>15. SplitOver(x, MmRlc, pdcp', x2')
        BY <3>1, <3>5, <3>12, <3>13
      <3> QED
        BY <2>1, <3>1, <3>2, <3>5, <3>10, <3>11, <3>14, <3>15, BearersLte
    <2> QED
      BY <2>2, <2>3
  <1>3. CASE RecvConnectionSwitchToMmWave(c)
    <2>1. CASE Stop("drbid not found in m_rlcMap")
      BY <2>1, BearersStop
    <2>2. CASE /\ x2' = Taken(x2, LteCell, c)
               /\ UNCHANGED <<terminal, contexts, coordinator, sinr, s1, air, bounds, fault>>
      <3>1. Arrives(x2, LteCell, c, "SwitchConnection")
        BY <1>3 DEF RecvConnectionSwitchToMmWave
      <3>2. \A l \in Links : Items(x2'[l]) \subseteq Items(x2[l])
        BY <1>0, <2>2, <3>1, TakenItems
      <3> QED
        BY <2>2, <3>2, BearersSame DEF terminal, contexts, coordinator
    <2> QED
      BY <1>3, <2>1, <2>2 DEF RecvConnectionSwitchToMmWave
  <1> QED
    BY <1>1, <1>2, <1>3 DEF X2Step

\* The decision of the coordinator: the bearers that are split go back to LTE, and the
\* RLC that the cell is told of is there.
LEMMA BearersDecision ==
    ASSUME Typed, Attachment, Reporting, Bearers, TriggerUeAssociationUpdate
    PROVE  Bearers'
  <1>0. /\ CellsTyped /\ pdcp \in [Drbs -> Pdcps] /\ x2 \in [Links -> Seq(LinkMessages)]
        /\ LteCell \in Nodes /\ Legs = {"lte", "mm"}
    BY DEF Typed, CoordinatorTyped, AirTyped, Nodes, Legs
  <1> DEFINE known == Known(LteCell, rntiOf[LteCell])
  <1>1. CASE LooksUpUe /\ ~known
    BY <1>1, BearersStop DEF TriggerUeAssociationUpdate
  <1>2. CASE ~(LooksUpUe /\ ~known)
    <2>0. /\ SwitchToLte \/ SelectBest
          /\ UNCHANGED <<ue, s1, rntiOf>>
      BY <1>2 DEF TriggerUeAssociationUpdate, terminal
    <2>1. PICK r, x : r = rntiOf[LteCell] /\ x = ctx[LteCell][r]
      OBVIOUS
    <2>2. known => r \in Rntis /\ x \in Contexts /\ Bare(x) /\ BearerFields(x)
      <3>1. known => r \in Rntis
        BY <1>0, <2>1 DEF Known, CellsTyped, SomeRnti
      <3> QED
        BY <1>0, <2>1, <3>1, FieldsOf DEF CellsTyped, Attachment, BareContexts
    <2>3. CASE SwitchToLte
      <3>1. known
        BY <1>2, <2>3 DEF SwitchToLte, LooksUpUe
      <3>2. /\ ctx' = ctx
            /\ pdcp' = [d \in Drbs |-> [pdcp[d] EXCEPT !.mm = @ /\ d \notin x.mcDrbs]]
            /\ x2' = IF x.mcDrbs = {} THEN x2
                     ELSE Sent(x2, LteCell, x.mmCell, SwitchConnection(x.mmRnti))
        BY <2>1, <2>3 DEF SwitchToLte, LteContext
      <3>3. \A d \in Drbs : /\ pdcp'[d].cell = pdcp[d].cell /\ pdcp'[d].rnti = pdcp[d].rnti
                            /\ pdcp'[d].mm = (pdcp[d].mm /\ d \notin x.mcDrbs)
        BY <1>0, <3>2 DEF Pdcps
      <3>4. CASE x.mcDrbs = {}
        <4>1. \A d \in Drbs : pdcp'[d] = pdcp[d]
          <5> SUFFICES ASSUME NEW d \in Drbs PROVE pdcp'[d] = pdcp[d]
            OBVIOUS
          <5>1. pdcp'[d] = [pdcp[d] EXCEPT !.mm = @ /\ TRUE]
            BY <3>2, <3>4
          <5>2. pdcp[d] \in Pdcps
            BY <1>0
          <5> QED
            BY <5>1, <5>2 DEF Pdcps
        <4>2. pdcp' = pdcp
          BY <1>0, <3>2, <4>1
        <4> QED
          BY <2>0, <3>2, <3>4, <4>2, BearersSame
      <3>5. CASE x.mcDrbs # {}
        <4>1. Connected("lte")
          BY <2>1, <2>2, <3>1, <3>5, LteContextConnected DEF Bare
        <4>2. PICK rlc : rlc = MmRlc
          OBVIOUS
        <4>3. x = LteX /\ SplitOver(x, rlc, pdcp, x2)
          BY <2>1, <4>1, <4>2, LteContextIs DEF LteX, Bearers, Splitting
        <4>4. x.mmCell \in Cells /\ x.mmRnti \in SomeRnti
          BY <2>2, <3>1, <3>5, ContextFields DEF BearerFields, SomeCell
        <4>5. PICK net, m : net = x2' /\ m = SwitchConnection(x.mmRnti)
          OBVIOUS
        <4>6. /\ m \in LinkMessages /\ m.type = "SwitchConnection" /\ m.rnti = x.mmRnti
              /\ net = Sent(x2, LteCell, x.mmCell, m)
          BY <3>2, <3>5, <4>4, <4>5, MessagesAre
        <4>8. AddsOnly(x2, net, LteCell, x.mmCell, m)
          BY <1>0, <4>6, SentItems
        <4>10. rlc # {} /\ x.mmCell # NoCell /\ x.mcDrbs \subseteq Drbs /\ x.drbs \subseteq Drbs
          BY <2>2, <3>1, <3>5, <4>3, <4>4, CellsAssumption, ContextFields DEF SplitOver, NoCell
        <4>11. ASSUME NEW l \in Links, NEW n \in Items(net[l])
               PROVE  Placed(x, rlc, pdcp', l, n)
          <5>1. CASE n \in Items(x2[l])
            <6>1. Placed(x, rlc, pdcp, l, n)
              BY <4>3, <5>1 DEF SplitOver
            <6> QED
              BY <3>3, <4>10, <6>1 DEF Placed, DirectedTo
          <5>2. CASE l = <<LteCell, x.mmCell>> /\ n = m
            BY <4>6, <4>10, <5>2 DEF Placed
          <5> QED
            BY <4>8, <4>11, <5>1, <5>2 DEF AddsOnly
        <4>12. \A d \in x.mcDrbs : d \in rlc /\ DirectedTo(pdcp'[d], x)
          BY <3>3, <4>3, <4>10 DEF SplitOver, DirectedTo
        <4>13. \A d \in Drbs : pdcp'[d].mm => d \in x.mcDrbs
          BY <3>3, <4>3 DEF SplitOver
        <4>14. SplitOver(x, rlc, pdcp', net)
          BY <4>11, <4>12, <4>13 DEF SplitOver
        <4>15. LteX' = x /\ MmRlc' = rlc /\ Connected("lte")'
          BY <2>0, <3>2, <4>1, <4>2, <4>3 DEF LteX, MmRlc, Connected, ContextOf
        <4>16. Splitting'
          BY <4>5, <4>14, <4>15 DEF Splitting
        <4>17. AllFields' /\ NotSetUpYet'
          BY <2>0, <3>2, <4>3, <4>15 DEF Bearers, AllFields, NotSetUpYet
        <4> QED
          BY <4>16, <4>17 DEF Bearers
      <3> QED
        BY <3>4, <3>5
    <2>4. CASE SelectBest
      <3>1. PICK b \in Cells :
                /\ IF Mode = "Ttt" /\ associated /\ usingLte /\ x.allInOutage
                   THEN /\ ctx' = [ctx EXCEPT ![LteCell][r] = EndOutage(@)]
                        /\ srb0' = [srb0 EXCEPT !["lte"] = @ \cup {RrcConnectToMmWave(b)}]
                   ELSE UNCHANGED <<ctx, srb0>>
        BY <2>1, <2>4 DEF SelectBest, LteContext
      <3>2. UNCHANGED <<pdcp, x2>>
        BY <2>4 DEF SelectBest
      <3>3. CASE ~(Mode = "Ttt" /\ associated /\ usingLte /\ x.allInOutage)
        BY <2>0, <3>1, <3>2, <3>3, BearersSame
      <3>4. CASE Mode = "Ttt" /\ associated /\ usingLte /\ x.allInOutage
        <4>1. known
          BY <1>2, <2>1, <3>4 DEF LooksUpUe
        <4> DEFINE y == EndOutage(x)
        <4>2. /\ y \in Contexts /\ SameBearers(x, y) /\ y.state = x.state
          BY <2>2, <4>1 DEF EndOutage, Contexts, SameBearers
        <4>3. ctx' = [ctx EXCEPT ![LteCell][r] = y]
          BY <2>1, <3>1, <3>4
        <4> HIDE DEF y
        <4>4. BearerFields(y)
          BY <2>2, <4>1, <4>2 DEF BearerFields, SameBearers
        <4>5. s1' => /\ ue["lte"].state \in Attached
                     /\ s1 /\ y.drbs = ctx[LteCell][r].drbs
          BY <2>0, <2>1, <4>2 DEF Attachment, ContextAsked, SameBearers
        <4>6. ReplacesContext(LteCell, r, y)
          BY <2>0, <2>1, <3>2, <4>2, <4>3, <4>4, <4>5 DEF ReplacesContext
        <4> QED
          BY <1>0, <2>2, <4>1, <4>2, <4>6, BearersContext
      <3> QED
        BY <3>3, <3>4
    <2> QED
      BY <2>0, <2>3, <2>4
  <1> QED
    BY <1>1, <1>2

\* Every step keeps the split of the bearers.
LEMMA BearersNext ==
    ASSUME Typed, Attachment, Reporting, Bearers, [Next]_vars
    PROVE  Bearers'
  <1>1. CASE Next
    <2>1. CASE \E k \in Legs : UeStep(k) \/ CellStep(k)
      BY <2>1, BearersUeStep, BearersCellStep
    <2>2. CASE UeConfigured \/ RandomAccessFailed
      BY <2>2, BearersConfigured
    <2>3. CASE BearersStep
      BY <2>3, BearersAsked, BearersReported, BearersReconfigured DEF BearersStep
    <2>4. CASE \E c \in Cells : X2Step(c)
      BY <2>4, BearersX2
    <2>5. CASE Expire \/ (\E k \in Legs : Lose(k)) \/ SinrChanges
      BY <2>5, BearersExpire
    <2>6. CASE TriggerUeAssociationUpdate
      BY <2>6, BearersDecision
    <2> QED
      BY <1>1, <2>1, <2>2, <2>3, <2>4, <2>5, <2>6 DEF Next
  <1>2. CASE UNCHANGED vars
    <2>1. UNCHANGED <<ue, ctx, pdcp, x2, s1>>
      BY <1>2 DEF vars, terminal, contexts, coordinator
    <2> QED
      BY <2>1, BearersSame
  <1> QED
    BY <1>1, <1>2

\* The split of the bearers, on every step of every run.
LEMMA BearersAlways == Spec => [](Typed /\ Attachment /\ Reporting /\ Bearers)
  <1>1. Init => Typed /\ Attachment /\ Reporting /\ Bearers
    BY TypedInit, AttachmentInit, ReportingInit, BearersInit
  <1>2. Typed /\ Attachment /\ Reporting /\ Bearers /\ [Next]_vars
            => (Typed /\ Attachment /\ Reporting /\ Bearers)'
    BY TypedStep, AttachmentStep, ReportingStep, BearersNext
  <1> QED
    BY <1>1, <1>2, PTL DEF Spec

\* SplitBearersHaveRlc: a bearer goes to mmWave only where its RLC was set up, in the
\* cell and under the RNTI with which the UE is connected now.
THEOREM RlcsAreThere == Spec => []SplitBearersHaveRlc
  <1>1. Typed /\ Attachment /\ Reporting /\ Bearers => SplitBearersHaveRlc
    <2> SUFFICES ASSUME Typed, Attachment, Reporting, Bearers, NEW d \in Drbs, pdcp[d].mm
                 PROVE  /\ Known(pdcp[d].cell, pdcp[d].rnti)
                        /\ d \in ctx[pdcp[d].cell][pdcp[d].rnti].rlc
                        /\ ue["mm"].state = "CONNECTED_NORMALLY"
                        /\ ue["mm"].cell = pdcp[d].cell /\ ue["mm"].rnti = pdcp[d].rnti
      BY DEF SplitBearersHaveRlc
    <2>1. Connected("lte") /\ SplitOver(LteX, MmRlc, pdcp, x2)
      BY DEF Bearers, Splitting
    <2>2. d \in LteX.mcDrbs /\ d \in MmRlc /\ DirectedTo(pdcp[d], LteX)
      BY <2>1 DEF SplitOver
    <2>3. LteX.mmCell # NoCell
      <3>1. LteX = ctx[LteCell][rntiOf[LteCell]] /\ rntiOf[LteCell] \in Rntis /\ LteCell \in Nodes
        BY <2>1, LteContextIs DEF LteX, Nodes
      <3>2. BearerFields(LteX)
        BY <3>1, FieldsOf
      <3> QED
        BY <2>2, <3>2 DEF BearerFields
    <2>4. /\ ue["mm"].state = "CONNECTED_NORMALLY"
          /\ pdcp[d].cell = ue["mm"].cell /\ pdcp[d].rnti = ue["mm"].rnti
          /\ pdcp[d].rnti \in Rntis
          /\ ContextOf("mm") = ctx[pdcp[d].cell][pdcp[d].rnti]
          /\ ContextOf("mm").state \in {"CONNECTION_SETUP"} \cup ConnectedStates
      BY <2>1, <2>2, <2>3, SecondaryContext DEF DirectedTo
    <2>5. pdcp[d].rnti # NoRnti /\ ctx[pdcp[d].cell][pdcp[d].rnti].state # "NONE"
      BY <2>4, RntiAssumption DEF Rntis, NoRnti, ConnectedStates
    <2> QED
      BY <2>2, <2>4, <2>5 DEF Known, MmRlc
  <1> QED
    BY <1>1, BearersAlways, PTL

\* A sequence, by what is in it.
LEMMA SeqOfItems ==
    ASSUME NEW S, NEW T, NEW s \in Seq(S), \A m \in Items(s) : m \in T
    PROVE  s \in Seq(T)
  <1>1. s \in [1 .. Len(s) -> S] /\ Len(s) \in Nat
    OBVIOUS
  <1>2. \A i \in 1 .. Len(s) : s[i] \in T
    BY DEF Items
  <1>3. s \in [1 .. Len(s) -> T]
    BY <1>1, <1>2
  <1> QED
    BY <1>1, <1>3

\* TypeOK: that a message names a cell and a RNTI follows from the order in which the
\* messages are sent, which is why it takes all of the above.
THEOREM EveryValueHasItsType == Spec => []TypeOK
  <1>1. Typed /\ Attachment /\ Reporting /\ Bearers => TypeOK
    <2> SUFFICES ASSUME Typed, Attachment, Reporting, Bearers PROVE TypeOK
      OBVIOUS
    <2>0. UeTyped /\ CellsTyped /\ CoordinatorTyped /\ AirTyped /\ BoundsTyped
      BY DEF Typed
    <2>1. /\ ue \in [Legs -> UeRrcs] /\ nas \in [active : BOOLEAN, cell : Cells \cup {NoCell}]
          /\ {retry, associated, setup, usingLte, s1} \subseteq BOOLEAN
          /\ ueLeg \in [Drbs -> {"none", "lte", "mm"}]
      BY <2>0 DEF UeTyped, CoordinatorTyped, SomeCell
    <2>2. /\ ctx \in [Nodes -> [Rntis -> Contexts]]
          /\ lastRnti \in [Nodes -> Rntis \cup {NoRnti}]
          /\ rntiOf \in [Nodes -> Rntis \cup {NoRnti}]
          /\ last \in Cells \cup {NoCell} /\ best \in Cells
          /\ sinr \in [Cells -> Sinrs]
          /\ pdcp \in [Drbs -> [cell : Cells \cup {NoCell}, rnti : Rntis \cup {NoRnti},
                               mm : BOOLEAN]]
          /\ rar \in [Legs -> Rntis \cup {NoRnti}]
      BY <2>0 DEF CellsTyped, CoordinatorTyped, AirTyped, Pdcps, SomeCell, SomeRnti
    <2>3. srb0 \in [Legs -> SUBSET SignalMessages] /\ srb1 \in Seq(BearerMessages)
      BY <2>0 DEF AirTyped
    <2>4. up \in [Legs -> Seq(UeMessages)]
      <3>1. Legs = {"lte", "mm"} /\ LegInv("mm") /\ "mm" \in Legs
        BY CellsDiffer
      <3>2. ASSUME NEW k \in Legs, NEW m \in Items(up[k]) PROVE m \in UeMessages
        <4>1. m \in UplinkMessages
          BY <2>0 DEF AirTyped, Items
        <4>2. CASE m.type # "SecondaryCellConnected"
          BY <4>1, <4>2 DEF UplinkMessages, SecondaryCellConnected, UeMessages
        <4>3. CASE m.type = "SecondaryCellConnected"
          <5>1. k = "lte"
            BY <3>1, <4>3 DEF Attachment, LteFirst
          <5>2. ServedBy(m.cell, m.rnti)
            BY <4>3, <5>1 DEF Reporting, Reports
          <5>3. m.cell \in Cells /\ m.rnti \in Rntis
            BY <3>1, <5>2, LegLocated DEF ServedBy, Attached
          <5>4. m = SecondaryCellConnected(m.cell, m.rnti)
            BY <4>1, <4>3, FieldTypes
          <5> QED
            BY <5>3, <5>4 DEF UeMessages
        <4> QED
          BY <4>2, <4>3
      <3>3. ASSUME NEW k \in Legs PROVE up[k] \in Seq(UeMessages)
        <4>1. up[k] \in Seq(UplinkMessages)
          BY <2>0 DEF AirTyped
        <4> QED
          BY <3>2, <4>1, SeqOfItems
      <3> QED
        BY <2>0, <3>3 DEF AirTyped
    <2>5. x2 \in [Links -> Seq(AccessMessages)]
      <3>1. ASSUME NEW l \in Links, NEW m \in Items(x2[l]) PROVE m \in AccessMessages
        <4>1. m \in LinkMessages
          BY <2>0 DEF AirTyped, Items
        <4>2. Connected("lte")
          BY DEF Items, Attachment, LteFirst, DualStarted
        <4>3. Placed(LteX, MmRlc, pdcp, l, m)
          BY <4>2 DEF Bearers, Splitting, SplitOver
        <4>4. LteX.mmCell # NoCell
          BY <4>3 DEF Placed
        <4>5. LteX.mmRnti \in Rntis
          BY <4>2, <4>4, SecondaryContext
        <4>6. CASE m.type = "RlcSetupCompleted"
          BY <4>1, <4>6, FieldTypes DEF AccessMessages
        <4>7. CASE m.type = "RlcSetupRequest"
          <5>1. m.rnti \in Rntis
            BY <4>3, <4>5, <4>7 DEF Placed
          <5>2. m.drb \in Drbs /\ m = RlcSetupRequest(m.drb, m.rnti)
            BY <4>1, <4>7, FieldTypes
          <5> QED
            BY <5>1, <5>2 DEF AccessMessages
        <4>8. CASE m.type = "SwitchConnection"
          <5>1. m.rnti \in Rntis
            BY <4>3, <4>5, <4>8 DEF Placed
          <5>2. m = SwitchConnection(m.rnti)
            BY <4>1, <4>8, FieldTypes
          <5> QED
            BY <5>1, <5>2 DEF AccessMessages
        <4>9. m.type \in {"RlcSetupCompleted", "RlcSetupRequest", "SwitchConnection"}
          BY <4>1, FieldTypes
        <4> QED
          BY <4>6, <4>7, <4>8, <4>9
      <3>2. ASSUME NEW l \in Links PROVE x2[l] \in Seq(AccessMessages)
        <4>1. x2[l] \in Seq(LinkMessages)
          BY <2>0 DEF AirTyped
        <4> QED
          BY <3>1, <4>1, SeqOfItems
      <3> QED
        BY <2>0, <3>2 DEF AirTyped
    <2>6. losses \in 0 .. MaxLosses /\ fades \in 0 .. MaxFades
      BY <2>0 DEF BoundsTyped
    <2> QED
      BY <2>1, <2>2, <2>3, <2>4, <2>5, <2>6 DEF TypeOK
  <1> QED
    BY <1>1, BearersAlways, PTL
=============================================================================
