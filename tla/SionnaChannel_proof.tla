------------------------ MODULE SionnaChannel_proof ------------------------
(***************************************************************************)
(* What a lookup can rely on, for any nodes, modes, coherence times and    *)
(* bounds: the server is never asked to go back in time (KeepsTimeInv) and *)
(* its walkers keep pace (PaceInv), as long as all simulations have the    *)
(* same nodes; the activity of the external nodes reaches it               *)
(* (ActivityInv); every lookup gets an entry of its link that covers the   *)
(* present, whose positions are on their tracks, or none if look-ahead has *)
(* no instant to compute (ChannelInv).                                     *)
(***************************************************************************)
EXTENDS SionnaChannel, FiniteSetTheorems, WellFoundedInduction, TLAPS

InTime(time) == \A n \in DOMAIN nodeInfo :
                    nodeInfo[n].updated \in Nat /\ nodeInfo[n].updated <= time

\* What ns-3 waits for, and what the message under way asks
Conversation ==
    /\ now \in Nat
    /\ sim \in {"off", "starting", "running", "waiting", "closing"}
    /\ sim = "starting" => now = 0 /\ wire.type \in {"init", "ack"}
    /\ sim = "running" => wire.type = "nothing"
    /\ sim = "waiting" => /\ wire.type \in {"request", "response"}
                          /\ wire.type = "request" => wire.time = now
    /\ sim = "closing" => wire.type \in {"close", "ack"}
    /\ wire.type = "init" => /\ wire.nodes \in Simulations
                             /\ sim = "starting" => wire.nodes = nodes

\* The server knows the nodes of the simulation and no others.
SameNodes ==
    /\ \A s \in Simulations : DOMAIN nodeInfo \subseteq s
    /\ sim \in {"running", "waiting"} => nodes \subseteq DOMAIN nodeInfo
    /\ sim = "starting" /\ wire.type = "ack" /\ wire.ok => nodes \subseteq DOMAIN nodeInfo
    /\ wire.type = "request" =>
        /\ {wire.tx, wire.rx} \subseteq DOMAIN nodeInfo
        /\ DOMAIN wire.states \subseteq DOMAIN nodeInfo

\* Without look-ahead no node is ahead of ns-3 or of its request.
NoneAhead ==
    mode # "P2MP_LAH" =>
        /\ server = "up"
        /\ sim \in {"running", "waiting"} => InTime(now)
        /\ sim = "starting" /\ wire.type = "ack" /\ wire.ok => InTime(0)
        /\ wire.type = "request" => wire.time \in Nat /\ InTime(wire.time)

KeepsTimeInv == Conversation /\ SameNodes /\ NoneAhead

-----------------------------------------------------------------------------
(***************************************************************************)
(* Steps of ns-3                                                           *)
(***************************************************************************)
LEMMA StartKeepsTime ==
    ASSUME KeepsTimeInv, Start
    PROVE  KeepsTimeInv'
BY DEF KeepsTimeInv, Conversation, SameNodes, NoneAhead, Start, FreshProcess, env, Nothing

\* A process that ends asks for nothing more.
LEMMA EndKeepsTime ==
    ASSUME KeepsTimeInv, End, UNCHANGED env,
           wire' = Nothing \/ UNCHANGED wire
    PROVE  KeepsTimeInv'
BY DEF KeepsTimeInv, Conversation, SameNodes, NoneAhead, InTime, End, FreshProcess, env,
       Nothing

\* A session begins at time 0.
LEMMA RecvInitAckKeepsTime ==
    ASSUME KeepsTimeInv, RecvInitAck
    PROVE  KeepsTimeInv'
<1>1. CASE wire.ok
  BY <1>1 DEF KeepsTimeInv, Conversation, SameNodes, NoneAhead, InTime, RecvInitAck, env,
              Nothing
<1>2. CASE ~wire.ok
  BY <1>2, EndKeepsTime DEF RecvInitAck
<1> QED BY <1>1, <1>2

\* A session that is closed asks for no time.
LEMMA DestroyKeepsTime ==
    ASSUME KeepsTimeInv, Destroy
    PROVE  KeepsTimeInv'
BY DEF KeepsTimeInv, Conversation, SameNodes, NoneAhead, InTime, Destroy, env

\* Time goes on in ns-3 only.
LEMMA TickKeepsTime ==
    ASSUME KeepsTimeInv, Tick
    PROVE  KeepsTimeInv'
BY DEF KeepsTimeInv, Conversation, SameNodes, NoneAhead, InTime, Tick, env

\* A sample of the trace stays in ns-3 until the next request.
LEMMA TraceSampleKeepsTime ==
    ASSUME KeepsTimeInv, NEW n \in External, TraceSample(n)
    PROVE  KeepsTimeInv'
BY DEF KeepsTimeInv, Conversation, SameNodes, NoneAhead, InTime, TraceSample, env

\* A request has the time of ns-3.
LEMMA LookUpKeepsTime ==
    ASSUME KeepsTimeInv, NEW a \in Nodes, NEW b \in Nodes, NEW kind, LookUp(a, b, kind)
    PROVE  KeepsTimeInv'
<1>1. sim = "running" /\ {a, b} \subseteq nodes /\ UNCHANGED <<nodes, now, env>>
  BY DEF LookUp
<1>2. \/ UNCHANGED <<sim, wire>>
      \/ sim' = "waiting" /\ wire' = Request(a, b)
  BY DEF LookUp
<1> QED
  BY <1>1, <1>2 DEF KeepsTimeInv, Conversation, SameNodes, NoneAhead, InTime, Request, env

\* An answer leaves both clocks alone.
LEMMA RecvResponseKeepsTime ==
    ASSUME KeepsTimeInv, RecvResponse
    PROVE  KeepsTimeInv'
<1>1. /\ sim = "waiting" /\ sim' = "running" /\ wire' = Nothing
      /\ UNCHANGED <<nodes, now, env>>
  BY DEF RecvResponse
<1> QED
  BY <1>1 DEF KeepsTimeInv, Conversation, SameNodes, NoneAhead, InTime, Nothing, env

-----------------------------------------------------------------------------
(***************************************************************************)
(* Steps of the server                                                     *)
(***************************************************************************)
\* After a new session every node the server knows is at time 0.
LEMMA InitMobilityStartsAtZero ==
    ASSUME SameNodes, wire.nodes \in Simulations, \A s, t \in Simulations : s = t,
           InitMobility
    PROVE  /\ DOMAIN nodeInfo' = wire.nodes
           /\ \A n \in DOMAIN nodeInfo' : nodeInfo'[n].updated = 0
<1>1. DOMAIN nodeInfo \subseteq wire.nodes
  BY DEF SameNodes
<1> QED BY <1>1 DEF InitMobility, NodeAtStart

\* A new session starts the clock of the server.
LEMMA ServeInitKeepsTime ==
    ASSUME KeepsTimeInv, ServeInit, \A s, t \in Simulations : s = t
    PROVE  KeepsTimeInv'
<1>1. server' = server /\ UNCHANGED <<sim, nodes, now>> /\ wire.type = "init"
      /\ server = "up"
  BY DEF ServeInit, ns3
<1>2. CASE InitEnv(wire.setting) /\ Reply([type |-> "ack", ok |-> TRUE])
  <2>1. /\ DOMAIN nodeInfo' = wire.nodes
        /\ \A n \in DOMAIN nodeInfo' : nodeInfo'[n].updated = 0
    BY <1>1, <1>2, InitMobilityStartsAtZero DEF KeepsTimeInv, Conversation, InitEnv
  <2>2. wire' = IF sim = "off" THEN Nothing ELSE [type |-> "ack", ok |-> TRUE]
    BY <1>2 DEF Reply
  <2> QED
    BY <1>1, <2>1, <2>2 DEF KeepsTimeInv, Conversation, SameNodes, NoneAhead, InTime, Nothing
<1>3. CASE NewEnv /\ Reply([type |-> "ack", ok |-> FALSE])
  <2>1. DOMAIN nodeInfo' = {}
    BY <1>3 DEF NewEnv, NoNodes
  <2>2. wire' = IF sim = "off" THEN Nothing ELSE [type |-> "ack", ok |-> FALSE]
    BY <1>3 DEF Reply
  <2> QED
    BY <1>1, <2>1, <2>2 DEF KeepsTimeInv, Conversation, SameNodes, NoneAhead, InTime, Nothing
<1> QED BY <1>2, <1>3 DEF ServeInit

\* After a session the server knows no nodes.
LEMMA ServeCloseKeepsTime ==
    ASSUME KeepsTimeInv, ServeClose
    PROVE  KeepsTimeInv'
<1>1. /\ UNCHANGED <<sim, nodes, now, server>> /\ wire.type = "close" /\ server = "up"
      /\ DOMAIN nodeInfo' = {}
      /\ wire' = IF sim = "off" THEN Nothing ELSE [type |-> "ack", ok |-> TRUE]
  BY DEF ServeClose, ns3, NewEnv, NoNodes, Reply
<1> QED
  BY <1>1 DEF KeepsTimeInv, Conversation, SameNodes, NoneAhead, InTime, Nothing

\* A computation leaves each node as it was or at the time of the request.
LEMMA ClassicUpdates ==
    ASSUME NEW tx, NEW rx, NEW m, ComputeClassic(tx, rx, m)
    PROVE  /\ DOMAIN nodeInfo' = DOMAIN nodeInfo
           /\ \A n \in DOMAIN nodeInfo :
                nodeInfo'[n].updated \in {nodeInfo[n].updated, wire.time}
<1>1. PICK c \in [External -> Coherences], leg \in [Walking -> Legs] :
        nodeInfo' = [n \in DOMAIN nodeInfo |->
            IF n \in Walking \cap NodesToUpdate(tx, rx, m)
            THEN Walk(ApplyExternal(c)[n], leg[n], wire.time # simTime, wire.time)
            ELSE ApplyExternal(c)[n]]
  BY ZenonT(30) DEF ComputeClassic
<1>2. ASSUME NEW n \in DOMAIN nodeInfo
      PROVE  ApplyExternal(c)[n].updated \in {nodeInfo[n].updated, wire.time}
  BY DEF ApplyExternal, ExternalAt
<1>3. ASSUME NEW n \in DOMAIN nodeInfo, NEW info
      PROVE  Walk(info, leg[n], wire.time # simTime, wire.time).updated = wire.time
  BY DEF Walk
<1> QED BY <1>1, <1>2, <1>3

\* A computation is answered, if ns-3 is still there.
LEMMA ClassicReplies ==
    ASSUME NEW tx, NEW rx, NEW m, ComputeClassic(tx, rx, m)
    PROVE  IF sim = "off" THEN wire' = Nothing ELSE wire'.type = "response"
BY DEF ComputeClassic, Reply

\* So is one with look-ahead, which knows the nodes of before.
LEMMA LookaheadReplies ==
    ASSUME NEW tx, ComputeWithLookahead(tx)
    PROVE  /\ DOMAIN nodeInfo' = DOMAIN nodeInfo
           /\ IF sim = "off" THEN wire' = Nothing ELSE wire'.type = "response"
BY DEF ComputeWithLookahead, Reply

\* No node is ahead of a request, which brings them to its time.
LEMMA ServeRequestKeepsTime ==
    ASSUME KeepsTimeInv, ServeRequest
    PROVE  KeepsTimeInv'
<1> DEFINE swap == mode = "P2MP_LAH" /\ wire.tx \in Walking /\ wire.rx \notin Walking
           tx == IF swap THEN wire.rx ELSE wire.tx
           rx == IF swap THEN wire.tx ELSE wire.rx
           m == IF mode = "P2MP_LAH" THEN "P2MP" ELSE mode
           idle == mode = "P2MP_LAH" /\ wire.tx \notin Walking /\ Instants = 0
           updating == (IF idle THEN {} ELSE NodesToUpdate(tx, rx, m)) \cup DOMAIN wire.states
<1>1. UNCHANGED <<sim, nodes, now>> /\ wire.type = "request"
  BY DEF ServeRequest, ns3
<1>2. \/ /\ UNCHANGED <<server, mode, subMode>>
         /\ \/ ComputeWithLookahead(tx) /\ mode = "P2MP_LAH"
            \/ ComputeClassic(tx, rx, m)
      \/ UNCHANGED <<wire, mode, nodeInfo>> /\ (~MayMove(updating, wire.time) \/ idle)
  BY DEF ServeRequest
<1> HIDE DEF swap, m
<1>3. CASE UNCHANGED <<server, mode, subMode>> /\ ComputeWithLookahead(tx) /\ mode = "P2MP_LAH"
  BY <1>1, <1>3, LookaheadReplies
  DEF KeepsTimeInv, Conversation, SameNodes, NoneAhead, Nothing
<1>4. CASE UNCHANGED <<server, mode, subMode>> /\ ComputeClassic(tx, rx, m)
  <2>1. /\ DOMAIN nodeInfo' = DOMAIN nodeInfo
        /\ \A n \in DOMAIN nodeInfo :
                nodeInfo'[n].updated \in {nodeInfo[n].updated, wire.time}
        /\ IF sim = "off" THEN wire' = Nothing ELSE wire'.type = "response"
    BY <1>4, ClassicUpdates, ClassicReplies
  <2>2. Conversation' /\ SameNodes'
    BY <1>1, <2>1 DEF KeepsTimeInv, Conversation, SameNodes, Nothing
  <2>3. ASSUME mode # "P2MP_LAH"
        PROVE  \A n \in DOMAIN nodeInfo' :
                    nodeInfo'[n].updated \in Nat /\ nodeInfo'[n].updated <= wire.time
    BY <1>1, <2>1, <2>3 DEF KeepsTimeInv, NoneAhead, InTime
  <2> QED
    BY <1>1, <1>4, <2>1, <2>2, <2>3
    DEF KeepsTimeInv, Conversation, NoneAhead, InTime, Nothing
<1>5. CASE UNCHANGED <<wire, mode, nodeInfo>> /\ (~MayMove(updating, wire.time) \/ idle)
  <2>1. ASSUME mode # "P2MP_LAH"  PROVE  FALSE
    <3>1. wire.time \in Nat /\ InTime(wire.time)
      BY <1>1, <2>1 DEF KeepsTimeInv, NoneAhead
    <3>2. updating \subseteq DOMAIN nodeInfo
      BY <1>1 DEF KeepsTimeInv, SameNodes, NodesToUpdate
    <3>3. ~MayMove(updating, wire.time)
      BY <1>5, <2>1
    <3> HIDE DEF updating
    <3> QED BY <3>1, <3>2, <3>3 DEF MayMove, InTime
  <2> QED
    BY <1>1, <1>5, <2>1 DEF KeepsTimeInv, Conversation, SameNodes, NoneAhead
<1> QED BY <1>2, <1>3, <1>4, <1>5

-----------------------------------------------------------------------------
\* Every step keeps time.
LEMMA StepKeepsTime ==
    ASSUME KeepsTimeInv, [Next]_vars, \A s, t \in Simulations : s = t
    PROVE  KeepsTimeInv'
<1>1. CASE Start
  BY <1>1, StartKeepsTime
<1>2. CASE ServeInit
  BY <1>2, ServeInitKeepsTime
<1>3. CASE RecvInitAck
  BY <1>3, RecvInitAckKeepsTime
<1>4. CASE Destroy
  BY <1>4, DestroyKeepsTime
<1>5. CASE ServeClose
  BY <1>5, ServeCloseKeepsTime
<1>6. CASE RecvCloseAck
  BY <1>6, EndKeepsTime DEF RecvCloseAck
<1>7. CASE Abort
  BY <1>7, EndKeepsTime DEF Abort
<1>8. CASE Tick
  BY <1>8, TickKeepsTime
<1>9. CASE \E n \in External : TraceSample(n)
  BY <1>9, TraceSampleKeepsTime
<1>10. CASE \E a, b \in Nodes, kind \in {"loss", "csi"} : LookUp(a, b, kind)
  BY <1>10, LookUpKeepsTime
<1>11. CASE ServeRequest
  BY <1>11, ServeRequestKeepsTime
<1>12. CASE RecvResponse
  BY <1>12, RecvResponseKeepsTime
<1>13. CASE UNCHANGED vars
  BY <1>13 DEF KeepsTimeInv, Conversation, SameNodes, NoneAhead, InTime, vars, ns3, env
<1> QED
  BY <1>1, <1>2, <1>3, <1>4, <1>5, <1>6, <1>7, <1>8, <1>9, <1>10, <1>11, <1>12, <1>13
  DEF Next, Serve, Receive

(***************************************************************************)
(* Without look-ahead the assertion of update_pos never ends the server,   *)
(* for any nodes, trace, coherence times and interruptions of ns-3, if all *)
(* simulations have the same nodes.                                        *)
(***************************************************************************)
THEOREM ServerKeepsTimeAlways ==
    ASSUME \A s, t \in Simulations : s = t
    PROVE  Spec => []ServerKeepsTime
<1>1. Init => KeepsTimeInv
  BY DEF Init, KeepsTimeInv, Conversation, SameNodes, NoneAhead, InTime, NoNodes, Nothing
<1>2. KeepsTimeInv /\ [Next]_vars => KeepsTimeInv'
  BY StepKeepsTime
<1>3. KeepsTimeInv => ServerKeepsTime
  BY DEF KeepsTimeInv, NoneAhead, ServerKeepsTime
<1> QED BY <1>1, <1>2, <1>3, PTL DEF Spec

-----------------------------------------------------------------------------
(***************************************************************************)
(* The server follows the activity of the external nodes: what ns-3        *)
(* remembers of it is what it sent last, and an entry is only found while  *)
(* that is still how things are.                                           *)
(***************************************************************************)
Followed == External \cap nodes

Remembered ==
    /\ DOMAIN lastActive = Followed
    /\ sim = "running" => \A n \in Followed : nodeInfo[n].active = lastActive[n]
    /\ sim = "waiting" \/ lookup.kind # "none" =>
            \A n \in Followed : lastActive[n] = active[n]

NothingLookedUp == lastActive = NoNodes /\ cache = EmptyCache /\ lookup = NoLookup

ActivityInv ==
    /\ Conversation
    /\ sim \in {"running", "waiting"} => Followed \subseteq DOMAIN nodeInfo
    /\ sim = "starting" => NothingLookedUp
    /\ sim = "starting" /\ wire.type = "ack" /\ wire.ok => Followed \subseteq DOMAIN nodeInfo
    /\ sim = "running" => NothingLookedUp \/ Remembered
    /\ sim = "waiting" => Remembered
    /\ sim = "waiting" /\ wire.type = "request" =>
        /\ DOMAIN wire.states = Followed
        /\ \A n \in Followed : wire.states[n].active = active[n]
    /\ sim = "waiting" /\ wire.type = "response" =>
        \A n \in Followed : nodeInfo[n].active = active[n]

\* A process that ends forgets the activity.
LEMMA EndForgets ==
    ASSUME ActivityInv, End, wire' = Nothing \/ UNCHANGED wire
    PROVE  ActivityInv'
BY DEF ActivityInv, Conversation, End, FreshProcess, Nothing

\* A new process has not looked anything up.
LEMMA StartFollows ==
    ASSUME Start
    PROVE  ActivityInv'
BY DEF ActivityInv, Conversation, NothingLookedUp, Start, FreshProcess

\* The server of a new session knows the nodes.
LEMMA RecvInitAckFollows ==
    ASSUME ActivityInv, RecvInitAck
    PROVE  ActivityInv'
<1>1. CASE wire.ok
  BY <1>1 DEF ActivityInv, Conversation, NothingLookedUp, Followed, RecvInitAck, env, Nothing
<1>2. CASE ~wire.ok
  BY <1>2, EndForgets DEF RecvInitAck
<1> QED BY <1>1, <1>2

\* Time forgets the last lookup.
LEMMA TickFollows ==
    ASSUME ActivityInv, Tick
    PROVE  ActivityInv'
BY DEF ActivityInv, Conversation, NothingLookedUp, Remembered, Followed, NoLookup, Lookup,
       Tick, env

\* So does a sample of the trace, that may change the activity.
LEMMA TraceSampleFollows ==
    ASSUME ActivityInv, NEW n \in External, TraceSample(n)
    PROVE  ActivityInv'
BY DEF ActivityInv, Conversation, NothingLookedUp, Remembered, Followed, NoLookup, Lookup,
       TraceSample, env

\* An entry is only found when nothing changed since the last request.
LEMMA HitsAreFollowed ==
    ASSUME ActivityInv, sim = "running", NEW link \in Links,
           1 .. Len(CacheToSearch[link]) # {}
    PROVE  Remembered /\ \A n \in Followed : lastActive[n] = active[n]
<1>1. EmptyCache[link] = <<>> /\ 1 .. Len(<<>>) = {}
  BY DEF EmptyCache
<1>2. ~ActivityChanged /\ cache # EmptyCache
  BY <1>1 DEF CacheToSearch
<1> QED BY <1>2 DEF ActivityInv, NothingLookedUp, Remembered, ActivityChanged

\* A lookup that is not a hit sends the activity.
LEMMA LookUpFollows ==
    ASSUME ActivityInv, NEW a \in Nodes, NEW b \in Nodes, NEW kind, LookUp(a, b, kind)
    PROVE  ActivityInv'
<1>1. /\ sim = "running" /\ {a, b} \in Links /\ UNCHANGED <<nodes, now, active, env>>
      /\ lastActive' = ActivityNow
  BY DEF LookUp
<1>2. DOMAIN lastActive' = Followed /\ \A n \in Followed : lastActive'[n] = active[n]
  BY <1>1 DEF ActivityNow, Followed
<1>3. CASE sim' = "waiting" /\ wire' = Request(a, b)
  BY <1>1, <1>2, <1>3
  DEF ActivityInv, Conversation, Remembered, Followed, Request, env
<1>4. CASE UNCHANGED <<sim, wire>> /\ 1 .. Len(CacheToSearch[{a, b}]) # {}
  <2>1. Remembered /\ \A n \in Followed : lastActive[n] = active[n]
    BY <1>1, <1>4, HitsAreFollowed
  <2> QED
    BY <1>1, <1>2, <1>4, <2>1 DEF ActivityInv, Conversation, Remembered, Followed, env
<1> DEFINE entries == CacheToSearch[{a, b}]
           hits == {i \in 1 .. Len(entries) : Fits(entries[i], a, b)}
<1>5. \/ sim' = "waiting" /\ wire' = Request(a, b)
      \/ UNCHANGED <<sim, wire>> /\ hits # {}
  BY DEF LookUp
<1>6. hits # {} => 1 .. Len(entries) # {}
  OBVIOUS
<1> QED BY <1>3, <1>4, <1>5, <1>6

\* With the answer the server has the activity that was sent.
LEMMA RecvResponseFollows ==
    ASSUME ActivityInv, RecvResponse
    PROVE  ActivityInv'
<1>1. /\ sim = "waiting" /\ sim' = "running" /\ wire' = Nothing /\ wire.type = "response"
      /\ UNCHANGED <<nodes, now, active, lastActive, env>>
  BY DEF RecvResponse
<1> QED
  BY <1>1 DEF ActivityInv, Conversation, Remembered, Followed, Nothing, env

\* A new session has its nodes on the server.
LEMMA ServeInitFollows ==
    ASSUME ActivityInv, ServeInit
    PROVE  ActivityInv'
<1>1. UNCHANGED ns3 /\ wire.type = "init"
  BY DEF ServeInit
<1>2. CASE InitEnv(wire.setting) /\ Reply([type |-> "ack", ok |-> TRUE])
  <2>1. wire.nodes \subseteq DOMAIN nodeInfo'
    BY <1>2 DEF InitEnv, InitMobility
  <2>2. wire' = IF sim = "off" THEN Nothing ELSE [type |-> "ack", ok |-> TRUE]
    BY <1>2 DEF Reply
  <2> QED
    BY <1>1, <2>1, <2>2
    DEF ActivityInv, Conversation, NothingLookedUp, Followed, Nothing, ns3
<1>3. CASE NewEnv /\ Reply([type |-> "ack", ok |-> FALSE])
  <2>1. wire' = IF sim = "off" THEN Nothing ELSE [type |-> "ack", ok |-> FALSE]
    BY <1>3 DEF Reply
  <2> QED
    BY <1>1, <2>1 DEF ActivityInv, Conversation, NothingLookedUp, Followed, Nothing, ns3
<1> QED BY <1>2, <1>3 DEF ServeInit

\* When a session is closed no lookup waits.
LEMMA ServeCloseFollows ==
    ASSUME ActivityInv, ServeClose
    PROVE  ActivityInv'
<1>1. /\ UNCHANGED ns3 /\ wire.type = "close"
      /\ wire' = IF sim = "off" THEN Nothing ELSE [type |-> "ack", ok |-> TRUE]
  BY DEF ServeClose, Reply
<1> QED
  BY <1>1 DEF ActivityInv, Conversation, NothingLookedUp, Followed, Nothing, ns3

\* A computation takes over the activity of the request.
LEMMA ClassicForwards ==
    ASSUME NEW tx, NEW rx, NEW m, ComputeClassic(tx, rx, m)
    PROVE  \A n \in DOMAIN nodeInfo \cap DOMAIN wire.states :
                nodeInfo'[n].active = wire.states[n].active
<1>1. PICK c \in [External -> Coherences], leg \in [Walking -> Legs] :
        nodeInfo' = [n \in DOMAIN nodeInfo |->
            IF n \in Walking \cap NodesToUpdate(tx, rx, m)
            THEN Walk(ApplyExternal(c)[n], leg[n], wire.time # simTime, wire.time)
            ELSE ApplyExternal(c)[n]]
  BY ZenonT(30) DEF ComputeClassic
<1>2. ASSUME NEW n \in DOMAIN nodeInfo \cap DOMAIN wire.states
      PROVE  ApplyExternal(c)[n].active = wire.states[n].active
  BY DEF ApplyExternal, ExternalAt
<1>3. ASSUME NEW n \in DOMAIN nodeInfo, NEW info
      PROVE  Walk(info, leg[n], wire.time # simTime, wire.time).active = info.active
  BY DEF Walk
<1> QED BY <1>1, <1>2, <1>3

\* So does one with look-ahead, of the nodes that do not walk.
LEMMA LookaheadForwards ==
    ASSUME NEW tx, ComputeWithLookahead(tx)
    PROVE  \A n \in (DOMAIN nodeInfo \cap DOMAIN wire.states) \ Walking :
                nodeInfo'[n].active = wire.states[n].active
<1>1. PICK c \in [External -> Coherences] : \E f :
        nodeInfo' = [n \in DOMAIN nodeInfo |->
                        IF n \in Walking THEN f[n] ELSE ApplyExternal(c)[n]]
  BY ZenonT(30) DEF ComputeWithLookahead
<1> QED BY <1>1 DEF ApplyExternal, ExternalAt

\* A request that is served leaves the server with its activity.
LEMMA ServeRequestFollows ==
    ASSUME ActivityInv, ServeRequest
    PROVE  ActivityInv'
<1>1. UNCHANGED ns3 /\ wire.type = "request"
  BY DEF ServeRequest
<1>2. CASE UNCHANGED <<wire, nodeInfo>>
  BY <1>1, <1>2 DEF ActivityInv, Conversation, NothingLookedUp, Remembered, Followed, ns3
<1>3. CASE \/ \E tx : ComputeWithLookahead(tx)
           \/ \E tx, rx, m : ComputeClassic(tx, rx, m)
  <2>1. /\ DOMAIN nodeInfo' = DOMAIN nodeInfo
        /\ \A n \in (DOMAIN nodeInfo \cap DOMAIN wire.states) \ Walking :
                nodeInfo'[n].active = wire.states[n].active
        /\ IF sim = "off" THEN wire' = Nothing ELSE wire'.type = "response"
    BY <1>3, ClassicUpdates, ClassicForwards, ClassicReplies, LookaheadForwards,
       LookaheadReplies
  <2>2. Followed \cap Walking = {}
    BY ChannelAssumption DEF Followed
  <2>3. sim = "off" \/ sim = "waiting"
    BY <1>1 DEF ActivityInv, Conversation
  <2>4. CASE sim = "off"
    BY <1>1, <2>1, <2>4 DEF ActivityInv, Conversation, Nothing, ns3
  <2>5. CASE sim = "waiting"
    <3>1. \A n \in Followed : nodeInfo'[n].active = active[n]
      BY <1>1, <2>1, <2>2, <2>5 DEF ActivityInv
    <3> QED
      BY <1>1, <2>1, <2>5, <3>1 DEF ActivityInv, Conversation, Remembered, Followed, ns3
  <2> QED BY <2>3, <2>4, <2>5
<1> QED BY <1>2, <1>3 DEF ServeRequest

\* Every step keeps what is known of the activity.
LEMMA StepFollows ==
    ASSUME ActivityInv, [Next]_vars
    PROVE  ActivityInv'
<1>1. CASE Start
  BY <1>1, StartFollows
<1>2. CASE ServeInit
  BY <1>2, ServeInitFollows
<1>3. CASE RecvInitAck
  BY <1>3, RecvInitAckFollows
<1>4. CASE Destroy
  BY <1>4 DEF ActivityInv, Conversation, Destroy, env
<1>5. CASE ServeClose
  BY <1>5, ServeCloseFollows
<1>6. CASE RecvCloseAck
  BY <1>6, EndForgets DEF RecvCloseAck
<1>7. CASE Abort
  BY <1>7, EndForgets DEF Abort
<1>8. CASE Tick
  BY <1>8, TickFollows
<1>9. CASE \E n \in External : TraceSample(n)
  BY <1>9, TraceSampleFollows
<1>10. CASE \E a, b \in Nodes, kind \in {"loss", "csi"} : LookUp(a, b, kind)
  BY <1>10, LookUpFollows
<1>11. CASE ServeRequest
  BY <1>11, ServeRequestFollows
<1>12. CASE RecvResponse
  BY <1>12, RecvResponseFollows
<1>13. CASE UNCHANGED vars
  BY <1>13
  DEF ActivityInv, Conversation, NothingLookedUp, Remembered, Followed, vars, ns3, env
<1> QED
  BY <1>1, <1>2, <1>3, <1>4, <1>5, <1>6, <1>7, <1>8, <1>9, <1>10, <1>11, <1>12, <1>13
  DEF Next, Serve, Receive

(***************************************************************************)
(* Whenever a lookup has returned, the server knows which of the external  *)
(* nodes are active, in every mode and whether ns-3 caches or not.         *)
(***************************************************************************)
THEOREM ActivityIsForwardedAlways == Spec => []ActivityIsForwarded
<1>1. Init => ActivityInv
  BY DEF Init, ActivityInv, Conversation, Nothing
<1>2. ActivityInv /\ [Next]_vars => ActivityInv'
  BY StepFollows
<1>3. ActivityInv => ActivityIsForwarded
  BY DEF ActivityInv, NothingLookedUp, NoLookup, Lookup, Remembered, Followed,
         ActivityIsForwarded, Answered
<1> QED BY <1>1, <1>2, <1>3, PTL DEF Spec
-----------------------------------------------------------------------------
(***************************************************************************)
(* Types, tracks and answers.  A lookup returns an entry of its link that  *)
(* covers the present, and the positions that go through the server, the   *)
(* answer and the cache stay on their tracks, whatever the mode.  Only     *)
(* look-ahead over too many links returns nothing, and moves the nodes of  *)
(* the link to the origin.                                                 *)
(***************************************************************************)
Below == {p \in Nat \X Nat : p[1] < p[2]}

\* Numbers come down to a least one.
LEMMA BelowIsWellFounded == IsWellFoundedOn(Below, Nat)
BY NatLessThanWellFounded DEF OpToRel, Below

\* Any of them have a least one.
LEMMA LeastOne ==
    ASSUME NEW S \in SUBSET Nat, S # {}
    PROVE  \E m \in S : \A s \in S : m <= s
<1>1. PICK m \in S : \A s \in S : ~(<<s, m>> \in Below)
  BY BelowIsWellFounded, WFMin
<1>2. \A s \in S : ~(s < m)
  BY <1>1 DEF Below
<1>3. \A s \in S : m <= s
  BY <1>2
<1> QED BY <1>3

\* Min of numbers is the least of them.
LEMMA MinIsLeast ==
    ASSUME NEW S \in SUBSET Nat, S # {}
    PROVE  Min(S) \in S /\ \A s \in S : Min(S) <= s
BY LeastOne DEF Min

\* Where a node may be on the server
Seats(n) == IF n \in External THEN Homes(n) ELSE Track(n)

\* The start of a track is on it, and a node is at one of the positions.
LEMMA Tracks ==
    ASSUME NEW n \in Nodes
    PROVE  /\ <<n, 0>> \in Track(n) /\ Track(n) \subseteq Seats(n)
           /\ Seats(n) \subseteq Homes(n) /\ Homes(n) \subseteq Positions
<1>1. <<n, 0>> \in Track(n)
  BY ChannelAssumption DEF Track
<1>2. Homes(n) \subseteq Positions
  BY DEF Homes, Positions
<1>3. Track(n) \subseteq Seats(n) /\ Seats(n) \subseteq Homes(n)
  BY DEF Seats, Homes
<1> QED BY <1>1, <1>2, <1>3

\* Entries that the cache may hold for a link
LinkEntries(l) == {e \in EntryType : /\ {e.a, e.b} = l
                                     /\ e.posA \in Homes(e.a) /\ e.posB \in Homes(e.b)}

\* What the server may know of a node, and of nodes
NodeInfo(n) == {info \in NodeType : info.at \in Seats(n)}

IsNodeInfo(f) ==
    /\ DOMAIN f \subseteq Nodes
    /\ f = [n \in DOMAIN f |-> f[n]]
    /\ \A n \in DOMAIN f : f[n] \in NodeInfo(n)

\* The results of a computation are about one transmitter and the same nodes.
IsResult(c, tx, N) ==
    /\ c.tx = tx /\ c.start \in Int /\ c.end \in Int
    /\ DOMAIN c.at = N /\ \A n \in N : c.at[n] \in Homes(n)

IsAnswer(csi, tx, N) ==
    /\ DOMAIN csi = 1 .. Len(csi) /\ Len(csi) \in Nat /\ (Len(csi) = 0 => csi = <<>>)
    /\ tx \in N /\ N \subseteq Nodes
    /\ \A i \in 1 .. Len(csi) : IsResult(csi[i], tx, N)

IsRequest ==
    /\ wire.tx \in Nodes /\ wire.rx \in Nodes /\ wire.tx # wire.rx
    /\ wire.time \in Nat
    /\ \A n \in DOMAIN wire.states :
        /\ n \in External
        /\ wire.states[n].at \in Homes(n) /\ wire.states[n].active \in BOOLEAN

WireHolds ==
    /\ wire.type = "init" => /\ wire.setting \in Settings /\ wire.nodes \subseteq Nodes
                             /\ wire.active \in [External -> BOOLEAN]
    /\ wire.type = "request" => IsRequest
    /\ wire.type = "response" => \E tx \in Nodes, N \in SUBSET Nodes : IsAnswer(wire.csi, tx, N)

\* The server knows the nodes it is asked for.
NodesAreKnown ==
    /\ sim \in {"running", "waiting"} => nodes \subseteq DOMAIN nodeInfo
    /\ sim = "starting" /\ wire.type = "ack" /\ wire.ok => nodes \subseteq DOMAIN nodeInfo
    /\ wire.type = "request" =>
        /\ {wire.tx, wire.rx} \subseteq DOMAIN nodeInfo
        /\ DOMAIN wire.states \subseteq DOMAIN nodeInfo

\* What a waiting simulation gets is about its link and covers the present, or
\* it is nothing, because no instant could be computed.
AnswerFits ==
    sim = "waiting" =>
        /\ {lookup.a, lookup.b} \in Links /\ lookup.kind # "none"
        /\ wire.type = "request" => wire.tx = lookup.a /\ wire.rx = lookup.b
        /\ wire.type = "response" =>
            \E tx \in {lookup.a, lookup.b}, N \in SUBSET Nodes :
                /\ IsAnswer(wire.csi, tx, N) /\ {lookup.a, lookup.b} \subseteq N
                /\ \/ /\ Len(wire.csi) > 0
                      /\ wire.csi[1].start <= now /\ now <= wire.csi[1].end
                   \/ Len(wire.csi) = 0 /\ NoInstant

ServerHolds ==
    /\ server \in {"up", "failed"} /\ mode \in Modes /\ subMode \in Nat
    /\ mode = "P2MP" \/ \E s \in Settings : mode = s.mode /\ subMode = s.subMode
    /\ simTime \in Nat /\ IsNodeInfo(nodeInfo)

CacheHolds ==
    /\ cache = [l \in Links |-> cache[l]]
    /\ \A l \in Links : cache[l] \in Seq(LinkEntries(l))

SimulationHolds ==
    /\ nodes \subseteq Nodes /\ now \in 0 .. EndTime
    /\ place \in [Nodes -> Positions] /\ \A n \in Nodes : place[n] \in Homes(n)
    /\ active \in [External -> BOOLEAN]
    /\ misses \in 0 .. MaxMisses
    /\ \E N \in SUBSET External : lastActive \in [N -> BOOLEAN]
    /\ lookup.entry \in EntryType

WireTypes == wire.type \in {"nothing", "init", "ack", "close", "request", "response"}

Holds == /\ ServerHolds /\ CacheHolds /\ SimulationHolds
         /\ WireTypes /\ WireHolds /\ NodesAreKnown /\ AnswerFits

AnswerInv == Conversation /\ Holds /\ EveryLookupIsAnswered

\* Without a lookup there is the entry of a link that cannot be reached.
LEMMA NoLookupHolds == NoLookup.entry \in EntryType /\ NoLookup.kind = "none"
<1>1. Origin \in Positions
  BY DEF Positions
<1>2. 0 \in Nodes \cup {0}
  OBVIOUS
<1>3. -1 \in Int
  OBVIOUS
<1>4. Unreachable \in EntryType
  BY <1>1, <1>2, <1>3 DEF Unreachable, Entry, EntryType
<1> QED BY <1>4 DEF NoLookup, Lookup

\* A new ns-3 process.
LEMMA FreshHolds ==
    ASSUME FreshProcess
    PROVE  /\ CacheHolds' /\ now' = 0 /\ now' \in 0 .. EndTime /\ misses' \in 0 .. MaxMisses
           /\ place' \in [Nodes -> Positions] /\ (\A n \in Nodes : place'[n] \in Homes(n))
           /\ (\E N \in SUBSET External : lastActive' \in [N -> BOOLEAN])
           /\ lookup' = NoLookup /\ lookup'.entry \in EntryType /\ lookup'.kind = "none"
<1>1. \A l \in Links : <<>> \in Seq(LinkEntries(l))
  OBVIOUS
<1>2. CacheHolds'
  BY <1>1 DEF FreshProcess, EmptyCache, CacheHolds
<1>3. 0 \in 0 .. EndTime /\ 0 \in 0 .. MaxMisses
  BY ChannelAssumption
<1>4. \A n \in Nodes : <<n, 0>> \in Homes(n) /\ <<n, 0>> \in Positions
  BY Tracks
<1>5. \E N \in SUBSET External : NoNodes \in [N -> BOOLEAN]
  <2>1. NoNodes \in [{} -> BOOLEAN]
    BY DEF NoNodes
  <2> QED BY <2>1
<1>7. NoLookup.entry \in EntryType /\ NoLookup.kind = "none"
  BY NoLookupHolds
<1> QED BY <1>2, <1>3, <1>4, <1>5, <1>7 DEF FreshProcess
-----------------------------------------------------------------------------
(***************************************************************************)
(* Steps of ns-3 that leave the cache alone                                *)
(***************************************************************************)
LEMMA EndAnswers ==
    ASSUME AnswerInv, End, UNCHANGED env, wire' = Nothing \/ UNCHANGED wire
    PROVE  Holds' /\ EveryLookupIsAnswered'
<1>1. sim' = "off" /\ nodes' = {} /\ active' = [n \in External |-> TRUE] /\ FreshProcess
  BY DEF End
<1>2. ServerHolds'
  BY DEF AnswerInv, Holds, ServerHolds, env, IsNodeInfo
<1>3. SimulationHolds' /\ CacheHolds'
  BY <1>1, FreshHolds DEF SimulationHolds
<1>4. WireHolds' /\ WireTypes' /\ NodesAreKnown'
  <2>1. nodeInfo' = nodeInfo /\ (wire' = wire \/ wire'.type = "nothing")
    BY DEF env, Nothing
  <2> QED BY <1>1, <2>1 DEF AnswerInv, Holds, WireHolds, WireTypes, NodesAreKnown, IsRequest
<1>5. AnswerFits' /\ EveryLookupIsAnswered'
  BY <1>1 DEF AnswerFits, EveryLookupIsAnswered, Answered
<1> QED BY <1>2, <1>3, <1>4, <1>5 DEF Holds

\* A new process asks for a session of nodes there are.
LEMMA StartAnswers ==
    ASSUME AnswerInv, Start
    PROVE  Holds' /\ EveryLookupIsAnswered'
<1>1. /\ sim' = "starting" /\ FreshProcess /\ UNCHANGED env
      /\ wire'.type = "init" /\ wire'.setting \in Settings /\ wire'.nodes = nodes'
      /\ nodes' \in Simulations /\ wire'.active = active' /\ active' \in [External -> BOOLEAN]
  BY DEF Start
<1>2. nodes' \subseteq Nodes
  BY <1>1, ChannelAssumption
<1>3. ServerHolds'
  BY <1>1 DEF AnswerInv, Holds, ServerHolds, env, IsNodeInfo
<1>4. SimulationHolds' /\ CacheHolds'
  BY <1>1, <1>2, FreshHolds DEF SimulationHolds
<1>5. WireHolds' /\ WireTypes' /\ NodesAreKnown' /\ AnswerFits' /\ EveryLookupIsAnswered'
  BY <1>1, <1>2 DEF WireHolds, WireTypes, NodesAreKnown, AnswerFits, EveryLookupIsAnswered,
                    Answered
<1> QED BY <1>3, <1>4, <1>5 DEF Holds

\* The server has the nodes of a session that begins.
LEMMA RecvInitAckAnswers ==
    ASSUME AnswerInv, RecvInitAck, lookup.kind = "none"
    PROVE  Holds' /\ EveryLookupIsAnswered'
<1>1. CASE wire.ok
  <2>1. /\ sim = "starting" /\ sim' = "running" /\ wire.type = "ack" /\ wire' = Nothing
        /\ UNCHANGED <<nodes, now, place, active, cache, misses, lastActive, lookup, env>>
    BY <1>1 DEF RecvInitAck
  <2>2. ServerHolds' /\ CacheHolds' /\ SimulationHolds'
    BY <2>1 DEF AnswerInv, Holds, ServerHolds, CacheHolds, SimulationHolds, env, IsNodeInfo
  <2>3. WireTypes' /\ WireHolds' /\ NodesAreKnown' /\ AnswerFits'
    BY <1>1, <2>1 DEF AnswerInv, Holds, WireTypes, WireHolds, NodesAreKnown, AnswerFits,
                      Nothing, env
  <2>4. EveryLookupIsAnswered'
    BY <2>1 DEF EveryLookupIsAnswered, Answered
  <2> QED BY <2>2, <2>3, <2>4 DEF Holds
<1>2. CASE ~wire.ok
  BY <1>2, EndAnswers DEF RecvInitAck
<1> QED BY <1>1, <1>2

\* When a session is closed nothing was asked.
LEMMA DestroyAnswers ==
    ASSUME AnswerInv, Destroy
    PROVE  Holds' /\ EveryLookupIsAnswered'
<1>1. /\ sim' = "closing" /\ wire' = [type |-> "close"]
      /\ UNCHANGED <<nodes, now, place, active, cache, misses, lastActive, lookup, env>>
  BY DEF Destroy
<1>2. ServerHolds' /\ CacheHolds' /\ SimulationHolds'
  BY <1>1 DEF AnswerInv, Holds, ServerHolds, CacheHolds, SimulationHolds, env, IsNodeInfo
<1>3. WireTypes' /\ WireHolds' /\ NodesAreKnown' /\ AnswerFits' /\ EveryLookupIsAnswered'
  BY <1>1 DEF WireTypes, WireHolds, NodesAreKnown, AnswerFits, EveryLookupIsAnswered, Answered
<1> QED BY <1>2, <1>3 DEF Holds

\* When time goes on the last lookup is over.
LEMMA TickAnswers ==
    ASSUME AnswerInv, Tick
    PROVE  Holds' /\ EveryLookupIsAnswered'
<1>1. /\ sim = "running" /\ now < EndTime /\ now' = now + 1 /\ lookup' = NoLookup
      /\ UNCHANGED <<sim, nodes, place, active, cache, misses, lastActive, wire, env>>
  BY DEF Tick
<1>2. NoLookup.entry \in EntryType /\ NoLookup.kind = "none"
  BY NoLookupHolds
<1>3. ServerHolds' /\ CacheHolds'
  BY <1>1 DEF AnswerInv, Holds, ServerHolds, CacheHolds, env, IsNodeInfo
<1>4. SimulationHolds'
  <2>1. now' \in 0 .. EndTime
    BY <1>1, ChannelAssumption DEF AnswerInv, Holds, SimulationHolds
  <2> QED BY <1>1, <1>2, <2>1 DEF AnswerInv, Holds, SimulationHolds
<1>5. WireTypes' /\ WireHolds' /\ NodesAreKnown'
  BY <1>1 DEF AnswerInv, Holds, WireTypes, WireHolds, NodesAreKnown, IsRequest, env
<1>6. AnswerFits' /\ EveryLookupIsAnswered'
  BY <1>1, <1>2 DEF AnswerFits, EveryLookupIsAnswered, Answered
<1> QED BY <1>3, <1>4, <1>5, <1>6 DEF Holds

\* A trace moves its node along the track of that.
LEMMA TraceSampleAnswers ==
    ASSUME AnswerInv, NEW n \in External, TraceSample(n)
    PROVE  Holds' /\ EveryLookupIsAnswered'
<1>1. /\ sim = "running" /\ lookup' = NoLookup
      /\ UNCHANGED <<sim, nodes, now, cache, misses, lastActive, wire, env>>
  BY DEF TraceSample
<1>2. PICK p \in Track(n), on \in BOOLEAN : /\ place' = [place EXCEPT ![n] = p]
                                            /\ active' = [active EXCEPT ![n] = on]
  BY DEF TraceSample
<1>3. n \in Nodes
  BY DEF Nodes
<1>4. p \in Positions
  BY <1>3, Tracks
<1>5. NoLookup.entry \in EntryType /\ NoLookup.kind = "none"
  BY NoLookupHolds
<1>6. ServerHolds' /\ CacheHolds'
  BY <1>1 DEF AnswerInv, Holds, ServerHolds, CacheHolds, env, IsNodeInfo
<1>7. SimulationHolds'
  <2>1. place' \in [Nodes -> Positions] /\ active' \in [External -> BOOLEAN]
    BY <1>2, <1>4 DEF AnswerInv, Holds, SimulationHolds
  <2>2. \A k \in Nodes : place'[k] \in Homes(k)
    BY <1>2, <1>3, Tracks DEF AnswerInv, Holds, SimulationHolds
  <2> QED BY <1>1, <1>5, <2>1, <2>2 DEF AnswerInv, Holds, SimulationHolds
<1>8. WireTypes' /\ WireHolds' /\ NodesAreKnown'
  BY <1>1 DEF AnswerInv, Holds, WireTypes, WireHolds, NodesAreKnown, IsRequest, env
<1>9. AnswerFits' /\ EveryLookupIsAnswered'
  BY <1>1, <1>5 DEF AnswerFits, EveryLookupIsAnswered, Answered
<1> QED BY <1>6, <1>7, <1>8, <1>9 DEF Holds
-----------------------------------------------------------------------------
(***************************************************************************)
(* Steps of ns-3 on the cache                                              *)
(***************************************************************************)
\* What is not outdated are entries of before: the loop that removes the
\* others ends, whatever their number.
LEMMA UnexpiredEntries ==
    ASSUME NEW S, NEW entries \in Seq(S)
    PROVE  Unexpired(entries) \in Seq(S)
<1> DEFINE Kept(f, i) == IF i = 0 THEN <<>>
                         ELSE IF entries[i].end >= now THEN Append(f[i - 1], entries[i])
                         ELSE f[i - 1]
           Loop(f, k) == f = [i \in 0 .. k |-> Kept(f, i)]
           Endless == {k \in Nat : ~\E f : Loop(f, k)}
           Wrong(f) == {i \in 0 .. Len(entries) : f[i] \notin Seq(S)}
<1>1. Endless = {}
  <2> SUFFICES ASSUME Endless # {} PROVE FALSE
    OBVIOUS
  <2>1. PICK k \in Endless : \A j \in Endless : ~(<<j, k>> \in Below)
    <3>1. Endless \subseteq Nat
      OBVIOUS
    <3> HIDE DEF Endless
    <3> QED BY <3>1, BelowIsWellFounded, WFMin
  <2>2. k \in Nat
    OBVIOUS
  <2>3. CASE k = 0
    <3>1. Loop([i \in 0 .. 0 |-> <<>>], 0)
      OBVIOUS
    <3> QED BY <2>3, <3>1
  <2>4. CASE k # 0
    <3>1. k - 1 \in Nat /\ k - 1 \notin Endless
      <4>1. k - 1 \in Nat /\ k - 1 < k
        BY <2>2, <2>4
      <4>2. <<k - 1, k>> \in Below
        BY <2>2, <4>1 DEF Below
      <4> HIDE DEF Endless
      <4> QED BY <2>1, <4>1, <4>2
    <3>2. PICK f : Loop(f, k - 1)
      BY <3>1
    <3> DEFINE g == [i \in 0 .. k |-> IF i = k THEN Kept(f, k) ELSE f[i]]
    <3>3. \A i \in 0 .. k : g[i] = Kept(g, i)
      <4> TAKE i \in 0 .. k
      <4>1. CASE i = k
        <5>1. g[i - 1] = f[i - 1]
          BY <2>2, <2>4, <4>1
        <5> QED BY <4>1, <5>1
      <4>2. CASE i # k
        <5>1. i \in 0 .. k - 1
          BY <2>2, <4>2
        <5>2. f[i] = Kept(f, i)
          BY <3>2, <5>1
        <5>3. i # 0 => g[i - 1] = f[i - 1]
          BY <2>2, <5>1
        <5> QED BY <4>2, <5>2, <5>3
      <4> QED BY <4>1, <4>2
    <3>4. Loop(g, k)
      BY <3>3
    <3> QED BY <3>4
  <2> QED BY <2>3, <2>4
<1>2. Len(entries) \in Nat
  OBVIOUS
<1>3. \E f : Loop(f, Len(entries))
  BY <1>1, <1>2
<1>4. PICK f : f = (CHOOSE h : h = [i \in 0 .. Len(entries) |-> Kept(h, i)])
  OBVIOUS
<1>5. Loop(f, Len(entries))
  BY <1>3, <1>4
<1>6. Unexpired(entries) = f[Len(entries)]
  BY <1>4 DEF Unexpired
<1>7. Wrong(f) = {}
  <2> SUFFICES ASSUME Wrong(f) # {} PROVE FALSE
    OBVIOUS
  <2>1. PICK k \in Wrong(f) : \A j \in Wrong(f) : ~(<<j, k>> \in Below)
    <3>1. Wrong(f) \subseteq Nat
      BY <1>2
    <3> HIDE DEF Wrong
    <3> QED BY <3>1, BelowIsWellFounded, WFMin
  <2>2. k \in 0 .. Len(entries) /\ f[k] \notin Seq(S)
    OBVIOUS
  <2>3. f[k] = Kept(f, k)
    BY <1>5, <2>2
  <2>4. k # 0
    BY <2>2, <2>3
  <2>5. k - 1 \in 0 .. Len(entries) /\ k - 1 \in Nat /\ k \in Nat /\ k - 1 < k
    BY <1>2, <2>2, <2>4
  <2>6. <<k - 1, k>> \in Below
    BY <2>5 DEF Below
  <2>7. f[k - 1] \in Seq(S)
    BY <2>1, <2>5, <2>6
  <2>8. entries[k] \in S
    BY <2>2, <2>4
  <2> QED BY <2>2, <2>3, <2>4, <2>7, <2>8
<1> QED BY <1>2, <1>6, <1>7

\* GetPropagationLoss moves the nodes of a link along their tracks.
LEMMA PlaceOnTracks ==
    ASSUME SimulationHolds, NEW a \in Nodes, NEW b \in Nodes, a # b,
           NEW e \in LinkEntries({a, b})
    PROVE  /\ PlaceFromEntry(a, b, e) \in [Nodes -> Positions]
           /\ \A n \in Nodes : PlaceFromEntry(a, b, e)[n] \in Homes(n)
<1>1. {e.a, e.b} = {a, b} /\ e.posA \in Homes(e.a) /\ e.posB \in Homes(e.b)
  BY DEF LinkEntries
<1>2. Homes(a) \subseteq Positions /\ Homes(b) \subseteq Positions
  BY Tracks
<1>3. CASE a = e.a
  <2>1. b = e.b /\ PlaceFromEntry(a, b, e) = [place EXCEPT ![a] = e.posA, ![b] = e.posB]
    BY <1>1, <1>3 DEF PlaceFromEntry
  <2> QED BY <1>1, <1>2, <1>3, <2>1 DEF SimulationHolds
<1>4. CASE a # e.a
  <2>1. /\ a = e.b /\ b = e.a
        /\ PlaceFromEntry(a, b, e) = [place EXCEPT ![a] = e.posB, ![b] = e.posA]
    BY <1>1, <1>4 DEF PlaceFromEntry
  <2> QED BY <1>1, <1>2, <2>1 DEF SimulationHolds
<1> QED BY <1>3, <1>4

\* What is returned is an entry of the link that covers the present.
LEMMA ReturnAnswers ==
    ASSUME SimulationHolds, NEW a \in Nodes, NEW b \in Nodes, a # b, NEW kind, NEW miss,
           NEW e \in LinkEntries({a, b}), Covers(e), Return(a, b, kind, miss, e), now' = now
    PROVE  /\ place' \in [Nodes -> Positions] /\ \A n \in Nodes : place'[n] \in Homes(n)
           /\ lookup'.entry \in EntryType
           /\ EveryLookupIsAnswered'
<1>1. lookup' = Lookup(a, b, kind, miss, e)
  BY DEF Return
<1>2. lookup'.a = a /\ lookup'.b = b /\ lookup'.entry = e
  BY <1>1 DEF Lookup
<1>3. EveryLookupIsAnswered'
  BY <1>2 DEF EveryLookupIsAnswered, Covers, LinkEntries
<1>4. place' = IF kind = "loss" THEN PlaceFromEntry(a, b, e) ELSE place
  BY DEF Return
<1> QED BY <1>2, <1>3, <1>4, PlaceOnTracks DEF SimulationHolds, LinkEntries

\* A fixed transmitter has too many links only if the constants allow it.
LEMMA NoInstantOnlyThen ==
    ASSUME ServerHolds, NoInstant
    PROVE  MayHaveNoInstant
<1>1. IsFiniteSet(DOMAIN nodeInfo) /\ Cardinality(DOMAIN nodeInfo) <= Cardinality(Nodes)
  BY ChannelAssumption, FS_Subset DEF ServerHolds, IsNodeInfo
<1>2. Cardinality(DOMAIN nodeInfo) \in Nat /\ Cardinality(Nodes) \in Nat
  BY <1>1, ChannelAssumption, FS_CardinalityType
<1>3. \E s \in Settings : s.mode = "P2MP_LAH" /\ s.subMode = subMode
  BY DEF ServerHolds, NoInstant
<1>4. subMode < Cardinality(DOMAIN nodeInfo) - 1 /\ subMode \in Nat
  BY DEF NoInstant, ServerHolds
<1> QED BY <1>1, <1>2, <1>3, <1>4 DEF MayHaveNoInstant

\* When a link cannot be reached, the lookup says so, and moves its nodes.
LEMMA ReturnNothing ==
    ASSUME SimulationHolds, ServerHolds, NoInstant, lookup.a \in Nodes, lookup.b \in Nodes,
           NEW kind, Return(lookup.a, lookup.b, kind, TRUE, Unreachable),
           UNCHANGED <<now, env>>
    PROVE  /\ place' \in [Nodes -> Positions] /\ \A n \in Nodes : place'[n] \in Homes(n)
           /\ lookup'.entry \in EntryType
           /\ EveryLookupIsAnswered'
<1>1. lookup' = Lookup(lookup.a, lookup.b, kind, TRUE, Unreachable)
  BY DEF Return
<1>2. lookup'.a = lookup.a /\ lookup'.miss = TRUE /\ lookup'.entry = Unreachable
  BY <1>1 DEF Lookup
<1>3. EveryLookupIsAnswered'
  <2>1. NoInstant'
    BY <1>2 DEF NoInstant, env
  <2> QED BY <1>2, <2>1 DEF EveryLookupIsAnswered
<1>4. Unreachable \in EntryType
  BY NoLookupHolds DEF NoLookup, Lookup
<1>5. \A n \in Nodes : Origin \in Homes(n) /\ Origin \in Positions
  BY NoInstantOnlyThen DEF Homes, Positions
<1>6. Unreachable.posA = Origin /\ Unreachable.posB = Origin
  BY DEF Unreachable, Entry
<1>7. place' = IF kind = "loss" THEN PlaceFromEntry(lookup.a, lookup.b, Unreachable) ELSE place
  BY DEF Return
<1>8. place' \in [Nodes -> Positions] /\ \A n \in Nodes : place'[n] \in Homes(n)
  <2>1. CASE place' = place
    BY <2>1 DEF SimulationHolds
  <2>2. CASE place' = [place EXCEPT ![lookup.a] = Origin, ![lookup.b] = Origin]
    BY <1>5, <2>2 DEF SimulationHolds
  <2> QED BY <1>6, <1>7, <2>1, <2>2 DEF PlaceFromEntry
<1> QED BY <1>2, <1>3, <1>4, <1>8

\* The cache that a lookup searches holds entries of its links.
LEMMA SearchedHolds ==
    ASSUME CacheHolds
    PROVE  /\ CacheToSearch = [l \in Links |-> CacheToSearch[l]]
           /\ \A l \in Links : CacheToSearch[l] \in Seq(LinkEntries(l))
BY DEF CacheHolds, CacheToSearch, EmptyCache

\* A pair of nodes that is a link is two nodes.
LEMMA LinkOfTwo ==
    ASSUME NEW a \in Nodes, NEW b \in Nodes, {a, b} \in Links
    PROVE  a # b
BY DEF Links

\* A hit is an answer, anything else asks for the link at the present time.
LEMMA LookUpAnswers ==
    ASSUME AnswerInv, NEW a \in Nodes, NEW b \in Nodes, NEW kind \in {"loss", "csi"},
           LookUp(a, b, kind)
    PROVE  Holds' /\ EveryLookupIsAnswered'
<1> DEFINE link == {a, b}
           hits(entries) == {i \in 1 .. Len(entries) : Fits(entries[i], a, b)}
<1>1. PICK entries : entries = CacheToSearch[link]
  OBVIOUS
<1>2. /\ sim = "running" /\ link \subseteq nodes /\ link \in Links
      /\ lastActive' = ActivityNow /\ UNCHANGED <<nodes, now, active, env>>
      /\ cache' = IF Caching THEN [CacheToSearch EXCEPT ![link] = Unexpired(entries)]
                             ELSE CacheToSearch
  BY <1>1 DEF LookUp
<1>3. \/ /\ hits(entries) # {}
         /\ Return(a, b, kind, FALSE, entries[Min(hits(entries))])
         /\ UNCHANGED <<sim, misses, wire>>
      \/ /\ misses < MaxMisses /\ misses' = misses + 1 /\ sim' = "waiting"
         /\ wire' = Request(a, b) /\ lookup' = Lookup(a, b, kind, TRUE, Unreachable)
         /\ UNCHANGED place
  BY <1>1 DEF LookUp
<1>4. a # b /\ entries \in Seq(LinkEntries(link))
  BY <1>1, <1>2, SearchedHolds, LinkOfTwo DEF AnswerInv, Holds
<1>5. CacheHolds'
  <2>1. Unexpired(entries) \in Seq(LinkEntries(link))
    BY <1>4, UnexpiredEntries
  <2>2. \A l \in Links : cache'[l] \in Seq(LinkEntries(l))
    BY <1>2, <2>1, SearchedHolds DEF AnswerInv, Holds
  <2>3. cache' = [l \in Links |-> cache'[l]]
    BY <1>2, SearchedHolds DEF AnswerInv, Holds
  <2> QED BY <2>2, <2>3 DEF CacheHolds
<1>6. ServerHolds'
  BY <1>2 DEF AnswerInv, Holds, ServerHolds, env, IsNodeInfo
<1>7. \E N \in SUBSET External : lastActive' \in [N -> BOOLEAN]
  <2>1. ActivityNow \in [External \cap nodes -> BOOLEAN]
    BY DEF ActivityNow, AnswerInv, Holds, SimulationHolds
  <2> QED BY <1>2, <2>1
<1>8. wire.type = "nothing"
  BY <1>2 DEF AnswerInv, Conversation
<1>9. CASE /\ hits(entries) # {}
           /\ Return(a, b, kind, FALSE, entries[Min(hits(entries))])
           /\ UNCHANGED <<sim, misses, wire>>
  <2>1. PICK i : i = Min(hits(entries))
    OBVIOUS
  <2>2. i \in hits(entries)
    <3>1. hits(entries) \in SUBSET Nat
      OBVIOUS
    <3> HIDE DEF hits
    <3> QED BY <1>9, <2>1, <3>1, MinIsLeast
  <2>3. i \in 1 .. Len(entries) /\ Fits(entries[i], a, b)
    BY <2>2
  <2>4. entries[i] \in LinkEntries(link) /\ Covers(entries[i])
    BY <1>4, <2>3 DEF Fits, Covers
  <2>5. Return(a, b, kind, FALSE, entries[i])
    BY <1>9, <2>1
  <2>6. /\ place' \in [Nodes -> Positions] /\ \A n \in Nodes : place'[n] \in Homes(n)
        /\ lookup'.entry \in EntryType /\ EveryLookupIsAnswered'
    BY <1>2, <1>4, <2>4, <2>5, ReturnAnswers DEF AnswerInv, Holds
  <2>7. SimulationHolds'
    BY <1>2, <1>7, <1>9, <2>6 DEF AnswerInv, Holds, SimulationHolds
  <2>8. WireTypes' /\ WireHolds' /\ NodesAreKnown' /\ AnswerFits'
    BY <1>2, <1>8, <1>9 DEF AnswerInv, Holds, WireTypes, WireHolds, NodesAreKnown, AnswerFits, env
  <2> QED BY <1>5, <1>6, <2>6, <2>7, <2>8 DEF Holds
<1>10. CASE /\ misses < MaxMisses /\ misses' = misses + 1 /\ sim' = "waiting"
            /\ wire' = Request(a, b) /\ lookup' = Lookup(a, b, kind, TRUE, Unreachable)
            /\ UNCHANGED place
  <2>1. lookup'.entry \in EntryType
    BY <1>10, NoLookupHolds DEF NoLookup, Lookup
  <2>2. misses' \in 0 .. MaxMisses
    BY <1>10, ChannelAssumption DEF AnswerInv, Holds, SimulationHolds
  <2>3. SimulationHolds'
    BY <1>2, <1>7, <1>10, <2>1, <2>2 DEF AnswerInv, Holds, SimulationHolds
  <2>4. /\ wire'.type = "request" /\ wire'.tx = a /\ wire'.rx = b /\ wire'.time = now
        /\ DOMAIN wire'.states = External \cap nodes
        /\ \A n \in External \cap nodes : wire'.states[n] = [at |-> place[n], active |-> active[n]]
    BY <1>10 DEF Request
  <2>5. lookup'.a = a /\ lookup'.b = b /\ lookup'.kind = kind
    BY <1>10 DEF Lookup
  <2>6. IsRequest'
    <3>1. now \in Nat
      BY ChannelAssumption DEF AnswerInv, Holds, SimulationHolds
    <3>2. \A n \in External \cap nodes : place[n] \in Homes(n) /\ active[n] \in BOOLEAN
      BY DEF AnswerInv, Holds, SimulationHolds, Nodes
    <3>3. \A n \in DOMAIN wire'.states :
            /\ n \in External
            /\ wire'.states[n].at \in Homes(n) /\ wire'.states[n].active \in BOOLEAN
      <4> TAKE n \in DOMAIN wire'.states
      <4>1. n \in External \cap nodes
        BY <2>4
      <4>2. PICK s : s = wire'.states[n]
        OBVIOUS
      <4>3. s = [at |-> place[n], active |-> active[n]]
        BY <2>4, <4>1, <4>2
      <4> QED BY <3>2, <4>1, <4>2, <4>3
    <3> QED BY <1>4, <2>4, <3>1, <3>3 DEF IsRequest
  <2>7. WireTypes' /\ WireHolds' /\ AnswerFits'
    BY <1>2, <1>10, <2>4, <2>5, <2>6 DEF WireTypes, WireHolds, AnswerFits
  <2>8. NodesAreKnown'
    BY <1>2, <1>10, <2>4 DEF AnswerInv, Holds, NodesAreKnown, env
  <2>9. EveryLookupIsAnswered'
    BY <1>10 DEF EveryLookupIsAnswered, Answered
  <2> QED BY <1>5, <1>6, <2>3, <2>7, <2>8, <2>9 DEF Holds
<1> QED BY <1>3, <1>9, <1>10

\* The results for a link become entries of it, one for each instant, or none.
LEMMA ResultsAreEntries ==
    ASSUME NEW l \in Links, NEW tx \in Nodes, NEW N \in SUBSET Nodes, IsAnswer(wire.csi, tx, N)
    PROVE  /\ Results(l) \in Seq(LinkEntries(l))
           /\ tx \in l /\ l \subseteq N =>
                /\ Len(Results(l)) = Len(wire.csi)
                /\ \A i \in 1 .. Len(wire.csi) : /\ Results(l)[i].start = wire.csi[i].start
                                                 /\ Results(l)[i].end = wire.csi[i].end
<1>1. PICK rx : rx = CHOOSE n \in l : n # tx
  OBVIOUS
<1>2. PICK csi, k : csi = wire.csi /\ k = Len(csi)
  OBVIOUS
<1>3. /\ DOMAIN csi = 1 .. k /\ k \in Nat /\ (k = 0 => csi = <<>>)
      /\ \A i \in 1 .. k : IsResult(csi[i], tx, N)
  BY <1>2 DEF IsAnswer
<1>4. ASSUME k # 0
      PROVE  csi # <<>> /\ 1 \in 1 .. k /\ csi[1].tx = tx /\ DOMAIN csi[1].at = N
  BY <1>3, <1>4 DEF IsResult
<1>5. CASE k # 0 /\ tx \in l /\ l \subseteq N
  <2>1. Results(l) = [i \in 1 .. k |-> Entry(tx, rx, csi[i].at[tx], csi[i].at[rx],
                                              csi[i].start, csi[i].end)]
    <3>1. wire.csi # <<>> /\ wire.csi[1].tx = tx /\ l \subseteq DOMAIN wire.csi[1].at
      BY <1>2, <1>4, <1>5
    <3>2. PICK t : t = wire.csi[1].tx
      OBVIOUS
    <3>3. rx = CHOOSE n \in l : n # t
      BY <1>1, <3>1, <3>2
    <3>4. wire.csi # <<>> /\ t \in l /\ l \subseteq DOMAIN wire.csi[1].at
      BY <1>5, <3>1, <3>2
    <3>5. Results(l) = [i \in 1 .. Len(wire.csi) |->
                Entry(t, rx, wire.csi[i].at[t], wire.csi[i].at[rx],
                      wire.csi[i].start, wire.csi[i].end)]
      BY <3>2, <3>3, <3>4, SMT DEF Results
    <3> QED BY <1>2, <3>1, <3>2, <3>5
  <2>2. rx \in l /\ rx # tx /\ l = {tx, rx}
    <3>1. PICK a \in Nodes, b \in Nodes : l = {a, b} /\ a # b
      BY DEF Links
    <3>2. \E n \in l : n # tx
      BY <3>1
    <3>3. rx \in l /\ rx # tx
      BY <1>1, <3>2
    <3> QED BY <1>5, <3>1, <3>3
  <2>3. rx \in Nodes /\ rx \in N
    BY <1>5, <2>2
  <2>4. ASSUME NEW i \in 1 .. k
        PROVE  Entry(tx, rx, csi[i].at[tx], csi[i].at[rx], csi[i].start, csi[i].end)
                    \in LinkEntries(l)
    <3>1. /\ csi[i].start \in Int /\ csi[i].end \in Int
          /\ csi[i].at[tx] \in Homes(tx) /\ csi[i].at[rx] \in Homes(rx)
      BY <1>3, <1>5, <2>3 DEF IsResult
    <3>2. csi[i].at[tx] \in Positions /\ csi[i].at[rx] \in Positions
      BY <2>3, <3>1, Tracks
    <3>3. PICK p, q, s, t : p = csi[i].at[tx] /\ q = csi[i].at[rx]
                             /\ s = csi[i].start /\ t = csi[i].end
      OBVIOUS
    <3>4. Entry(tx, rx, p, q, s, t) \in EntryType
      BY <2>3, <3>1, <3>2, <3>3 DEF Entry, EntryType
    <3> QED BY <2>2, <3>1, <3>3, <3>4 DEF LinkEntries, Entry
  <2>5. Results(l) \in Seq(LinkEntries(l)) /\ Len(Results(l)) = k
    BY <1>3, <2>1, <2>4
  <2>6. \A i \in 1 .. k : Results(l)[i].start = csi[i].start /\ Results(l)[i].end = csi[i].end
    BY <2>1 DEF Entry
  <2> QED BY <1>2, <2>5, <2>6
<1>6. CASE k # 0 /\ ~(tx \in l /\ l \subseteq N)
  <2>1. Results(l) = <<>>
    BY <1>2, <1>4, <1>6 DEF Results
  <2> QED BY <1>6, <2>1
<1>7. CASE k = 0
  <2>1. Results(l) = <<>>
    BY <1>2, <1>3, <1>7 DEF Results
  <2> QED BY <1>2, <1>7, <2>1
<1> QED BY <1>3, <1>5, <1>6, <1>7

\* Among what the answer adds there is an entry of the link that covers the
\* present, so that one is found.  Without an answer one of before is found, or
\* none.
LEMMA RecvResponseAnswers ==
    ASSUME AnswerInv, RecvResponse
    PROVE  Holds' /\ EveryLookupIsAnswered'
<1> DEFINE a == lookup.a
           b == lookup.b
           filled == [l \in Links |-> cache[l] \o Results(l)]
           found(entries) == {i \in 1 .. Len(entries) : Covers(entries[i])}
<1>1. PICK link, entries : link = {a, b} /\ entries = filled[link]
  OBVIOUS
<1>2. /\ sim = "waiting" /\ wire.type = "response" /\ sim' = "running" /\ wire' = Nothing
      /\ cache' = filled /\ UNCHANGED <<nodes, now, active, misses, lastActive, env>>
      /\ Return(a, b, lookup.kind, TRUE,
                IF found(entries) = {} THEN Unreachable ELSE entries[Min(found(entries))])
  BY <1>1 DEF RecvResponse
<1>3. /\ link \in Links
      /\ \E tx \in link, N \in SUBSET Nodes :
            /\ IsAnswer(wire.csi, tx, N) /\ link \subseteq N
            /\ \/ /\ Len(wire.csi) > 0
                  /\ wire.csi[1].start <= now /\ now <= wire.csi[1].end
               \/ Len(wire.csi) = 0 /\ NoInstant
  BY <1>1, <1>2 DEF AnswerInv, Holds, AnswerFits
<1>4. PICK tx \in link, N \in SUBSET Nodes :
            /\ IsAnswer(wire.csi, tx, N) /\ link \subseteq N
            /\ \/ /\ Len(wire.csi) > 0
                  /\ wire.csi[1].start <= now /\ now <= wire.csi[1].end
               \/ Len(wire.csi) = 0 /\ NoInstant
  BY <1>3
<1>5. a \in Nodes /\ b \in Nodes /\ a # b /\ tx \in Nodes
  <2>1. link \subseteq Nodes
    BY <1>3 DEF Links
  <2> QED BY <1>1, <1>3, <2>1, LinkOfTwo
<1>6. \A l \in Links : filled[l] \in Seq(LinkEntries(l))
  <2> TAKE l \in Links
  <2>1. Results(l) \in Seq(LinkEntries(l))
    BY <1>4, <1>5, ResultsAreEntries
  <2>2. cache[l] \in Seq(LinkEntries(l))
    BY DEF AnswerInv, Holds, CacheHolds
  <2> QED BY <2>1, <2>2
<1>7. CacheHolds'
  BY <1>2, <1>6 DEF CacheHolds
<1>8. PICK old, new : old = cache[link] /\ new = Results(link)
  OBVIOUS
<1>9. /\ old \in Seq(LinkEntries(link)) /\ new \in Seq(LinkEntries(link))
      /\ entries = old \o new /\ entries \in Seq(LinkEntries(link))
  BY <1>1, <1>3, <1>4, <1>5, <1>6, <1>8, ResultsAreEntries DEF AnswerInv, Holds, CacheHolds
<1> DEFINE Returned == /\ place' \in [Nodes -> Positions] /\ \A n \in Nodes : place'[n] \in Homes(n)
                       /\ lookup'.entry \in EntryType /\ EveryLookupIsAnswered'
<1>10. ASSUME found(entries) # {}  PROVE Returned
  <2>1. PICK i : i = Min(found(entries))
    OBVIOUS
  <2>2. i \in 1 .. Len(entries) /\ Covers(entries[i])
    <3>1. found(entries) \in SUBSET Nat
      OBVIOUS
    <3>2. i \in found(entries)
      <4> HIDE DEF found
      <4> QED BY <1>10, <2>1, <3>1, MinIsLeast
    <3> QED BY <3>2
  <2>3. entries[i] \in LinkEntries({a, b})
    BY <1>1, <1>9, <2>2
  <2>4. Return(a, b, lookup.kind, TRUE, entries[i])
    <3> HIDE DEF found
    <3> QED BY <1>2, <1>10, <2>1
  <2> QED BY <1>2, <1>5, <2>2, <2>3, <2>4, ReturnAnswers DEF AnswerInv, Holds
<1>11. ASSUME found(entries) = {}  PROVE Returned
  <2>1. ~(/\ Len(wire.csi) > 0
          /\ wire.csi[1].start <= now /\ now <= wire.csi[1].end)
    <3> SUFFICES ASSUME Len(wire.csi) > 0, wire.csi[1].start <= now, now <= wire.csi[1].end
                 PROVE  found(entries) # {}
      BY <1>11
    <3>1. Len(wire.csi) \in Nat \ {0} /\ 1 \in 1 .. Len(wire.csi)
      BY <1>4 DEF IsAnswer
    <3>2. /\ Len(new) \in Nat \ {0} /\ new[1].start = wire.csi[1].start
          /\ new[1].end = wire.csi[1].end
      BY <1>3, <1>4, <1>5, <1>8, <3>1, ResultsAreEntries
    <3>3. Len(old) + 1 \in 1 .. Len(entries) /\ entries[Len(old) + 1] = new[1]
      BY <1>9, <3>2
    <3>4. Len(old) + 1 \in found(entries)
      BY <3>2, <3>3 DEF Covers
    <3> QED BY <3>4
  <2>2. NoInstant
    BY <1>4, <2>1
  <2>3. Return(a, b, lookup.kind, TRUE, Unreachable)
    <3> HIDE DEF found
    <3> QED BY <1>2, <1>11
  <2> QED BY <1>2, <1>5, <2>2, <2>3, ReturnNothing DEF AnswerInv, Holds
<1>12. Returned
  <2> HIDE DEF found, Returned
  <2> QED BY <1>10, <1>11
<1>13. SimulationHolds'
  BY <1>2, <1>12 DEF AnswerInv, Holds, SimulationHolds
<1>14. ServerHolds'
  BY <1>2 DEF AnswerInv, Holds, ServerHolds, env, IsNodeInfo
<1>15. WireTypes' /\ WireHolds' /\ NodesAreKnown' /\ AnswerFits'
  BY <1>2 DEF AnswerInv, Holds, WireTypes, WireHolds, NodesAreKnown, AnswerFits, env, Nothing
<1> QED BY <1>7, <1>12, <1>13, <1>14, <1>15 DEF Holds
-----------------------------------------------------------------------------
(***************************************************************************)
(* Steps of the server                                                     *)
(***************************************************************************)
\* A node at the start of its track.
LEMMA NodeAtStartHolds ==
    ASSUME NEW n \in Nodes, NEW c \in [Walking -> Coherences],
           wire.active \in [External -> BOOLEAN]
    PROVE  NodeAtStart(n, c) \in NodeInfo(n)
<1>1. <<n, 0>> \in Seats(n) /\ <<n, 0>> \in Positions
  BY Tracks
<1>2. PICK at, on, co : /\ at = <<n, 0>> /\ on = (n \in External => wire.active[n])
                        /\ co = IF n \in Walking THEN c[n] ELSE MaxCoherence
  OBVIOUS
<1>3. NodeAtStart(n, c) = [at |-> at, updated |-> 0, active |-> on, coherence |-> co]
  BY <1>2 DEF NodeAtStart
<1>4. co \in Coherences \cup {MaxCoherence} /\ on \in BOOLEAN
  BY <1>2
<1>5. [at |-> at, updated |-> 0, active |-> on, coherence |-> co] \in NodeType
  BY <1>1, <1>2, <1>4 DEF NodeType
<1> QED BY <1>1, <1>2, <1>3, <1>5 DEF NodeInfo

\* The nodes of a new session.
LEMMA InitMobilityHolds ==
    ASSUME IsNodeInfo(nodeInfo), InitMobility, wire.nodes \subseteq Nodes,
           wire.active \in [External -> BOOLEAN]
    PROVE  IsNodeInfo(nodeInfo)' /\ wire.nodes \subseteq DOMAIN nodeInfo'
<1>1. PICK c \in [Walking -> Coherences] :
        nodeInfo' = [n \in wire.nodes \cup DOMAIN nodeInfo |->
                        IF n \in wire.nodes THEN NodeAtStart(n, c) ELSE nodeInfo[n]]
  BY DEF InitMobility
<1>2. DOMAIN nodeInfo' = wire.nodes \cup DOMAIN nodeInfo
  BY <1>1
<1>3. \A n \in DOMAIN nodeInfo' : nodeInfo'[n] \in NodeInfo(n)
  <2> TAKE n \in DOMAIN nodeInfo'
  <2>1. n \in wire.nodes => NodeAtStart(n, c) \in NodeInfo(n)
    BY NodeAtStartHolds
  <2>2. n \notin wire.nodes => nodeInfo[n] \in NodeInfo(n)
    BY <1>2 DEF IsNodeInfo
  <2> QED BY <1>1, <1>2, <2>1, <2>2
<1>4. nodeInfo' = [n \in DOMAIN nodeInfo' |-> nodeInfo'[n]]
  BY <1>1
<1> QED BY <1>2, <1>3, <1>4 DEF IsNodeInfo

\* A new session has its nodes on the server, at the start of their tracks.
LEMMA ServeInitAnswers ==
    ASSUME AnswerInv, ServeInit
    PROVE  Holds' /\ EveryLookupIsAnswered'
<1>1. /\ UNCHANGED <<sim, nodes, now, place, active, cache, misses, lastActive, lookup>>
      /\ UNCHANGED server /\ wire.type = "init"
  BY DEF ServeInit, ns3
<1>2. sim \in {"off", "starting"} /\ (sim = "starting" => wire.nodes = nodes)
  BY <1>1 DEF AnswerInv, Conversation
<1>3. CacheHolds' /\ SimulationHolds' /\ AnswerFits' /\ EveryLookupIsAnswered'
  BY <1>1, <1>2 DEF AnswerInv, Holds, CacheHolds, SimulationHolds, AnswerFits,
                    EveryLookupIsAnswered, Answered
<1>4. /\ wire.setting \in Settings /\ wire.nodes \subseteq Nodes
      /\ wire.active \in [External -> BOOLEAN]
  BY <1>1 DEF AnswerInv, Holds, WireHolds
<1>5. CASE InitEnv(wire.setting) /\ Reply([type |-> "ack", ok |-> TRUE])
  <2>1. /\ mode' = wire.setting.mode /\ subMode' = wire.setting.subMode
        /\ simTime' = 0 /\ InitMobility
    BY <1>5 DEF InitEnv
  <2>2. IsNodeInfo(nodeInfo)' /\ wire.nodes \subseteq DOMAIN nodeInfo'
    BY <1>4, <2>1, InitMobilityHolds DEF AnswerInv, Holds, ServerHolds
  <2>3. wire.setting.mode \in Modes /\ wire.setting.subMode \in Nat
    BY <1>4, ChannelAssumption
  <2>4. ServerHolds'
    BY <1>1, <1>4, <2>1, <2>2, <2>3 DEF AnswerInv, Holds, ServerHolds
  <2>5. wire' = IF sim = "off" THEN Nothing ELSE [type |-> "ack", ok |-> TRUE]
    BY <1>5 DEF Reply
  <2>6. WireTypes' /\ WireHolds' /\ NodesAreKnown'
    BY <1>1, <1>2, <2>2, <2>5 DEF WireTypes, WireHolds, NodesAreKnown, Nothing
  <2> QED BY <1>3, <2>4, <2>6 DEF Holds
<1>6. CASE NewEnv /\ Reply([type |-> "ack", ok |-> FALSE])
  <2>1. mode' = "P2MP" /\ subMode' = 0 /\ simTime' = 0 /\ nodeInfo' = NoNodes
    BY <1>6 DEF NewEnv
  <2>2. ServerHolds'
    BY <1>1, <2>1 DEF AnswerInv, Holds, ServerHolds, IsNodeInfo, NoNodes, Modes
  <2>3. wire' = IF sim = "off" THEN Nothing ELSE [type |-> "ack", ok |-> FALSE]
    BY <1>6 DEF Reply
  <2>4. WireTypes' /\ WireHolds' /\ NodesAreKnown'
    BY <1>1, <1>2, <2>3 DEF WireTypes, WireHolds, NodesAreKnown, Nothing
  <2> QED BY <1>3, <2>2, <2>4 DEF Holds
<1> QED BY <1>5, <1>6 DEF ServeInit

\* After a session the server knows no nodes.
LEMMA ServeCloseAnswers ==
    ASSUME AnswerInv, ServeClose
    PROVE  Holds' /\ EveryLookupIsAnswered'
<1>1. /\ UNCHANGED <<sim, nodes, now, place, active, cache, misses, lastActive, lookup>>
      /\ UNCHANGED server /\ wire.type = "close"
      /\ mode' = "P2MP" /\ subMode' = 0 /\ simTime' = 0 /\ nodeInfo' = NoNodes
      /\ wire' = IF sim = "off" THEN Nothing ELSE [type |-> "ack", ok |-> TRUE]
  BY DEF ServeClose, ns3, NewEnv, Reply
<1>2. sim \in {"off", "closing"}
  BY <1>1 DEF AnswerInv, Conversation
<1>3. CacheHolds' /\ SimulationHolds' /\ AnswerFits' /\ EveryLookupIsAnswered'
  BY <1>1, <1>2 DEF AnswerInv, Holds, CacheHolds, SimulationHolds, AnswerFits,
                    EveryLookupIsAnswered, Answered
<1>4. ServerHolds'
  BY <1>1 DEF AnswerInv, Holds, ServerHolds, IsNodeInfo, NoNodes, Modes
<1>5. WireTypes' /\ WireHolds' /\ NodesAreKnown'
  BY <1>1, <1>2 DEF WireTypes, WireHolds, NodesAreKnown, Nothing
<1> QED BY <1>3, <1>4, <1>5 DEF Holds

\* The coherence of a node is a number of instants.
LEMMA CoherenceIsPositive ==
    ASSUME NEW n, NEW info \in NodeInfo(n)
    PROVE  info.coherence \in Nat \ {0}
BY ChannelAssumption DEF NodeInfo, NodeType

\* So is the time that the links of a transmitter last.
LEMMA ShortestIsPositive ==
    ASSUME NEW f, IsNodeInfo(f), NEW tx \in DOMAIN f, NEW others \in SUBSET DOMAIN f,
           others # {}
    PROVE  Shortest(tx, others, f) \in Nat \ {0}
<1> DEFINE S == {Shorter(f[n].coherence, f[tx].coherence) : n \in others}
<1>1. \A n \in DOMAIN f : f[n].coherence \in Nat \ {0}
  BY CoherenceIsPositive DEF IsNodeInfo
<1>2. \A s \in S : s \in Nat \ {0}
  BY <1>1 DEF Shorter
<1>3. S # {}
  OBVIOUS
<1>4. Min(S) \in S
  <2>1. S \in SUBSET Nat
    BY <1>2
  <2> HIDE DEF S
  <2> QED BY <1>3, <2>1, MinIsLeast
<1>5. Min(S) \in Nat \ {0}
  <2> HIDE DEF S
  <2> QED BY <1>2, <1>4
<1> QED BY <1>5 DEF Shortest

\* The states of the external nodes are applied.
LEMMA AppliedHolds ==
    ASSUME IsRequest, IsNodeInfo(nodeInfo), NEW c \in [External -> Coherences]
    PROVE  IsNodeInfo(ApplyExternal(c)) /\ DOMAIN ApplyExternal(c) = DOMAIN nodeInfo
<1>1. PICK f : f = ApplyExternal(c)
  OBVIOUS
<1>2. f = [n \in DOMAIN nodeInfo |-> IF n \in DOMAIN wire.states THEN ExternalAt(n, c)
                                     ELSE nodeInfo[n]]
  BY <1>1 DEF ApplyExternal
<1>3. ASSUME NEW n \in DOMAIN nodeInfo, n \in DOMAIN wire.states
      PROVE  ExternalAt(n, c) \in NodeInfo(n)
  <2>1. /\ n \in External /\ wire.states[n].at \in Homes(n)
        /\ wire.states[n].active \in BOOLEAN /\ wire.time \in Nat
    BY <1>3 DEF IsRequest
  <2>2. wire.states[n].at \in Positions
    BY <2>1, Tracks DEF Nodes
  <2>3. PICK at, time, on, co : /\ at = wire.states[n].at /\ time = wire.time
                                 /\ on = wire.states[n].active
                                 /\ co = ExternalAt(n, c).coherence
    OBVIOUS
  <2>4. co \in Coherences \cup {MaxCoherence}
    BY <2>1, <2>3 DEF ExternalAt
  <2>5. ExternalAt(n, c) = [at |-> at, updated |-> time, active |-> on, coherence |-> co]
    BY <2>3 DEF ExternalAt
  <2>6. [at |-> at, updated |-> time, active |-> on, coherence |-> co] \in NodeType
    BY <2>1, <2>2, <2>3, <2>4 DEF NodeType
  <2> QED BY <2>1, <2>3, <2>5, <2>6 DEF NodeInfo, Seats
<1>4. \A n \in DOMAIN f : f[n] \in NodeInfo(n)
  BY <1>2, <1>3 DEF IsNodeInfo
<1> QED BY <1>1, <1>2, <1>4 DEF IsNodeInfo

\* A walk ends on the track of the node.
LEMMA WalkHolds ==
    ASSUME NEW n \in Nodes \cap Walking, NEW info \in NodeInfo(n), NEW leg \in Legs,
           NEW moves \in BOOLEAN, NEW time \in Nat
    PROVE  Walk(info, leg, moves, time) \in NodeInfo(n)
<1>1. Track(n) = {n} \X Spots /\ Seats(n) = Track(n)
  BY ChannelAssumption DEF Track, Seats, Nodes
<1>2. /\ info.at \in {n} \X Spots /\ info.active \in BOOLEAN
      /\ info.coherence \in Coherences \cup {MaxCoherence}
      /\ leg.spot \in Spots /\ leg.next \in Coherences
  BY <1>1 DEF NodeInfo, NodeType, Legs
<1>3. info.at[1] = n
  BY <1>2
<1>4. PICK at, on, co : /\ at = (IF moves THEN <<info.at[1], leg.spot>> ELSE info.at)
                        /\ on = info.active
                        /\ co = IF info.updated = time THEN info.coherence ELSE leg.next
  OBVIOUS
<1>5. at \in Track(n) /\ at \in Positions
  BY <1>1, <1>2, <1>3, <1>4, Tracks
<1>6. Walk(info, leg, moves, time) = [at |-> at, updated |-> time, active |-> on, coherence |-> co]
  BY <1>4 DEF Walk
<1>7. [at |-> at, updated |-> time, active |-> on, coherence |-> co] \in NodeType
  BY <1>2, <1>4, <1>5 DEF NodeType
<1> QED BY <1>1, <1>5, <1>6, <1>7 DEF NodeInfo

\* Results for a request: about its two nodes, from its time on, if any.
AnswersFor(csi, tx, rx) ==
    \E N \in SUBSET Nodes :
        /\ IsAnswer(csi, tx, N) /\ rx \in N
        /\ Len(csi) > 0 => csi[1].start <= wire.time /\ wire.time <= csi[1].end

\* A computation answers for the instant of the request and the time its
\* links last.
LEMMA ClassicAnswers ==
    ASSUME IsRequest, ServerHolds, NEW tx \in DOMAIN nodeInfo, NEW rx \in DOMAIN nodeInfo,
           tx # rx, NEW m, ComputeClassic(tx, rx, m)
    PROVE  /\ IsNodeInfo(nodeInfo)' /\ DOMAIN nodeInfo' = DOMAIN nodeInfo
           /\ simTime' = wire.time
           /\ \E csi : /\ Reply([type |-> "response", csi |-> csi])
                       /\ AnswersFor(csi, tx, rx) /\ Len(csi) > 0
<1>1. PICK updating : updating = NodesToUpdate(tx, rx, m)
  OBVIOUS
<1>2. updating \subseteq DOMAIN nodeInfo /\ {tx, rx} \subseteq updating
  BY <1>1 DEF NodesToUpdate
<1> DEFINE Info(moving, c, leg) == [n \in DOMAIN nodeInfo |->
                IF n \in Walking \cap moving
                THEN Walk(ApplyExternal(c)[n], leg[n], wire.time # simTime, wire.time)
                ELSE ApplyExternal(c)[n]]
           Answer(moving, info) == [type |-> "response",
                csi |-> <<Csi(StartTime(wire.time),
                              wire.time + Shortest(tx, moving \ {tx}, info), tx,
                              [n \in moving |-> info[n].at])>>]
<1>3. PICK c \in [External -> Coherences], leg \in [Walking -> Legs] :
        /\ nodeInfo' = Info(NodesToUpdate(tx, rx, m), c, leg) /\ simTime' = wire.time
        /\ Reply(Answer(NodesToUpdate(tx, rx, m), Info(NodesToUpdate(tx, rx, m), c, leg)))
  BY ZenonT(30) DEF ComputeClassic
<1>4. PICK info : /\ info = Info(updating, c, leg) /\ nodeInfo' = info
                  /\ Reply(Answer(updating, info))
  <2> HIDE DEF Info, Answer
  <2> QED BY <1>1, <1>3
<1>5. PICK applied : applied = ApplyExternal(c)
  OBVIOUS
<1>6. IsNodeInfo(applied) /\ DOMAIN applied = DOMAIN nodeInfo
  BY <1>5, AppliedHolds DEF ServerHolds
<1>7. IsNodeInfo(info) /\ DOMAIN info = DOMAIN nodeInfo
  <2>1. wire.time \in Nat /\ (wire.time # simTime) \in BOOLEAN
    BY DEF IsRequest
  <2>2. ASSUME NEW n \in DOMAIN nodeInfo, n \in Walking
        PROVE  Walk(applied[n], leg[n], wire.time # simTime, wire.time) \in NodeInfo(n)
    <3>1. n \in Nodes \cap Walking /\ applied[n] \in NodeInfo(n) /\ leg[n] \in Legs
      BY <1>6, <2>2 DEF IsNodeInfo
    <3> QED BY <2>1, <3>1, WalkHolds
  <2>3. \A n \in DOMAIN nodeInfo : info[n] \in NodeInfo(n)
    BY <1>4, <1>5, <1>6, <2>2 DEF IsNodeInfo
  <2>4. DOMAIN info = DOMAIN nodeInfo /\ info = [n \in DOMAIN info |-> info[n]]
    BY <1>4
  <2> QED BY <1>6, <2>3, <2>4 DEF IsNodeInfo
<1>8. PICK tc : tc = Shortest(tx, updating \ {tx}, info)
  OBVIOUS
<1>9. tc \in Nat \ {0}
  <2>1. rx \in updating \ {tx}
    BY <1>2
  <2>2. updating \ {tx} \in SUBSET DOMAIN info /\ tx \in DOMAIN info
    BY <1>2, <1>7
  <2> QED BY <1>7, <1>8, <2>1, <2>2, ShortestIsPositive
<1>10. PICK at, time : at = [n \in updating |-> info[n].at] /\ time = wire.time
  OBVIOUS
<1>11. time \in Nat /\ DOMAIN at = updating /\ \A n \in updating : at[n] \in Homes(n)
  BY <1>2, <1>7, <1>10, Tracks DEF IsRequest, IsNodeInfo, NodeInfo
<1>12. PICK csi : csi = <<Csi(time, time + tc, tx, at)>>
  OBVIOUS
<1>13. Reply([type |-> "response", csi |-> csi])
  BY <1>4, <1>8, <1>10, <1>12 DEF StartTime
<1>14. AnswersFor(csi, tx, rx) /\ Len(csi) > 0
  <2>1. DOMAIN csi = 1 .. Len(csi) /\ Len(csi) = 1 /\ csi[1] = Csi(time, time + tc, tx, at)
    BY <1>12
  <2>2. IsResult(csi[1], tx, updating)
    BY <1>9, <1>11, <2>1 DEF IsResult, Csi
  <2>3. csi[1].start = time /\ csi[1].end = time + tc
    BY <2>1 DEF Csi
  <2>4. updating \in SUBSET Nodes
    BY <1>2 DEF ServerHolds, IsNodeInfo
  <2>5. IsAnswer(csi, tx, updating)
    BY <1>2, <2>1, <2>2, <2>4 DEF IsAnswer
  <2>6. csi[1].start <= wire.time /\ wire.time <= csi[1].end
    BY <1>9, <1>10, <1>11, <2>3
  <2> QED BY <1>2, <2>1, <2>4, <2>5, <2>6 DEF AnswersFor
<1> QED BY <1>3, <1>4, <1>7, <1>13, <1>14

\* The loop over the instants of a look-ahead ends, whatever their number.
LEMMA AheadIsLoop ==
    ASSUME NEW tx, NEW applied, NEW legs, Len(legs) \in Nat
    PROVE  \E f : /\ Ahead(tx, applied, legs) = f
                  /\ f = [i \in 0 .. Len(legs) |->
                            IF i = 0 THEN [info |-> applied, time |-> simTime]
                            ELSE StepAhead(i, f[i - 1], tx, legs[i])]
<1> DEFINE At(f, i) == IF i = 0 THEN [info |-> applied, time |-> simTime]
                       ELSE StepAhead(i, f[i - 1], tx, legs[i])
           Loop(f, k) == f = [i \in 0 .. k |-> At(f, i)]
           Endless == {k \in Nat : ~\E f : Loop(f, k)}
<1>1. Endless = {}
  <2> SUFFICES ASSUME Endless # {} PROVE FALSE
    OBVIOUS
  <2>1. PICK k \in Endless : \A j \in Endless : ~(<<j, k>> \in Below)
    <3>1. Endless \subseteq Nat
      OBVIOUS
    <3> HIDE DEF Endless
    <3> QED BY <3>1, BelowIsWellFounded, WFMin
  <2>2. k \in Nat
    OBVIOUS
  <2>3. CASE k = 0
    <3>1. Loop([i \in 0 .. 0 |-> [info |-> applied, time |-> simTime]], 0)
      OBVIOUS
    <3> QED BY <2>3, <3>1
  <2>4. CASE k # 0
    <3>1. k - 1 \in Nat /\ k - 1 \notin Endless
      <4>1. k - 1 \in Nat /\ k - 1 < k
        BY <2>2, <2>4
      <4>2. <<k - 1, k>> \in Below
        BY <2>2, <4>1 DEF Below
      <4> HIDE DEF Endless
      <4> QED BY <2>1, <4>1, <4>2
    <3>2. PICK f : Loop(f, k - 1)
      BY <3>1
    <3> DEFINE g == [i \in 0 .. k |-> IF i = k THEN At(f, k) ELSE f[i]]
    <3>3. \A i \in 0 .. k : g[i] = At(g, i)
      <4> TAKE i \in 0 .. k
      <4>1. CASE i = k
        <5>1. g[i - 1] = f[i - 1]
          BY <2>2, <2>4, <4>1
        <5> QED BY <4>1, <5>1
      <4>2. CASE i # k
        <5>1. i \in 0 .. k - 1
          BY <2>2, <4>2
        <5>2. f[i] = At(f, i)
          BY <3>2, <5>1
        <5>3. i # 0 => g[i - 1] = f[i - 1]
          BY <2>2, <5>1
        <5> QED BY <4>2, <5>2, <5>3
      <4> QED BY <4>1, <4>2
    <3>4. Loop(g, k)
      BY <3>3
    <3> QED BY <3>4
  <2> QED BY <2>3, <2>4
<1>2. \E f : Loop(f, Len(legs))
  BY <1>1
<1>3. PICK f : f = (CHOOSE h : h = [i \in 0 .. Len(legs) |-> At(h, i)])
  OBVIOUS
<1>4. Loop(f, Len(legs))
  BY <1>2, <1>3
<1>5. Ahead(tx, applied, legs) = f
  BY <1>3 DEF Ahead
<1> QED BY <1>4, <1>5

\* One instant of it.
LEMMA StepAheadHolds ==
    ASSUME IsRequest, NEW was, IsNodeInfo(was.info), was.time \in Nat,
           NEW tx \in DOMAIN was.info, DOMAIN was.info \ {tx} # {},
           NEW leg \in [Walking -> Legs], NEW i
    PROVE  /\ IsNodeInfo(StepAhead(i, was, tx, leg).info)
           /\ DOMAIN StepAhead(i, was, tx, leg).info = DOMAIN was.info
           /\ StepAhead(i, was, tx, leg).time \in Nat
           /\ i = 1 => StepAhead(i, was, tx, leg).time = wire.time
<1>1. PICK time : time = IF i = 1 THEN wire.time
                         ELSE was.time + Shortest(tx, DOMAIN was.info \ {tx}, was.info)
  OBVIOUS
<1>2. time \in Nat
  <2>1. Shortest(tx, DOMAIN was.info \ {tx}, was.info) \in Nat \ {0}
    BY ShortestIsPositive
  <2> QED BY <1>1, <2>1 DEF IsRequest
<1>3. PICK info : info = [n \in DOMAIN was.info |->
                      IF n \in Walking THEN Walk(was.info[n], leg[n], Elapsed(i), time)
                      ELSE was.info[n]]
  OBVIOUS
<1>4. StepAhead(i, was, tx, leg) = [info |-> info, time |-> time]
  BY <1>1, <1>3 DEF StepAhead
<1>5. ASSUME NEW n \in DOMAIN was.info, n \in Walking
      PROVE  Walk(was.info[n], leg[n], Elapsed(i), time) \in NodeInfo(n)
  <2>1. n \in Nodes \cap Walking /\ was.info[n] \in NodeInfo(n) /\ leg[n] \in Legs
    BY <1>5 DEF IsNodeInfo
  <2>2. Elapsed(i) \in BOOLEAN
    BY DEF Elapsed
  <2> QED BY <1>2, <2>1, <2>2, WalkHolds
<1>6. \A n \in DOMAIN was.info : info[n] \in NodeInfo(n)
  BY <1>3, <1>5 DEF IsNodeInfo
<1>7. IsNodeInfo(info) /\ DOMAIN info = DOMAIN was.info
  BY <1>3, <1>6 DEF IsNodeInfo
<1> QED BY <1>1, <1>2, <1>4, <1>7

\* All of them.
LEMMA AheadHolds ==
    ASSUME IsRequest, simTime \in Nat, NEW applied, IsNodeInfo(applied),
           NEW tx \in DOMAIN applied, DOMAIN applied \ {tx} # {}, NEW q \in Nat,
           NEW legs \in [1 .. q -> [Walking -> Legs]]
    PROVE  \E f : /\ Ahead(tx, applied, legs) = f /\ Len(legs) = q
                  /\ \A i \in 0 .. q : /\ IsNodeInfo(f[i].info) /\ f[i].time \in Nat
                                       /\ DOMAIN f[i].info = DOMAIN applied
                  /\ q > 0 => f[1].time = wire.time
<1>1. Len(legs) = q
  OBVIOUS
<1>2. PICK f : /\ Ahead(tx, applied, legs) = f
               /\ f = [i \in 0 .. q |->
                         IF i = 0 THEN [info |-> applied, time |-> simTime]
                         ELSE StepAhead(i, f[i - 1], tx, legs[i])]
  BY <1>1, AheadIsLoop
<1> DEFINE Good(s) == IsNodeInfo(s.info) /\ s.time \in Nat /\ DOMAIN s.info = DOMAIN applied
           Wrong == {i \in 0 .. q : ~Good(f[i])}
<1>3. ASSUME NEW i \in 1 .. q, Good(f[i - 1])
      PROVE  Good(f[i]) /\ (i = 1 => f[i].time = wire.time)
  <2>1. f[i] = StepAhead(i, f[i - 1], tx, legs[i])
    BY <1>2
  <2>2. PICK was, leg : was = f[i - 1] /\ leg = legs[i]
    OBVIOUS
  <2>3. IsNodeInfo(was.info) /\ was.time \in Nat /\ DOMAIN was.info = DOMAIN applied
    BY <1>3, <2>2
  <2>4. leg \in [Walking -> Legs]
    BY <2>2
  <2>5. /\ IsNodeInfo(StepAhead(i, was, tx, leg).info)
        /\ DOMAIN StepAhead(i, was, tx, leg).info = DOMAIN was.info
        /\ StepAhead(i, was, tx, leg).time \in Nat
        /\ i = 1 => StepAhead(i, was, tx, leg).time = wire.time
    BY <2>3, <2>4, StepAheadHolds
  <2> QED BY <2>1, <2>2, <2>3, <2>5
<1>4. Good(f[0])
  <2>1. f[0] = [info |-> applied, time |-> simTime]
    BY <1>2
  <2> QED BY <2>1
<1>5. Wrong = {}
  <2> SUFFICES ASSUME Wrong # {} PROVE FALSE
    OBVIOUS
  <2>1. PICK k \in Wrong : \A j \in Wrong : ~(<<j, k>> \in Below)
    <3>1. Wrong \subseteq Nat
      OBVIOUS
    <3> HIDE DEF Wrong
    <3> QED BY <3>1, BelowIsWellFounded, WFMin
  <2>2. k \in 0 .. q /\ ~Good(f[k])
    OBVIOUS
  <2> HIDE DEF Good
  <2>3. k # 0
    BY <1>4, <2>2
  <2>4. k - 1 \in 0 .. q /\ k - 1 \in Nat /\ k \in Nat /\ k - 1 < k /\ k \in 1 .. q
    BY <2>2, <2>3
  <2>5. <<k - 1, k>> \in Below
    BY <2>4 DEF Below
  <2>6. Good(f[k - 1])
    BY <2>1, <2>4, <2>5
  <2> QED BY <1>3, <2>2, <2>4, <2>6
<1>6. \A i \in 0 .. q : Good(f[i])
  BY <1>5
<1>7. q > 0 => f[1].time = wire.time
  <2>1. q > 0 => 1 \in 1 .. q /\ 1 - 1 = 0
    OBVIOUS
  <2> HIDE DEF Good
  <2> QED BY <1>3, <1>4, <2>1
<1> QED BY <1>1, <1>2, <1>6, <1>7

\* What is found of the nodes at an instant.
LEMMA SeenHolds ==
    ASSUME NEW was, NEW is, IsNodeInfo(was), IsNodeInfo(is), DOMAIN was = DOMAIN is,
           NEW leg \in [Walking -> Legs], NEW i
    PROVE  IsNodeInfo(Seen(i, was, is, leg)) /\ DOMAIN Seen(i, was, is, leg) = DOMAIN is
<1>1. PICK f : f = Seen(i, was, is, leg)
  OBVIOUS
<1>2. f = [n \in DOMAIN is |-> IF n \in Walking /\ Elapsed(i)
                               THEN [is[n] EXCEPT !.coherence = leg[n].seen]
                               ELSE was[n]]
  BY <1>1 DEF Seen
<1>3. ASSUME NEW n \in DOMAIN is, n \in Walking
      PROVE  [is[n] EXCEPT !.coherence = leg[n].seen] \in NodeInfo(n)
  <2>1. PICK info, co : info = is[n] /\ co = leg[n].seen
    OBVIOUS
  <2>2. info \in NodeInfo(n) /\ co \in Coherences
    BY <1>3, <2>1 DEF IsNodeInfo, Legs
  <2>3. [info EXCEPT !.coherence = co] \in NodeInfo(n)
    BY <2>2 DEF NodeInfo, NodeType
  <2> QED BY <2>1, <2>3
<1>4. \A n \in DOMAIN f : f[n] \in NodeInfo(n)
  BY <1>2, <1>3 DEF IsNodeInfo
<1> QED BY <1>1, <1>2, <1>4 DEF IsNodeInfo

\* A look-ahead has the instant of the request unless its links are too many.
LEMMA SomeInstants ==
    ASSUME ServerHolds, NEW tx \in DOMAIN nodeInfo, NEW rx \in DOMAIN nodeInfo, tx # rx
    PROVE  /\ Instants \in Nat
           /\ Instants = 0 => subMode < Cardinality(DOMAIN nodeInfo) - 1
<1>1. IsFiniteSet(DOMAIN nodeInfo)
  BY ChannelAssumption, FS_Subset DEF ServerHolds, IsNodeInfo
<1>2. Cardinality(DOMAIN nodeInfo) \in Nat
  BY <1>1, FS_CardinalityType
<1>3. Cardinality(DOMAIN nodeInfo) >= 2
  <2>1. IsFiniteSet(DOMAIN nodeInfo \ {tx})
        /\ Cardinality(DOMAIN nodeInfo \ {tx}) = Cardinality(DOMAIN nodeInfo) - 1
    BY <1>1, FS_RemoveElement
  <2>2. Cardinality(DOMAIN nodeInfo \ {tx}) # 0 /\ Cardinality(DOMAIN nodeInfo \ {tx}) \in Nat
    <3>1. rx \in DOMAIN nodeInfo \ {tx}
      OBVIOUS
    <3> QED BY <2>1, <3>1, FS_EmptySet, FS_CardinalityType
  <2> QED BY <1>2, <2>1, <2>2
<1>4. PICK k : k = Cardinality(DOMAIN nodeInfo) - 1
  OBVIOUS
<1>5. k \in Nat /\ k >= 1 /\ subMode \in Nat
  BY <1>2, <1>3, <1>4 DEF ServerHolds
<1>6. subMode \div k \in Nat /\ (subMode >= k => subMode \div k >= 1)
  BY <1>5
<1> QED BY <1>4, <1>5, <1>6 DEF Instants

\* The first result of a look-ahead covers the instant of the request.  There is
\* none when the links are too many.
LEMMA LookaheadAnswers ==
    ASSUME IsRequest, ServerHolds, NEW tx \in DOMAIN nodeInfo, NEW rx \in DOMAIN nodeInfo,
           tx # rx, ComputeWithLookahead(tx)
    PROVE  /\ IsNodeInfo(nodeInfo)' /\ DOMAIN nodeInfo' = DOMAIN nodeInfo
           /\ simTime' \in Nat
           /\ \E csi : /\ Reply([type |-> "response", csi |-> csi])
                       /\ AnswersFor(csi, tx, rx)
                       /\ Len(csi) = 0 => subMode < Cardinality(DOMAIN nodeInfo) - 1
<1>1. PICK q : q = Instants
  OBVIOUS
<1>2. q \in Nat /\ (q = 0 => subMode < Cardinality(DOMAIN nodeInfo) - 1)
  BY <1>1, SomeInstants
<1> DEFINE steps == 1 .. Instants
           Kept(applied, ahead) == [n \in DOMAIN nodeInfo |->
                       IF n \in Walking THEN ahead.info[n] ELSE applied[n]]
           Answer(ahead) == [type |-> "response", csi |-> ahead.csi]
<1>3. PICK c \in [External -> Coherences], legs \in [steps -> [Walking -> Legs]] :
        /\ nodeInfo' = Kept(ApplyExternal(c), Lookahead(tx, ApplyExternal(c), legs))
        /\ simTime' = Lookahead(tx, ApplyExternal(c), legs).time
        /\ Reply(Answer(Lookahead(tx, ApplyExternal(c), legs)))
  BY ZenonT(30) DEF ComputeWithLookahead
<1>4. legs \in [1 .. q -> [Walking -> Legs]]
  BY <1>1
<1>5. PICK applied, ahead : applied = ApplyExternal(c) /\ ahead = Lookahead(tx, applied, legs)
  OBVIOUS
<1>6. /\ nodeInfo' = Kept(applied, ahead) /\ simTime' = ahead.time
      /\ Reply(Answer(ahead))
  <2> HIDE DEF Kept, Answer
  <2> QED BY <1>3, <1>5
<1>7. IsNodeInfo(applied) /\ DOMAIN applied = DOMAIN nodeInfo
  BY <1>5, AppliedHolds DEF ServerHolds
<1>8. PICK f : /\ Ahead(tx, applied, legs) = f /\ Len(legs) = q
               /\ \A i \in 0 .. q : /\ IsNodeInfo(f[i].info) /\ f[i].time \in Nat
                                    /\ DOMAIN f[i].info = DOMAIN applied
               /\ q > 0 => f[1].time = wire.time
  <2>1. rx \in DOMAIN applied \ {tx} /\ tx \in DOMAIN applied
    BY <1>7
  <2> QED BY <1>2, <1>4, <1>7, <2>1, AheadHolds DEF ServerHolds
<1> DEFINE Found(i) == Seen(i, f[i - 1].info, f[i].info, legs[i])
           Lasting(i) == Shortest(tx, DOMAIN Found(i) \ {tx}, Found(i))
           Result(i) == Csi(StartTime(f[i].time), f[i].time + Lasting(i) - 1, tx,
                            [n \in DOMAIN Found(i) |-> Found(i)[n].at])
<1>9. /\ ahead.info = f[q].info /\ ahead.time = f[q].time
      /\ ahead.csi = [i \in 1 .. q |-> Result(i)]
  BY <1>5, <1>8 DEF Lookahead
<1>10. IsNodeInfo(nodeInfo)' /\ DOMAIN nodeInfo' = DOMAIN nodeInfo /\ simTime' \in Nat
  <2>1. q \in 0 .. q
    BY <1>2
  <2>2. IsNodeInfo(ahead.info) /\ DOMAIN ahead.info = DOMAIN nodeInfo
    BY <1>7, <1>8, <1>9, <2>1
  <2>3. \A n \in DOMAIN nodeInfo : nodeInfo'[n] \in NodeInfo(n)
    BY <1>6, <1>7, <2>2 DEF IsNodeInfo
  <2>4. DOMAIN nodeInfo' = DOMAIN nodeInfo /\ nodeInfo' = [n \in DOMAIN nodeInfo' |-> nodeInfo'[n]]
    BY <1>6
  <2>5. IsNodeInfo(nodeInfo)'
    BY <2>3, <2>4 DEF IsNodeInfo, ServerHolds
  <2> QED BY <1>6, <1>8, <1>9, <2>1, <2>4, <2>5
<1>11. ASSUME NEW i \in 1 .. q
       PROVE  /\ IsResult(ahead.csi[i], tx, DOMAIN nodeInfo)
              /\ ahead.csi[i].start = f[i].time /\ ahead.csi[i].end >= f[i].time
  <2>1. i \in 0 .. q /\ i - 1 \in 0 .. q /\ legs[i] \in [Walking -> Legs]
    <3>1. i \in 0 .. q /\ i - 1 \in 0 .. q
      BY <1>2
    <3>2. legs[i] \in [Walking -> Legs]
      <4> HIDE DEF steps
      <4> QED BY <1>4
    <3> QED BY <3>1, <3>2
  <2>2. PICK was, is, leg, time : /\ was = f[i - 1].info /\ is = f[i].info /\ leg = legs[i]
                                  /\ time = f[i].time
    OBVIOUS
  <2>3. /\ IsNodeInfo(was) /\ IsNodeInfo(is) /\ DOMAIN was = DOMAIN nodeInfo
        /\ DOMAIN is = DOMAIN nodeInfo /\ time \in Nat
    BY <1>7, <1>8, <2>1, <2>2
  <2>4. PICK seen : seen = Seen(i, was, is, leg)
    OBVIOUS
  <2>5. IsNodeInfo(seen) /\ DOMAIN seen = DOMAIN nodeInfo
    BY <2>1, <2>2, <2>3, <2>4, SeenHolds
  <2>6. PICK d, at : d = Shortest(tx, DOMAIN seen \ {tx}, seen) /\ at = [n \in DOMAIN seen |-> seen[n].at]
    OBVIOUS
  <2>7. d \in Nat \ {0}
    <3>1. rx \in DOMAIN seen \ {tx} /\ tx \in DOMAIN seen
      BY <2>5
    <3> QED BY <2>5, <2>6, <3>1, ShortestIsPositive
  <2>8. ahead.csi[i] = Csi(time, time + d - 1, tx, at)
    <3>1. ahead.csi[i] = Result(i)
      BY <1>9
    <3>2. Found(i) = seen
      BY <2>2, <2>4
    <3>3. Lasting(i) = d
      BY <2>6, <3>2
    <3> HIDE DEF Found, Lasting
    <3> QED BY <2>2, <2>6, <3>1, <3>2, <3>3 DEF StartTime
  <2>9. \A n \in DOMAIN nodeInfo : at[n] \in Homes(n)
    BY <2>5, <2>6, Tracks DEF IsNodeInfo, NodeInfo
  <2>10. DOMAIN at = DOMAIN nodeInfo
    BY <2>5, <2>6
  <2> QED BY <2>2, <2>3, <2>7, <2>8, <2>9, <2>10 DEF IsResult, Csi
<1>12. AnswersFor(ahead.csi, tx, rx) /\ Len(ahead.csi) = q
  <2>1. DOMAIN ahead.csi = 1 .. Len(ahead.csi) /\ Len(ahead.csi) = q
    <3> HIDE DEF Result
    <3> QED BY <1>2, <1>9
  <2>2. DOMAIN nodeInfo \in SUBSET Nodes
    BY DEF ServerHolds, IsNodeInfo
  <2>3. q = 0 => ahead.csi = <<>>
    <3> HIDE DEF Result
    <3> QED BY <1>9
  <2>4. IsAnswer(ahead.csi, tx, DOMAIN nodeInfo)
    BY <1>2, <1>11, <2>1, <2>2, <2>3 DEF IsAnswer
  <2>5. ASSUME q > 0
        PROVE  ahead.csi[1].start <= wire.time /\ wire.time <= ahead.csi[1].end
    <3> 1 \in 1 .. q
      BY <1>2, <2>5
    <3>1. ahead.csi[1].end \in Int /\ wire.time \in Nat
      BY <1>11 DEF IsResult, IsRequest
    <3> QED BY <1>8, <1>11, <2>5, <3>1
  <2> QED BY <2>1, <2>2, <2>4, <2>5 DEF AnswersFor
<1> QED BY <1>2, <1>6, <1>10, <1>12

\* Whichever node is taken for the transmitter, the answer is about the link,
\* and only a transmitter that does not walk may have too many.
LEMMA ServeRequestAnswers ==
    ASSUME AnswerInv, ServeRequest
    PROVE  Holds' /\ EveryLookupIsAnswered'
<1> DEFINE swap == mode = "P2MP_LAH" /\ wire.tx \in Walking /\ wire.rx \notin Walking
           from == IF swap THEN wire.rx ELSE wire.tx
           to == IF swap THEN wire.tx ELSE wire.rx
           method == IF mode = "P2MP_LAH" THEN "P2MP" ELSE mode
<1>1. /\ UNCHANGED <<sim, nodes, now, place, active, cache, misses, lastActive, lookup>>
      /\ wire.type = "request"
  BY DEF ServeRequest, ns3
<1>2. /\ sim \in {"off", "waiting"}
      /\ sim = "waiting" => wire.time = now /\ wire.tx = lookup.a /\ wire.rx = lookup.b
  BY <1>1 DEF AnswerInv, Conversation, Holds, AnswerFits
<1>3. /\ IsRequest /\ ServerHolds /\ {wire.tx, wire.rx} \subseteq DOMAIN nodeInfo
  BY <1>1 DEF AnswerInv, Holds, WireHolds, NodesAreKnown
<1>4. CacheHolds' /\ SimulationHolds'
  BY <1>1 DEF AnswerInv, Holds, CacheHolds, SimulationHolds
<1>5. EveryLookupIsAnswered'
  BY <1>1, <1>2 DEF EveryLookupIsAnswered, Answered
<1>6. PICK tx, rx, m : tx = from /\ rx = to /\ m = method
  OBVIOUS
<1>7. tx \in DOMAIN nodeInfo /\ rx \in DOMAIN nodeInfo /\ tx # rx /\ {tx, rx} = {wire.tx, wire.rx}
  BY <1>3, <1>6 DEF IsRequest
<1>8. \/ /\ \/ ComputeWithLookahead(from) /\ mode = "P2MP_LAH" /\ wire.tx \notin Walking
            \/ ComputeClassic(from, to, method)
         /\ UNCHANGED <<server, mode, subMode>>
      \/ server' = "failed" /\ UNCHANGED <<wire, mode, subMode, simTime, nodeInfo>>
  BY DEF ServeRequest
<1> HIDE DEF from, to, method
<1>9. CASE /\ \/ ComputeWithLookahead(from) /\ mode = "P2MP_LAH" /\ wire.tx \notin Walking
              \/ ComputeClassic(from, to, method)
           /\ UNCHANGED <<server, mode, subMode>>
  <2> DEFINE None == /\ mode = "P2MP_LAH" /\ wire.tx \notin Walking
                     /\ subMode < Cardinality(DOMAIN nodeInfo) - 1
  <2>1. /\ IsNodeInfo(nodeInfo)' /\ DOMAIN nodeInfo' = DOMAIN nodeInfo
        /\ simTime' \in Nat
        /\ \E csi : /\ Reply([type |-> "response", csi |-> csi])
                    /\ AnswersFor(csi, tx, rx) /\ (Len(csi) > 0 \/ (Len(csi) = 0 /\ None))
    <3>1. wire.time \in Nat
      BY <1>3 DEF IsRequest
    <3>2. CASE ComputeWithLookahead(tx) /\ mode = "P2MP_LAH" /\ wire.tx \notin Walking
      <4>1. PICK csi : /\ Reply([type |-> "response", csi |-> csi]) /\ AnswersFor(csi, tx, rx)
                       /\ Len(csi) = 0 => subMode < Cardinality(DOMAIN nodeInfo) - 1
        BY <1>3, <1>7, <3>2, LookaheadAnswers
      <4>2. Len(csi) \in Nat
        BY <4>1 DEF AnswersFor, IsAnswer
      <4>3. Len(csi) > 0 \/ (Len(csi) = 0 /\ None)
        BY <3>2, <4>1, <4>2
      <4> QED BY <1>3, <1>7, <3>2, <4>1, <4>3, LookaheadAnswers
    <3>3. CASE ComputeClassic(tx, rx, m)
      BY <1>3, <1>7, <3>1, <3>3, ClassicAnswers
    <3> QED BY <1>6, <1>9, <3>2, <3>3
  <2>2. PICK csi : /\ Reply([type |-> "response", csi |-> csi])
                   /\ AnswersFor(csi, tx, rx) /\ (Len(csi) > 0 \/ (Len(csi) = 0 /\ None))
    BY <2>1
  <2>3. PICK N \in SUBSET Nodes :
            /\ IsAnswer(csi, tx, N) /\ rx \in N
            /\ \/ /\ Len(csi) > 0
                  /\ csi[1].start <= wire.time /\ wire.time <= csi[1].end
               \/ Len(csi) = 0 /\ None
    BY <2>2 DEF AnswersFor
  <2>4. ServerHolds'
    BY <1>3, <1>9, <2>1 DEF ServerHolds
  <2>5. CASE sim = "off"
    <3>1. wire'.type = "nothing"
      BY <2>2, <2>5 DEF Reply, Nothing
    <3> QED BY <1>1, <1>4, <1>5, <2>4, <2>5, <3>1
            DEF Holds, WireTypes, WireHolds, NodesAreKnown, AnswerFits
  <2>6. CASE sim = "waiting"
    <3>1. wire' = [type |-> "response", csi |-> csi]
      BY <2>2, <2>6 DEF Reply
    <3>2. wire'.type = "response" /\ wire'.csi = csi
      BY <3>1
    <3>3. tx \in Nodes /\ tx \in N
      BY <2>3 DEF IsAnswer
    <3>4. WireTypes' /\ WireHolds'
      BY <2>3, <3>2, <3>3 DEF WireTypes, WireHolds
    <3>5. NodesAreKnown'
      BY <1>1, <2>1, <2>6, <3>2 DEF AnswerInv, Holds, NodesAreKnown
    <3>6. AnswerFits'
      <4>1. {tx, rx} = {lookup.a, lookup.b} /\ wire.time = now
        BY <1>2, <1>7, <2>6
      <4>4. None => NoInstant'
        BY <1>1, <1>2, <1>9, <2>1, <2>6 DEF NoInstant
      <4>2. tx \in {lookup.a, lookup.b} /\ {lookup.a, lookup.b} \subseteq N
        BY <2>3, <3>3, <4>1
      <4>3. {lookup.a, lookup.b} \in Links /\ lookup.kind # "none"
        BY <2>6 DEF AnswerInv, Holds, AnswerFits
      <4> HIDE DEF None
      <4> QED BY <1>1, <2>3, <3>2, <4>1, <4>2, <4>3, <4>4 DEF AnswerFits
    <3> QED BY <1>4, <1>5, <2>4, <3>4, <3>5, <3>6 DEF Holds
  <2> QED BY <1>2, <2>5, <2>6
<1>10. CASE server' = "failed" /\ UNCHANGED <<wire, mode, subMode, simTime, nodeInfo>>
  <2>1. ServerHolds'
    BY <1>3, <1>10 DEF ServerHolds, IsNodeInfo
  <2>2. WireTypes' /\ WireHolds' /\ NodesAreKnown' /\ AnswerFits'
    BY <1>1, <1>10 DEF AnswerInv, Holds, WireTypes, WireHolds, NodesAreKnown, AnswerFits, IsRequest
  <2> QED BY <1>4, <1>5, <2>1, <2>2 DEF Holds
<1> QED BY <1>8, <1>9, <1>10

-----------------------------------------------------------------------------
\* With it comes what the activity needs: while a session starts, nothing was
\* looked up yet.
ChannelInv == ActivityInv /\ Holds /\ EveryLookupIsAnswered

\* Every step keeps all of it.
LEMMA StepAnswers ==
    ASSUME ChannelInv, [Next]_vars
    PROVE  ChannelInv'
<1>1. AnswerInv /\ ActivityInv
  BY DEF ChannelInv, AnswerInv, ActivityInv
<1>2. ActivityInv'
  BY <1>1, StepFollows
<1>3. CASE Start
  BY <1>1, <1>2, <1>3, StartAnswers DEF ChannelInv
<1>4. CASE ServeInit
  BY <1>1, <1>2, <1>4, ServeInitAnswers DEF ChannelInv
<1>5. CASE RecvInitAck
  <2>1. lookup.kind = "none"
    BY <1>1, <1>5 DEF ActivityInv, RecvInitAck, NothingLookedUp, NoLookup, Lookup
  <2> QED BY <1>1, <1>2, <1>5, <2>1, RecvInitAckAnswers DEF ChannelInv
<1>6. CASE Destroy
  BY <1>1, <1>2, <1>6, DestroyAnswers DEF ChannelInv
<1>7. CASE ServeClose
  BY <1>1, <1>2, <1>7, ServeCloseAnswers DEF ChannelInv
<1>8. CASE RecvCloseAck \/ Abort
  <2>1. End /\ UNCHANGED env /\ (wire' = Nothing \/ UNCHANGED wire)
    BY <1>8 DEF RecvCloseAck, Abort
  <2> QED BY <1>1, <1>2, <2>1, EndAnswers DEF ChannelInv
<1>9. CASE Tick
  BY <1>1, <1>2, <1>9, TickAnswers DEF ChannelInv
<1>10. CASE \E n \in External : TraceSample(n)
  BY <1>1, <1>2, <1>10, TraceSampleAnswers DEF ChannelInv
<1>11. CASE \E a, b \in Nodes, kind \in {"loss", "csi"} : LookUp(a, b, kind)
  BY <1>1, <1>2, <1>11, LookUpAnswers DEF ChannelInv
<1>12. CASE ServeRequest
  BY <1>1, <1>2, <1>12, ServeRequestAnswers DEF ChannelInv
<1>13. CASE RecvResponse
  BY <1>1, <1>2, <1>13, RecvResponseAnswers DEF ChannelInv
<1>14. CASE UNCHANGED vars
  <2>1. UNCHANGED <<sim, nodes, now, place, active, cache, misses, lastActive, lookup, wire,
                    server, mode, subMode, simTime, nodeInfo>>
    BY <1>14 DEF vars, ns3, env
  <2>2. Holds'
    BY <2>1 DEF ChannelInv, Holds, ServerHolds, CacheHolds, SimulationHolds, WireTypes,
                WireHolds, NodesAreKnown, AnswerFits, NoInstant, IsNodeInfo, IsRequest
  <2>3. EveryLookupIsAnswered'
    BY <2>1 DEF ChannelInv, EveryLookupIsAnswered, Answered, Covers, NoInstant
  <2> QED BY <1>2, <2>2, <2>3 DEF ChannelInv
<1> QED
  BY <1>3, <1>4, <1>5, <1>6, <1>7, <1>8, <1>9, <1>10, <1>11, <1>12, <1>13, <1>14
  DEF Next, Serve, Receive

\* At the start nothing is known and nothing asked.
LEMMA InitAnswers ==
    ASSUME Init
    PROVE  ChannelInv
<1>1. ActivityInv
  BY DEF Init, ActivityInv, Conversation, Nothing
<1>2. SimulationHolds
  <2>1. 0 \in 0 .. EndTime /\ 0 \in 0 .. MaxMisses
    BY ChannelAssumption
  <2>2. \A n \in Nodes : <<n, 0>> \in Homes(n) /\ <<n, 0>> \in Positions
    BY Tracks
  <2>3. \E N \in SUBSET External : NoNodes \in [N -> BOOLEAN]
    <3>1. NoNodes \in [{} -> BOOLEAN]
      BY DEF NoNodes
    <3> QED BY <3>1
  <2> QED BY <2>1, <2>2, <2>3, NoLookupHolds DEF Init, SimulationHolds
<1>3. CacheHolds
  <2>1. \A l \in Links : <<>> \in Seq(LinkEntries(l))
    OBVIOUS
  <2> QED BY <2>1 DEF Init, CacheHolds, EmptyCache
<1>4. ServerHolds
  BY DEF Init, ServerHolds, IsNodeInfo, NoNodes, Modes
<1>5. WireTypes /\ WireHolds /\ NodesAreKnown /\ AnswerFits /\ EveryLookupIsAnswered
  BY DEF Init, Nothing, WireTypes, WireHolds, NodesAreKnown, AnswerFits,
         EveryLookupIsAnswered, Answered
<1> QED BY <1>1, <1>2, <1>3, <1>4, <1>5 DEF ChannelInv, Holds

\* It holds in every reachable state.
LEMMA ChannelAlways == Spec => []ChannelInv
<1>1. Init => ChannelInv
  BY InitAnswers
<1>2. ChannelInv /\ [Next]_vars => ChannelInv'
  BY StepAnswers
<1> QED BY <1>1, <1>2, PTL DEF Spec

(***************************************************************************)
(* A lookup returns an entry of its link that covers the present, for any  *)
(* nodes, coherence times and sub_mode, in every mode, whichever node      *)
(* transmits.  It returns "cannot be reached" only with look-ahead, for a  *)
(* transmitter that does not walk and has more links than sub_mode.        *)
(***************************************************************************)
THEOREM LookupsAreAnswered == Spec => []EveryLookupIsAnswered
<1>1. ChannelInv => EveryLookupIsAnswered
  BY DEF ChannelInv
<1> QED BY <1>1, ChannelAlways, PTL

(***************************************************************************)
(* No position leaves the track of its node on its way through the trace,  *)
(* the server, the answers and the cache.  Only a lookup that look-ahead   *)
(* has no instant for moves nodes to the origin.                           *)
(***************************************************************************)
THEOREM TracksAreKept == Spec => []NodesKeepToTheirTracks
<1>1. ChannelInv => NodesKeepToTheirTracks
  BY DEF ChannelInv, Holds, SimulationHolds, ServerHolds, IsNodeInfo, NodeInfo, Seats,
         NodesKeepToTheirTracks
<1> QED BY <1>1, ChannelAlways, PTL

(***************************************************************************)
(* Every variable of ns-3 and of the server, and the message under way,    *)
(* keeps its type.                                                         *)
(***************************************************************************)
THEOREM TypesAreKept == Spec => []TypeOK
<1>1. ChannelInv => TypeOK
  <2> SUFFICES ASSUME ChannelInv PROVE TypeOK
    OBVIOUS
  <2>1. \E N \in SUBSET Nodes : nodeInfo \in [N -> NodeType]
    <3>1. DOMAIN nodeInfo \in SUBSET Nodes
      BY DEF ChannelInv, Holds, ServerHolds, IsNodeInfo
    <3>2. nodeInfo \in [DOMAIN nodeInfo -> NodeType]
      BY DEF ChannelInv, Holds, ServerHolds, IsNodeInfo, NodeInfo
    <3> QED BY <3>1, <3>2
  <2>2. DOMAIN cache = Links
    BY DEF ChannelInv, Holds, CacheHolds
  <2>3. \A l \in Links : \A i \in 1 .. Len(cache[l]) : cache[l][i] \in EntryType
    <3> TAKE l \in Links
    <3>1. PICK entries : entries = cache[l]
      OBVIOUS
    <3>2. entries \in Seq(LinkEntries(l))
      BY <3>1 DEF ChannelInv, Holds, CacheHolds
    <3>3. \A i \in 1 .. Len(entries) : entries[i] \in LinkEntries(l)
      BY <3>2
    <3> QED BY <3>1, <3>3 DEF LinkEntries
  <2>4. sim \in {"off", "starting", "running", "waiting", "closing"}
    BY DEF ChannelInv, ActivityInv, Conversation
  <2> QED BY <2>1, <2>2, <2>3, <2>4
          DEF ChannelInv, Holds, SimulationHolds, ServerHolds, WireTypes, TypeOK
<1> QED BY <1>1, ChannelAlways, PTL
-----------------------------------------------------------------------------
(***************************************************************************)
(* When every computation moves all the nodes, they keep pace.             *)
(***************************************************************************)
InPace(time) ==
    /\ simTime \in Nat /\ simTime <= time
    /\ \A n \in DOMAIN nodeInfo \cap Walking : nodeInfo[n].updated = simTime

PaceInv ==
    mode = "P2MP" =>
        /\ sim \in {"running", "waiting"} => InPace(now)
        /\ sim = "starting" /\ wire.type = "ack" /\ wire.ok => InPace(0)

\* A computation that moves all the nodes brings the walkers to its time.
LEMMA ClassicPaces ==
    ASSUME NEW tx, NEW rx, ComputeClassic(tx, rx, "P2MP")
    PROVE  /\ simTime' = wire.time /\ DOMAIN nodeInfo' = DOMAIN nodeInfo
           /\ \A n \in DOMAIN nodeInfo \cap Walking : nodeInfo'[n].updated = wire.time
<1>1. PICK c \in [External -> Coherences], leg \in [Walking -> Legs] :
        /\ nodeInfo' = [n \in DOMAIN nodeInfo |->
            IF n \in Walking \cap NodesToUpdate(tx, rx, "P2MP")
            THEN Walk(ApplyExternal(c)[n], leg[n], wire.time # simTime, wire.time)
            ELSE ApplyExternal(c)[n]]
        /\ simTime' = wire.time
  BY ZenonT(30) DEF ComputeClassic
<1>2. NodesToUpdate(tx, rx, "P2MP") = DOMAIN nodeInfo
  BY DEF NodesToUpdate
<1>3. ASSUME NEW n \in DOMAIN nodeInfo, NEW info
      PROVE  Walk(info, leg[n], wire.time # simTime, wire.time).updated = wire.time
  BY DEF Walk
<1> QED BY <1>1, <1>2, <1>3

\* The steps of ns-3.
LEMMA SimulationKeepsPace ==
    ASSUME KeepsTimeInv, PaceInv, UNCHANGED env,
           \/ Start \/ Destroy \/ Abort \/ RecvInitAck \/ RecvCloseAck \/ RecvResponse \/ Tick
           \/ \E n \in External : TraceSample(n)
           \/ \E a, b \in Nodes, kind \in {"loss", "csi"} : LookUp(a, b, kind)
    PROVE  PaceInv'
<1>1. UNCHANGED <<mode, simTime, nodeInfo>> /\ now \in Nat
  BY DEF env, KeepsTimeInv, Conversation
<1>2. CASE Start
  BY <1>2 DEF PaceInv, Start
<1>3. CASE Destroy \/ Abort \/ RecvCloseAck
  BY <1>3 DEF PaceInv, Destroy, Abort, RecvCloseAck, End
<1>4. CASE RecvInitAck
  <2>1. CASE wire.ok
    <3>1. /\ sim = "starting" /\ wire.type = "ack" /\ sim' = "running" /\ now' = now
      BY <1>4, <2>1 DEF RecvInitAck
    <3>2. now = 0
      BY <3>1 DEF KeepsTimeInv, Conversation
    <3> QED BY <1>1, <2>1, <3>1, <3>2 DEF PaceInv, InPace
  <2>2. CASE ~wire.ok
    BY <1>4, <2>2 DEF PaceInv, RecvInitAck, End
  <2> QED BY <2>1, <2>2
<1>5. CASE RecvResponse
  BY <1>1, <1>5 DEF PaceInv, InPace, RecvResponse
<1>6. CASE Tick
  BY <1>1, <1>6 DEF PaceInv, InPace, Tick
<1>7. CASE \E n \in External : TraceSample(n)
  BY <1>1, <1>7 DEF PaceInv, InPace, TraceSample
<1>8. CASE \E a, b \in Nodes, kind \in {"loss", "csi"} : LookUp(a, b, kind)
  <2>1. sim = "running" /\ now' = now /\ sim' \in {"running", "waiting"}
    BY <1>8 DEF LookUp
  <2> QED BY <1>1, <2>1 DEF PaceInv, InPace
<1> QED BY <1>2, <1>3, <1>4, <1>5, <1>6, <1>7, <1>8

\* The steps of the server.
LEMMA ServerKeepsPace ==
    ASSUME KeepsTimeInv, PaceInv, Serve, \A s, t \in Simulations : s = t
    PROVE  PaceInv'
<1>1. UNCHANGED <<sim, now>> /\ now \in Nat
  BY DEF Serve, ServeInit, ServeClose, ServeRequest, ns3, KeepsTimeInv, Conversation
<1>2. CASE ServeInit
  <2>1. sim \in {"off", "starting"}
    BY <1>2 DEF ServeInit, KeepsTimeInv, Conversation
  <2>2. CASE InitEnv(wire.setting)
    <3>1. /\ simTime' = 0
          /\ \A n \in DOMAIN nodeInfo' : nodeInfo'[n].updated = 0
      BY <1>2, <2>2, InitMobilityStartsAtZero
      DEF ServeInit, KeepsTimeInv, Conversation, InitEnv
    <3> QED BY <1>1, <2>1, <3>1 DEF PaceInv, InPace
  <2>3. CASE NewEnv
    BY <1>1, <2>1, <2>3 DEF PaceInv, InPace, NewEnv, NoNodes
  <2> QED BY <1>2, <2>2, <2>3 DEF ServeInit
<1>3. CASE ServeClose
  <2>1. sim \in {"off", "closing"}
    BY <1>3 DEF ServeClose, KeepsTimeInv, Conversation
  <2> QED BY <1>1, <2>1 DEF PaceInv
<1>4. CASE ServeRequest
  <2>1. /\ wire.type = "request" /\ mode' = mode
        /\ sim \in {"off", "waiting"} /\ (sim = "waiting" => wire.time = now)
    BY <1>4 DEF ServeRequest, KeepsTimeInv, Conversation
  <2>2. ASSUME mode = "P2MP"
        PROVE  \/ ComputeClassic(wire.tx, wire.rx, "P2MP")
               \/ UNCHANGED <<simTime, nodeInfo>>
    BY <1>4, <2>2 DEF ServeRequest
  <2>3. CASE mode = "P2MP" /\ sim = "waiting"
    <3>1. CASE ComputeClassic(wire.tx, wire.rx, "P2MP")
      <4>1. /\ simTime' = wire.time
            /\ \A n \in DOMAIN nodeInfo' \cap Walking : nodeInfo'[n].updated = wire.time
        BY <3>1, ClassicPaces
      <4> QED BY <1>1, <2>1, <2>3, <4>1 DEF PaceInv, InPace
    <3>2. CASE UNCHANGED <<simTime, nodeInfo>>
      BY <1>1, <2>1, <2>3, <3>2 DEF PaceInv, InPace
    <3> QED BY <2>2, <2>3, <3>1, <3>2
  <2>4. CASE ~(mode = "P2MP" /\ sim = "waiting")
    BY <1>1, <2>1, <2>4 DEF PaceInv
  <2> QED BY <2>3, <2>4
<1> QED BY <1>2, <1>3, <1>4 DEF Serve

(***************************************************************************)
(* When every computation moves all the nodes, those that walk are at the  *)
(* time of the server, which is not ahead of ns-3, if all simulations have *)
(* the same nodes.                                                         *)
(***************************************************************************)
THEOREM WalkersKeepTheirPace ==
    ASSUME \A s, t \in Simulations : s = t
    PROVE  Spec => []WalkersKeepPace
<1>1. Init => KeepsTimeInv /\ PaceInv
  BY DEF Init, KeepsTimeInv, Conversation, SameNodes, NoneAhead, InTime, NoNodes, Nothing,
         PaceInv
<1>2. KeepsTimeInv /\ PaceInv /\ [Next]_vars => (KeepsTimeInv /\ PaceInv)'
  <2> SUFFICES ASSUME KeepsTimeInv, PaceInv, [Next]_vars PROVE PaceInv'
    BY StepKeepsTime
  <2>1. CASE Serve
    BY <2>1, ServerKeepsPace
  <2>2. CASE UNCHANGED vars
    BY <2>2 DEF PaceInv, InPace, vars, ns3, env
  <2>3. CASE \/ Start \/ Destroy \/ Abort \/ Receive \/ Tick
             \/ \E n \in External : TraceSample(n)
             \/ \E a, b \in Nodes, kind \in {"loss", "csi"} : LookUp(a, b, kind)
    <3>1. UNCHANGED env
      BY <2>3 DEF Start, Destroy, Abort, Receive, RecvInitAck, RecvCloseAck, RecvResponse,
                  Tick, TraceSample, LookUp
    <3> QED BY <2>3, <3>1, SimulationKeepsPace DEF Receive
  <2> QED BY <2>1, <2>2, <2>3 DEF Next
<1>3. KeepsTimeInv /\ PaceInv => WalkersKeepPace
  BY DEF PaceInv, InPace, WalkersKeepPace
<1> QED BY <1>1, <1>2, <1>3, PTL DEF Spec
=============================================================================
