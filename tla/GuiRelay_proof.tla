--------------------------- MODULE GuiRelay_proof ---------------------------
(***************************************************************************)
(* What the relay promises for any nodes and any number of responses,      *)
(* failures and restarts of the GUI.  An OK is the answer to the call      *)
(* under way: of the sockets in use nothing but the message of that call   *)
(* is on its way (OkInv).  No more sockets are thrown away than positions  *)
(* are sent (TypeInv).  What the GUI shows goes back after a failure only: *)
(* what waits in its queue comes in order, but for the calls that failed   *)
(* (BackInv).                                                              *)
(***************************************************************************)
EXTENDS GuiRelay, FiniteSetTheorems, WellFoundedInduction, TLAPS

InCall == relay \in {"calling", "closing"}

OkInv ==
    /\ connection \in Nat
    /\ OkAnswersTheCall
    /\ \A m \in Requests :
        \/ m.connection \in Nat /\ m.connection < connection
        \/ m = current /\ m.connection = connection /\ InCall

\* A new response and the end of a call send nothing.
LEMMA ServerKeepsOk ==
    ASSUME OkInv, Respond \/ RecvOk \/ GiveUp
    PROVE  OkInv'
BY DEF OkInv, OkAnswersTheCall, Requests, InCall, Respond, RecvOk, GiveUp, window

\* The message of the new call is the only one of its sockets.
LEMMA SendKeepsOk ==
    ASSUME OkInv, NEW n \in Names, SendPosition(n)
    PROVE  OkInv'
<1>1. replies = {} /\ \A m \in Requests : m.connection \in Nat /\ m.connection < connection
  BY DEF OkInv, OkAnswersTheCall, InCall, SendPosition
<1>2. /\ current'.connection = connection /\ relay' = "calling"
      /\ wire' = wire \cup {current'} /\ UNCHANGED <<connection, replies>>
  BY DEF SendPosition, Message
<1> QED BY <1>1, <1>2 DEF OkInv, OkAnswersTheCall, Requests, InCall

\* New sockets have nothing on its way.
LEMMA ReconnectKeepsOk ==
    ASSUME OkInv, Reconnect
    PROVE  OkInv'
<1>1. connection' = connection + 1 /\ replies' = {} /\ wire' \subseteq wire
  BY DEF Reconnect, NewSockets
<1> QED BY <1>1 DEF OkInv, OkAnswersTheCall, Requests

\* A report is not answered.
LEMMA PublishKeepsOk ==
    ASSUME OkInv, Publish
    PROVE  OkInv'
<1>1. /\ wire' \subseteq wire \cup {Message(connection, "kpi", response)}
      /\ UNCHANGED <<connection, replies, current>> /\ relay = "relaying"
  BY DEF Publish
<1>2. Requests' \subseteq Requests
  BY <1>1, RelayAssumption DEF Requests, Message
<1> QED BY <1>1, <1>2 DEF OkInv, OkAnswersTheCall, InCall

\* The OK is for the call under way, or for sockets that are gone.
LEMMA RecvPositionKeepsOk ==
    ASSUME OkInv, NEW m \in wire, RecvPosition(m)
    PROVE  OkInv'
<1>1. /\ m \in Requests /\ wire' = wire \ {m} /\ UNCHANGED server
      /\ replies' = IF m.connection = connection THEN replies \cup {connection} ELSE replies
  BY DEF RecvPosition
<1>2. CASE m.connection = connection
  <2>1. m = current /\ InCall
    BY <1>1, <1>2 DEF OkInv
  <2> QED BY <1>1, <1>2, <2>1 DEF OkInv, OkAnswersTheCall, Requests, InCall, server
<1>3. CASE m.connection # connection
  BY <1>1, <1>3 DEF OkInv, OkAnswersTheCall, Requests, InCall, server
<1> QED BY <1>2, <1>3

\* What else the GUI does answers nothing.
LEMMA GuiKeepsOk ==
    ASSUME OkInv, \/ \E m \in wire : RecvKpi(m)
                  \/ Poll \/ CloseGui \/ OpenGui
                  \/ UNCHANGED vars
    PROVE  OkInv'
<1>1. wire' \subseteq wire /\ UNCHANGED server /\ (replies' = {} \/ replies' = replies)
  BY DEF RecvKpi, Poll, CloseGui, OpenGui, vars
<1> QED BY <1>1 DEF OkInv, OkAnswersTheCall, Requests, InCall, server

(***************************************************************************)
(* An OK never is the late answer to an earlier call.                      *)
(***************************************************************************)
THEOREM OkAlwaysAnswersTheCall == Spec => []OkAnswersTheCall
<1>1. Init => OkInv
  BY DEF Init, OkInv, OkAnswersTheCall, Requests
<1>2. OkInv /\ [Next]_vars => OkInv'
  BY ServerKeepsOk, SendKeepsOk, ReconnectKeepsOk, PublishKeepsOk, RecvPositionKeepsOk,
     GuiKeepsOk DEF Next, Call, Receive
<1>3. OkInv => OkAnswersTheCall
  BY DEF OkInv
<1> QED BY <1>1, <1>2, <1>3, PTL DEF Spec
-----------------------------------------------------------------------------
(***************************************************************************)
(* Types.  The sockets are counted: every call has at most one failure,    *)
(* and a response has a call for each node.                                *)
(***************************************************************************)

\* A set of numbers that has a bound has a greatest element, and it is Max.
LEMMA MaxIsGreatest ==
    ASSUME NEW S \in SUBSET Nat, S # {}, NEW b \in Nat, \A s \in S : s <= b
    PROVE  Max(S) \in S /\ \A s \in S : s <= Max(S)
<1> DEFINE Below == {p \in Nat \X Nat : p[1] < p[2]}
           Gaps == {b - s : s \in S}
<1>1. IsWellFoundedOn(Below, Nat)
  BY NatLessThanWellFounded DEF OpToRel
<1>2. Gaps \subseteq Nat /\ Gaps # {}
  <2>1. \A s \in S : b - s \in Nat
    OBVIOUS
  <2>2. PICK s : s \in S
    OBVIOUS
  <2>3. b - s \in Gaps
    BY <2>2
  <2> QED BY <2>1, <2>3
<1> HIDE DEF Below
<1>3. PICK g \in Gaps : \A h \in Gaps : ~(<<h, g>> \in Below)
  <2> HIDE DEF Gaps
  <2> QED BY <1>1, <1>2, WFMin
<1>4. \A h \in Gaps : ~(h < g)
  BY <1>2, <1>3 DEF Below
<1>5. PICK m \in S : g = b - m
  OBVIOUS
<1>6. \A s \in S : m >= s
  <2> TAKE s \in S
  <2>1. ~(b - s < b - m)
    BY <1>4, <1>5
  <2> QED BY <2>1
<1>7. Max(S) \in S /\ \A s \in S : Max(S) >= s
  BY <1>6 DEF Max
<1> QED BY <1>7

\* The sockets that were thrown away, and one more for a call under way, fit
\* the positions that were sent.
SocketsCounted ==
    /\ connection + Cardinality(todo) + (IF InCall THEN 1 ELSE 0)
          <= 1 + response * Cardinality(Names)
    /\ relay = "idle" => todo = {}

\* A call is about a node.
CallIsOfNode == InCall => current.name \in Names

TypeInv == TypeOK /\ SocketsCounted /\ CallIsOfNode

\* The numbers of nodes.
LEMMA NodesAreFinite ==
    ASSUME TypeOK
    PROVE  /\ Cardinality(Names) \in Nat /\ Cardinality(todo) \in Nat
           /\ Cardinality({}) = 0 /\ MaxResponses \in Nat /\ response \in Nat
           /\ \A n \in todo : Cardinality(todo \ {n}) = Cardinality(todo) - 1
           /\ response * Cardinality(Names) <= MaxResponses * Cardinality(Names)
           /\ response * Cardinality(Names) \in Nat
           /\ (response + 1) * Cardinality(Names)
                = response * Cardinality(Names) + Cardinality(Names)
<1>1. IsFiniteSet(todo) /\ Cardinality(Names) \in Nat /\ Cardinality({}) = 0
  BY RelayAssumption, FS_Subset, FS_CardinalityType, FS_EmptySet DEF TypeOK
<1>2. Cardinality(todo) \in Nat /\ \A n \in todo : Cardinality(todo \ {n}) = Cardinality(todo) - 1
  BY <1>1, FS_CardinalityType, FS_RemoveElement
<1>3. response \in Nat /\ MaxResponses \in Nat /\ response <= MaxResponses
  BY RelayAssumption DEF TypeOK, Responses
<1>4. ASSUME NEW a \in Nat, NEW b \in Nat, NEW k \in Nat, a <= b
      PROVE  a * k <= b * k /\ a * k \in Nat /\ (a + 1) * k = a * k + k
  <2>1. PICK d \in Nat : b = a + d
    <3>1. b - a \in Nat /\ b = a + (b - a)
      BY <1>4
    <3> QED BY <3>1
  <2>2. b * k = a * k + d * k /\ a * k \in Nat /\ d * k \in Nat /\ (a + 1) * k = a * k + k
    BY <2>1
  <2> QED BY <2>2
<1> QED BY <1>1, <1>2, <1>3, <1>4

\* The number of the sockets in use is one of the Connections.
LEMMA SocketIsNumbered ==
    ASSUME TypeInv
    PROVE  /\ connection \in Nat
           /\ InCall => connection + 1 \in Connections
<1>1. connection \in Nat
  BY DEF TypeInv, TypeOK, Connections
<1>2. InCall => connection + 1 <= 1 + MaxResponses * Cardinality(Names)
  BY <1>1, NodesAreFinite DEF TypeInv, SocketsCounted
<1> QED BY <1>1, <1>2, NodesAreFinite DEF Connections, TypeInv

\* The parts of a message.
LEMMA MessageType ==
    ASSUME NEW c \in Connections, NEW n \in Names \cup {"kpi"}, NEW r \in Responses
    PROVE  Message(c, n, r) \in [connection : Connections, name : Names \cup {"kpi"},
                                 response : Responses]
BY DEF Message

\* The relay keeps the types of all that is the server's.
LEMMA ServerKeepsType ==
    ASSUME TypeInv, Respond \/ RecvOk \/ GiveUp \/ Publish
    PROVE  TypeInv'
<1>1. CASE Respond
  <2>1. response + 1 \in Responses
    BY <1>1, RelayAssumption DEF Respond, Responses, TypeInv, TypeOK
  <2>2. TypeOK'
    BY <1>1, <2>1 DEF Respond, TypeInv, TypeOK, window
  <2>3. SocketsCounted'
    <3>1. connection + 0 + 0 <= 1 + response * Cardinality(Names)
      BY <1>1, NodesAreFinite DEF Respond, InCall, TypeInv, SocketsCounted
    <3>2. /\ connection' = connection /\ todo' = Names /\ response' = response + 1
          /\ relay' = "relaying"
      BY <1>1 DEF Respond
    <3>3. (response + 1) * Cardinality(Names)
             = response * Cardinality(Names) + Cardinality(Names)
      BY NodesAreFinite DEF TypeInv
    <3>4. connection \in Nat /\ response * Cardinality(Names) \in Nat /\ Cardinality(Names) \in Nat
      BY NodesAreFinite, SocketIsNumbered DEF TypeInv
    <3> QED BY <3>1, <3>2, <3>3, <3>4 DEF SocketsCounted, InCall
  <2>4. CallIsOfNode'
    BY <1>1 DEF Respond, CallIsOfNode, InCall
  <2> QED BY <2>2, <2>3, <2>4 DEF TypeInv
<1>2. CASE RecvOk
  <2>1. TypeOK'
    BY <1>2 DEF RecvOk, TypeInv, TypeOK, window
  <2>2. SocketsCounted'
    BY <1>2, NodesAreFinite, SocketIsNumbered DEF RecvOk, TypeInv, SocketsCounted, InCall
  <2>3. CallIsOfNode'
    BY <1>2 DEF RecvOk, CallIsOfNode, InCall
  <2> QED BY <2>1, <2>2, <2>3 DEF TypeInv
<1>3. CASE GiveUp
  <2>1. Position(current) \in Positions
    <3>1. current.name \in Names
      BY <1>3 DEF GiveUp, TypeInv, CallIsOfNode, InCall
    <3> QED BY <3>1 DEF Position, Positions, TypeInv, TypeOK
  <2>2. TypeOK'
    BY <1>3, <2>1 DEF GiveUp, TypeInv, TypeOK, window
  <2>3. SocketsCounted'
    BY <1>3 DEF GiveUp, TypeInv, SocketsCounted, InCall
  <2>4. CallIsOfNode'
    BY <1>3 DEF GiveUp, TypeInv, CallIsOfNode, InCall
  <2> QED BY <2>2, <2>3, <2>4 DEF TypeInv
<1>4. CASE Publish
  <2>1. Message(connection, "kpi", response)
            \in [connection : Connections, name : Names \cup {"kpi"}, response : Responses]
    BY MessageType DEF TypeInv, TypeOK
  <2>2. TypeOK'
    BY <1>4, <2>1 DEF Publish, TypeInv, TypeOK, window
  <2>3. SocketsCounted'
    BY <1>4, NodesAreFinite, SocketIsNumbered DEF Publish, TypeInv, SocketsCounted, InCall
  <2>4. CallIsOfNode'
    BY <1>4 DEF Publish, CallIsOfNode, InCall
  <2> QED BY <2>2, <2>3, <2>4 DEF TypeInv
<1> QED BY <1>1, <1>2, <1>3, <1>4

\* A position that is sent is counted as a call.
LEMMA SendKeepsType ==
    ASSUME TypeInv, NEW n \in Names, SendPosition(n)
    PROVE  TypeInv'
<1>1. /\ relay = "relaying" /\ n \in todo /\ relay' = "calling" /\ todo' = todo \ {n}
      /\ current' = Message(connection, n, response) /\ wire' = wire \cup {current'}
      /\ UNCHANGED <<response, connection, linger, givenUp, replies, window>>
  BY DEF SendPosition
<1>2. current' \in [connection : Connections, name : Names \cup {"kpi"}, response : Responses]
  BY <1>1, MessageType DEF TypeInv, TypeOK
<1>3. TypeOK'
  BY <1>1, <1>2 DEF TypeInv, TypeOK, window
<1>4. SocketsCounted'
  <2>1. Cardinality(todo') = Cardinality(todo) - 1 /\ Cardinality(todo) \in Nat
    BY <1>1, NodesAreFinite DEF TypeInv
  <2> QED BY <1>1, <2>1, SocketIsNumbered DEF TypeInv, SocketsCounted, InCall
<1>5. CallIsOfNode'
  BY <1>1 DEF CallIsOfNode, Message
<1> QED BY <1>3, <1>4, <1>5 DEF TypeInv

\* New sockets have the next number, which the failed call paid for.
LEMMA ReconnectKeepsType ==
    ASSUME TypeInv, Reconnect
    PROVE  TypeInv'
<1>1. /\ relay = "closing" /\ relay' = "relaying" /\ connection' = connection + 1
      /\ linger' = 0 /\ replies' = {} /\ wire' \subseteq wire
      /\ UNCHANGED <<response, todo, current, givenUp, window>>
  BY DEF Reconnect, NewSockets
<1>2. connection' \in Connections
  BY <1>1, SocketIsNumbered DEF InCall
<1>3. TypeOK'
  BY <1>1, <1>2 DEF TypeInv, TypeOK, window
<1>4. SocketsCounted'
  BY <1>1, NodesAreFinite, SocketIsNumbered DEF TypeInv, SocketsCounted, InCall
<1>5. CallIsOfNode'
  BY <1>1 DEF CallIsOfNode, InCall
<1> QED BY <1>3, <1>4, <1>5 DEF TypeInv

\* What the GUI reads has the types of what was sent.
LEMMA ReceiveKeepsType ==
    ASSUME TypeInv, NEW m \in wire, RecvPosition(m) \/ RecvKpi(m)
    PROVE  TypeInv'
<1>1. UNCHANGED server
  BY DEF RecvPosition, RecvKpi
<1>2. SocketsCounted' /\ CallIsOfNode'
  BY <1>1 DEF TypeInv, SocketsCounted, CallIsOfNode, InCall, server
<1>3. CASE RecvPosition(m)
  <2>1. Position(m) \in Positions
    <3>1. m.name \in Names
      BY <1>3 DEF RecvPosition, Requests
    <3> QED BY <3>1 DEF TypeInv, TypeOK, Position, Positions
  <2>2. Append(queue, Position(m)) \in Seq(Positions)
    BY <2>1 DEF TypeInv, TypeOK
  <2>3. replies' \subseteq Connections
    BY <1>3 DEF RecvPosition, TypeInv, TypeOK
  <2> QED BY <1>1, <1>2, <1>3, <2>2, <2>3 DEF RecvPosition, TypeInv, TypeOK, server
<1>4. CASE RecvKpi(m)
  BY <1>1, <1>2, <1>4 DEF RecvKpi, TypeInv, TypeOK, server
<1> QED BY <1>3, <1>4

\* What a frame shows of a node is its last command, if it has one.
LEMMA LastMove ==
    ASSUME TypeOK, NEW n \in Names, Moves(queue, n) # {}
    PROVE  \E i \in DOMAIN queue :
              /\ queue[i].name = n /\ queue[i] \in Positions
              /\ Applied(queue)[n] = queue[i].response
              /\ \A j \in DOMAIN queue : queue[j].name = n => j <= i
<1>1. Len(queue) \in Nat /\ DOMAIN queue = 1 .. Len(queue)
  BY DEF TypeOK
<1>2. Moves(queue, n) \subseteq Nat /\ \A i \in Moves(queue, n) : i <= Len(queue)
  BY <1>1 DEF Moves
<1>3. PICK i : i = Max(Moves(queue, n))
  OBVIOUS
<1>4. i \in Moves(queue, n) /\ \A j \in Moves(queue, n) : j <= i
  BY <1>1, <1>2, <1>3, MaxIsGreatest
<1>5. i \in DOMAIN queue /\ queue[i].name = n /\ queue[i] \in Positions
  BY <1>4 DEF Moves, TypeOK
<1>6. Applied(queue)[n] = queue[i].response
  BY <1>3 DEF Applied
<1>7. \A j \in DOMAIN queue : queue[j].name = n => j <= i
  BY <1>4 DEF Moves
<1> QED BY <1>5, <1>6, <1>7

\* A frame, the window of the GUI, and nothing at all.
LEMMA GuiKeepsType ==
    ASSUME TypeInv, Poll \/ CloseGui \/ OpenGui \/ UNCHANGED vars
    PROVE  TypeInv'
<1>1. UNCHANGED server
  BY DEF Poll, CloseGui, OpenGui, vars
<1>2. SocketsCounted' /\ CallIsOfNode'
  BY <1>1 DEF TypeInv, SocketsCounted, CallIsOfNode, InCall, server
<1>3. CASE Poll
  <2>1. \A n \in Names : Applied(queue)[n] \in Responses
    <3> TAKE n \in Names
    <3>1. CASE Moves(queue, n) = {}
      BY <3>1 DEF Applied, TypeInv, TypeOK
    <3>2. CASE Moves(queue, n) # {}
      BY <3>2, LastMove DEF TypeInv, Positions
    <3> QED BY <3>1, <3>2
  <2>2. scene' \in [Names -> Responses]
    <3>1. scene' = Applied(queue)
      BY <1>3 DEF Poll, InTurn
    <3>2. scene' = [n \in Names |-> scene'[n]]
      BY <3>1 DEF Applied
    <3> QED BY <2>1, <3>1, <3>2
  <2>3. <<>> \in Seq(Positions)
    OBVIOUS
  <2> QED BY <1>1, <1>2, <1>3, <2>2, <2>3 DEF Poll, TypeInv, TypeOK, server
<1>4. CASE CloseGui
  <2>1. 0 \in Responses /\ NothingShown \in [Names -> Responses]
    BY RelayAssumption DEF Responses, NothingShown
  <2>2. crashes' \in 0 .. MaxCrashes
    BY <1>4, RelayAssumption DEF CloseGui, TypeInv, TypeOK
  <2> QED BY <1>1, <1>2, <1>4, <2>1, <2>2 DEF CloseGui, TypeInv, TypeOK, server
<1>5. CASE OpenGui
  BY <1>1, <1>2, <1>5 DEF OpenGui, TypeInv, TypeOK, server
<1>6. CASE UNCHANGED vars
  BY <1>1, <1>2, <1>6 DEF vars, window, TypeInv, TypeOK, server
<1> QED BY <1>3, <1>4, <1>5, <1>6

\* What is there at the start has its types.
LEMMA InitType ==
    ASSUME Init
    PROVE  TypeInv
<1>1. /\ 0 \in Responses /\ NothingShown \in [Names -> Responses] /\ <<>> \in Seq(Positions)
      /\ 0 \in 0 .. MaxCrashes
  BY RelayAssumption DEF Responses, NothingShown
<1>2. 1 \in Connections
  <2>1. Cardinality(Names) \in Nat /\ MaxResponses * Cardinality(Names) \in Nat
    BY RelayAssumption, FS_CardinalityType
  <2> QED BY <2>1 DEF Connections
<1>3. Message(1, "kpi", 0) \in [connection : Connections, name : Names \cup {"kpi"},
                                response : Responses]
  BY <1>1, <1>2, MessageType
<1>4. TypeOK
  BY <1>1, <1>2, <1>3 DEF Init, TypeOK
<1>5. SocketsCounted /\ CallIsOfNode
  <2>1. 0 * Cardinality(Names) = 0 /\ Cardinality({}) = 0
    BY RelayAssumption, FS_CardinalityType, FS_EmptySet
  <2> QED BY <2>1 DEF Init, SocketsCounted, CallIsOfNode, InCall
<1> QED BY <1>4, <1>5 DEF TypeInv

\* Every step keeps the types.
LEMMA NextKeepsType ==
    ASSUME TypeInv, [Next]_vars
    PROVE  TypeInv'
BY ServerKeepsType, SendKeepsType, ReconnectKeepsType, ReceiveKeepsType, GuiKeepsType
   DEF Next, Call, Receive

(***************************************************************************)
(* The server never throws away more sockets than it has sent positions,   *)
(* and the GUI shows positions that were sent.                             *)
(***************************************************************************)
THEOREM TypesAreKept == Spec => []TypeOK
<1>1. TypeInv => TypeOK
  BY DEF TypeInv
<1> QED BY <1>1, InitType, NextKeepsType, PTL DEF Spec
-----------------------------------------------------------------------------
(***************************************************************************)
(* What the GUI shows goes back after a failure only.                      *)
(***************************************************************************)

\* Whether the GUI may come to an older position by p.
MayGoBack(p) == p \in givenUp

\* Nothing is newer than the response the relay is at.
NothingIsNewer ==
    /\ \A m \in wire : m.response <= response
    /\ \A i \in DOMAIN queue : queue[i].response <= response
    /\ \A n \in Names : scene[n] <= response
    /\ kpi <= response
    /\ InCall => current.response = response

\* A position on its way is that of the call, or its call has failed.
WireInv ==
    /\ \A m \in Requests : (m = current /\ InCall) \/ MayGoBack(Position(m))
    /\ relay = "closing" => MayGoBack(Position(current))

\* What waits in the queue is no older than what was queued before it, and
\* than what is shown.
QueueInv ==
    \A i \in DOMAIN queue :
        \/ MayGoBack(queue[i])
        \/ /\ scene[queue[i].name] <= queue[i].response
           /\ \A j \in 1 .. i : queue[j].name = queue[i].name
                                   => queue[j].response <= queue[i].response

\* With one connection reports come in their order.
ReportInv ==
    givenUp = {} =>
        /\ connection = 1 /\ relay # "closing"
        /\ \A m \in wire \ Requests : m.connection = 1 /\ m.response >= kpi

BackInv == TypeInv /\ OkInv /\ NothingIsNewer /\ WireInv /\ QueueInv /\ ReportInv

\* The next response is newer than all; a call that ends leaves what is on
\* its way to those that failed, or was answered.
LEMMA ServerKeepsBack ==
    ASSUME BackInv, Respond \/ RecvOk \/ GiveUp \/ Publish
    PROVE  (NothingIsNewer /\ WireInv /\ QueueInv /\ ReportInv)'
<1>1. response \in Nat /\ connection \in Nat /\ kpi \in Nat
  BY RelayAssumption DEF BackInv, TypeInv, TypeOK, Responses, Connections
<1>2. CASE Respond
  <2>1. /\ relay = "idle" /\ relay' = "relaying" /\ response' = response + 1
        /\ UNCHANGED <<connection, givenUp, wire, queue, scene, kpi>>
    BY <1>2 DEF Respond, window
  <2>2. NothingIsNewer'
    <3>1. \A m \in wire : m.response <= response + 1
      BY <1>1 DEF BackInv, NothingIsNewer, TypeInv, TypeOK, Responses
    <3>2. \A i \in DOMAIN queue : queue[i].response <= response + 1
      <4>1. \A i \in DOMAIN queue : queue[i] \in Positions
        BY DEF BackInv, TypeInv, TypeOK
      <4> QED BY <1>1, <4>1 DEF BackInv, NothingIsNewer, Positions, Responses
    <3>3. \A n \in Names : scene[n] <= response + 1
      BY <1>1 DEF BackInv, NothingIsNewer, TypeInv, TypeOK, Responses
    <3>4. kpi <= response + 1
      BY <1>1 DEF BackInv, NothingIsNewer
    <3> QED BY <2>1, <3>1, <3>2, <3>3, <3>4 DEF NothingIsNewer, InCall
  <2>3. WireInv'
    BY <2>1 DEF BackInv, WireInv, Requests, InCall, MayGoBack
  <2>4. QueueInv' /\ ReportInv'
    BY <2>1 DEF BackInv, QueueInv, ReportInv, Requests, MayGoBack
  <2> QED BY <2>2, <2>3, <2>4
<1>3. CASE RecvOk
  <2>1. /\ relay' = "relaying" /\ current \notin wire
        /\ UNCHANGED <<response, connection, givenUp, wire, queue, scene, kpi, current>>
    BY <1>3 DEF RecvOk, window, BackInv, OkInv, OkAnswersTheCall
  <2>2. NothingIsNewer' /\ QueueInv' /\ ReportInv'
    BY <2>1 DEF BackInv, NothingIsNewer, QueueInv, ReportInv, Requests, MayGoBack, InCall
  <2>3. WireInv'
    BY <2>1 DEF BackInv, WireInv, Requests, InCall, MayGoBack
  <2> QED BY <2>2, <2>3
<1>4. CASE GiveUp
  <2>1. /\ relay = "calling" /\ relay' = "closing" /\ givenUp' = givenUp \cup {Position(current)}
        /\ UNCHANGED <<response, connection, wire, queue, scene, kpi, current>>
    BY <1>4 DEF GiveUp, window
  <2>2. NothingIsNewer'
    BY <2>1 DEF BackInv, NothingIsNewer, InCall
  <2>3. WireInv'
    BY <2>1 DEF BackInv, WireInv, Requests, InCall, MayGoBack
  <2>4. QueueInv'
    BY <2>1 DEF BackInv, QueueInv, MayGoBack
  <2>5. ReportInv'
    BY <2>1 DEF ReportInv
  <2> QED BY <2>2, <2>3, <2>4, <2>5
<1>5. CASE Publish
  <2> DEFINE k == Message(connection, "kpi", response)
  <2>1. /\ relay = "relaying" /\ relay' = "idle" /\ wire' \subseteq wire \cup {k}
        /\ UNCHANGED <<response, connection, givenUp, queue, scene, kpi, current>>
    BY <1>5 DEF Publish, window
  <2>2. k.response = response /\ k.connection = connection /\ k.name \notin Names
    BY RelayAssumption DEF Message
  <2> HIDE DEF k
  <2>3. NothingIsNewer'
    BY <1>1, <2>1, <2>2 DEF BackInv, NothingIsNewer, InCall
  <2>4. WireInv'
    BY <2>1, <2>2 DEF BackInv, WireInv, Requests, InCall, MayGoBack
  <2>5. QueueInv'
    BY <2>1 DEF BackInv, QueueInv, MayGoBack
  <2>6. ReportInv'
    <3>1. response >= kpi
      BY <1>1 DEF BackInv, NothingIsNewer
    <3> QED BY <2>1, <2>2, <3>1 DEF BackInv, ReportInv, Requests
  <2> QED BY <2>3, <2>4, <2>5, <2>6
<1> QED BY <1>2, <1>3, <1>4, <1>5

\* What is sent is of the response the relay is at; new sockets come after a
\* failure.
LEMMA CallKeepsBack ==
    ASSUME BackInv, Reconnect \/ \E n \in Names : SendPosition(n)
    PROVE  (NothingIsNewer /\ WireInv /\ QueueInv /\ ReportInv)'
<1>1. response \in Nat
  BY RelayAssumption DEF BackInv, TypeInv, TypeOK, Responses
<1>2. CASE Reconnect
  <2>1. /\ relay = "closing" /\ relay' = "relaying" /\ wire' \subseteq wire
        /\ UNCHANGED <<response, givenUp, queue, scene, kpi, current>>
    BY <1>2 DEF Reconnect, window
  <2>2. NothingIsNewer'
    BY <2>1 DEF BackInv, NothingIsNewer, InCall
  <2>3. WireInv'
    BY <2>1 DEF BackInv, WireInv, Requests, InCall, MayGoBack
  <2>4. QueueInv'
    BY <2>1 DEF BackInv, QueueInv, MayGoBack
  <2>5. ReportInv'
    BY <2>1 DEF BackInv, ReportInv
  <2> QED BY <2>2, <2>3, <2>4, <2>5
<1>3. ASSUME NEW n \in Names, SendPosition(n)
      PROVE  (NothingIsNewer /\ WireInv /\ QueueInv /\ ReportInv)'
  <2>1. /\ relay = "relaying" /\ relay' = "calling"
        /\ current' = Message(connection, n, response) /\ wire' = wire \cup {current'}
        /\ UNCHANGED <<response, connection, givenUp, queue, scene, kpi>>
    BY <1>3 DEF SendPosition, window
  <2>2. current'.response = response /\ current'.name = n
    BY <2>1 DEF Message
  <2>3. NothingIsNewer'
    BY <1>1, <2>1, <2>2 DEF BackInv, NothingIsNewer
  <2>4. WireInv'
    BY <2>1, <2>2 DEF BackInv, WireInv, Requests, InCall, MayGoBack
  <2>5. QueueInv'
    BY <2>1 DEF BackInv, QueueInv, MayGoBack
  <2>6. ReportInv'
    BY <2>1, <2>2 DEF BackInv, ReportInv, Requests
  <2> QED BY <2>3, <2>4, <2>5, <2>6
<1> QED BY <1>2, <1>3

\* What is queued comes from the call under way, and is as new as can be, or
\* its call has failed.
LEMMA ReceiveKeepsBack ==
    ASSUME BackInv, NEW m \in wire, RecvPosition(m) \/ RecvKpi(m)
    PROVE  (NothingIsNewer /\ WireInv /\ QueueInv /\ ReportInv)'
<1>1. response \in Nat /\ m.response \in Nat /\ m.response <= response
  BY RelayAssumption DEF BackInv, TypeInv, TypeOK, NothingIsNewer, Responses
<1>2. wire' = wire \ {m} /\ scene' = scene
      /\ UNCHANGED <<relay, response, current, connection, givenUp>>
  BY DEF RecvPosition, RecvKpi, server
<1>3. WireInv'
  BY <1>2 DEF BackInv, WireInv, Requests, InCall, MayGoBack
<1>4. CASE RecvPosition(m)
  <2>1. m \in Requests /\ kpi' = kpi /\ queue' = Append(queue, Position(m))
    BY <1>4 DEF RecvPosition
  <2>2. PICK p : p = Position(m)
    OBVIOUS
  <2>3. p.name = m.name /\ p.response = m.response /\ m.name \in Names
    BY <2>1, <2>2 DEF Position, Requests
  <2>4. /\ Len(queue) \in Nat /\ DOMAIN queue = 1 .. Len(queue)
        /\ DOMAIN queue' = 1 .. Len(queue) + 1 /\ queue'[Len(queue) + 1] = p
        /\ \A i \in 1 .. Len(queue) : queue'[i] = queue[i]
    BY <2>1, <2>2 DEF BackInv, TypeInv, TypeOK
  <2>5. \A i \in DOMAIN queue' : queue'[i].response <= response
    BY <1>1, <2>3, <2>4 DEF BackInv, NothingIsNewer
  <2>6. NothingIsNewer'
    BY <1>2, <2>1, <2>5 DEF BackInv, NothingIsNewer, InCall
  <2>7. MayGoBack(p) \/ m.response = response
    BY <2>1, <2>2 DEF BackInv, WireInv, NothingIsNewer, MayGoBack
  <2>8. QueueInv'
    <3> SUFFICES ASSUME NEW i \in DOMAIN queue', ~MayGoBack(queue'[i])
                 PROVE  /\ scene[queue'[i].name] <= queue'[i].response
                        /\ \A j \in 1 .. i : queue'[j].name = queue'[i].name
                                                => queue'[j].response <= queue'[i].response
      BY <1>2 DEF QueueInv, MayGoBack
    <3>1. CASE i \in 1 .. Len(queue)
      <4>1. queue'[i] = queue[i] /\ \A j \in 1 .. i : queue'[j] = queue[j]
        BY <2>4, <3>1
      <4> QED BY <2>4, <3>1, <4>1 DEF BackInv, QueueInv
    <3>2. CASE i = Len(queue) + 1
      <4>1. queue'[i] = p /\ p.response = response
        BY <2>3, <2>4, <2>7, <3>2
      <4>2. scene[p.name] <= response
        BY <2>3 DEF BackInv, NothingIsNewer
      <4>3. \A j \in 1 .. i : queue'[j].response <= response
        BY <2>4, <2>5, <3>2
      <4> QED BY <4>1, <4>2, <4>3
    <3> QED BY <2>4, <3>1, <3>2
  <2>9. ReportInv'
    BY <1>2, <2>1 DEF BackInv, ReportInv, Requests
  <2> QED BY <1>3, <2>6, <2>8, <2>9
<1>5. CASE RecvKpi(m)
  <2>1. /\ m \in wire \ Requests /\ queue' = queue /\ kpi' = m.response
        /\ \A l \in wire \ Requests : l.connection = m.connection => m.response <= l.response
    BY <1>5 DEF RecvKpi
  <2>2. NothingIsNewer'
    BY <1>1, <1>2, <2>1 DEF BackInv, NothingIsNewer, InCall
  <2>3. QueueInv'
    BY <1>2, <2>1 DEF BackInv, QueueInv, MayGoBack
  <2>4. ReportInv'
    <3>1. \A l \in wire : l.response \in Nat
      BY DEF BackInv, TypeInv, TypeOK, Responses
    <3> QED BY <1>1, <1>2, <2>1, <3>1 DEF BackInv, ReportInv, Requests
  <2> QED BY <1>3, <2>2, <2>3, <2>4
<1> QED BY <1>4, <1>5

\* After a frame nothing waits.
LEMMA PollKeepsBack ==
    ASSUME BackInv, Poll
    PROVE  (NothingIsNewer /\ WireInv /\ QueueInv /\ ReportInv)'
<1>1. /\ scene' = Applied(queue) /\ queue' = <<>>
      /\ UNCHANGED <<relay, response, current, connection, givenUp, wire, kpi>>
  BY DEF Poll, InTurn, server
<1>2. \A n \in Names : scene'[n] <= response
  <2> TAKE n \in Names
  <2>1. CASE Moves(queue, n) = {}
    BY <1>1, <2>1 DEF Applied, BackInv, NothingIsNewer
  <2>2. CASE Moves(queue, n) # {}
    BY <1>1, <2>2, LastMove DEF BackInv, TypeInv, NothingIsNewer
  <2> QED BY <2>1, <2>2
<1>3. NothingIsNewer'
  BY <1>1, <1>2 DEF BackInv, NothingIsNewer, InCall
<1>4. WireInv' /\ ReportInv'
  BY <1>1 DEF BackInv, WireInv, ReportInv, Requests, InCall, MayGoBack
<1>5. QueueInv'
  BY <1>1 DEF QueueInv
<1> QED BY <1>3, <1>4, <1>5

\* A GUI that is closed shows nothing.
LEMMA WindowKeepsBack ==
    ASSUME BackInv, CloseGui \/ OpenGui \/ UNCHANGED vars
    PROVE  (NothingIsNewer /\ WireInv /\ QueueInv /\ ReportInv)'
<1>1. response \in Nat
  BY RelayAssumption DEF BackInv, TypeInv, TypeOK, Responses
<1>2. CASE CloseGui
  <2>1. /\ queue' = <<>> /\ scene' = NothingShown /\ kpi' = 0 /\ wire' \subseteq wire
        /\ UNCHANGED <<relay, response, current, connection, givenUp>>
    BY <1>2 DEF CloseGui, server
  <2>2. NothingIsNewer'
    BY <1>1, <2>1 DEF BackInv, NothingIsNewer, InCall, NothingShown
  <2>3. WireInv' /\ QueueInv'
    BY <2>1 DEF BackInv, WireInv, QueueInv, Requests, InCall, MayGoBack
  <2>4. ReportInv'
    <3>1. \A l \in wire : l.response \in Nat
      BY DEF BackInv, TypeInv, TypeOK, Responses
    <3> QED BY <2>1, <3>1 DEF BackInv, ReportInv, Requests
  <2> QED BY <2>2, <2>3, <2>4
<1>3. CASE OpenGui \/ UNCHANGED vars
  <2>1. UNCHANGED <<relay, response, current, connection, givenUp, wire, queue, scene, kpi>>
    BY <1>3 DEF OpenGui, vars, server, window
  <2> QED BY <2>1 DEF BackInv, NothingIsNewer, WireInv, QueueInv, ReportInv, Requests,
                      InCall, MayGoBack
<1> QED BY <1>2, <1>3

\* A frame of a GUI that stays open goes back by what failed only.
LEMMA FrameGoesBack ==
    ASSUME BackInv, Poll, NEW n \in Names
    PROVE  \/ scene'[n] >= Max({scene[n]} \cup {p.response : p \in
                                    {q \in Range(queue) : q.name = n}})
           \/ [name |-> n, response |-> scene'[n]] \in givenUp
<1> DEFINE Known == {scene[n]} \cup {p.response : p \in {q \in Range(queue) : q.name = n}}
<1>1. scene' = Applied(queue)
  BY DEF Poll, InTurn
<1>2. scene[n] \in Nat
  BY DEF BackInv, TypeInv, TypeOK, Responses
<1>3. \A i \in DOMAIN queue : queue[i] \in Positions /\ queue[i].response \in Nat
  <2>1. \A i \in DOMAIN queue : queue[i] \in Positions
    BY DEF BackInv, TypeInv, TypeOK
  <2> QED BY <2>1 DEF Positions, Responses
<1>4. \A k \in Known : k = scene[n] \/ \E i \in DOMAIN queue : queue[i].name = n /\ k = queue[i].response
  BY DEF Range
<1>5. Known \in SUBSET Nat /\ Known # {} /\ scene[n] \in Known
  BY <1>2, <1>3, <1>4
<1>6. ASSUME NEW b \in Nat, \A k \in Known : k <= b
      PROVE  b >= Max(Known)
  <2>1. Max(Known) \in Known
    <3> HIDE DEF Known
    <3> QED BY <1>5, <1>6, MaxIsGreatest
  <2> HIDE DEF Known
  <2> QED BY <1>5, <1>6, <2>1
<1>7. CASE Moves(queue, n) = {}
  <2>1. scene'[n] = scene[n]
    BY <1>1, <1>7 DEF Applied
  <2>2. \A k \in Known : k = scene[n]
    BY <1>4, <1>7 DEF Moves
  <2>3. \A k \in Known : k <= scene[n]
    BY <1>2, <2>2
  <2> HIDE DEF Known
  <2>4. scene[n] >= Max(Known)
    BY <1>2, <1>6, <2>3
  <2> QED BY <2>1, <2>4 DEF Known
<1>8. CASE Moves(queue, n) # {}
  <2>1. PICK i \in DOMAIN queue :
              /\ queue[i].name = n /\ queue[i] \in Positions
              /\ Applied(queue)[n] = queue[i].response
              /\ \A j \in DOMAIN queue : queue[j].name = n => j <= i
    BY <1>8, LastMove DEF BackInv, TypeInv
  <2>2. scene'[n] = queue[i].response /\ queue[i].response \in Nat
    BY <1>1, <1>3, <2>1
  <2>3. CASE MayGoBack(queue[i])
    <3>1. queue[i] = [name |-> n, response |-> scene'[n]]
      BY <2>1, <2>2 DEF Positions
    <3> QED BY <2>3, <3>1 DEF MayGoBack
  <2>4. CASE ~MayGoBack(queue[i])
    <3>1. /\ scene[n] <= queue[i].response
          /\ \A j \in 1 .. i : queue[j].name = n => queue[j].response <= queue[i].response
      BY <2>1, <2>4 DEF BackInv, QueueInv
    <3>2. \A j \in DOMAIN queue : queue[j].name = n => j \in 1 .. i
      <4>1. DOMAIN queue = 1 .. Len(queue) /\ Len(queue) \in Nat
        BY DEF BackInv, TypeInv, TypeOK
      <4> QED BY <2>1, <4>1
    <3>3. \A k \in Known : k <= queue[i].response
      BY <1>4, <3>1, <3>2
    <3> HIDE DEF Known
    <3>4. queue[i].response >= Max(Known)
      BY <1>6, <2>2, <3>3
    <3> QED BY <2>2, <3>4 DEF Known
  <2> QED BY <2>3, <2>4
<1> QED BY <1>7, <1>8

\* One step of GoesBackOnlyAfterFailure.
LEMMA StepGoesBack ==
    ASSUME BackInv, [Next]_vars, gui' = "up"
    PROVE  /\ scene' # scene => \A n \in Names :
                \/ scene'[n] >= Max({scene[n]} \cup {p.response : p \in
                                        {q \in Range(queue) : q.name = n}})
                \/ [name |-> n, response |-> scene'[n]] \in givenUp
           /\ kpi' < kpi => givenUp # {}
<1>1. scene' = scene \/ Poll
  BY DEF Next, Call, Receive, Respond, SendPosition, RecvOk, GiveUp, Reconnect, Publish,
         RecvPosition, RecvKpi, CloseGui, OpenGui, vars, window
<1>2. kpi' = kpi \/ \E m \in wire : RecvKpi(m)
  BY DEF Next, Call, Receive, Respond, SendPosition, RecvOk, GiveUp, Reconnect, Publish,
         RecvPosition, Poll, CloseGui, OpenGui, vars, window
<1>3. kpi \in Nat
  BY DEF BackInv, TypeInv, TypeOK, Responses
<1>4. ASSUME NEW m \in wire, RecvKpi(m), givenUp = {}
      PROVE  ~(kpi' < kpi)
  <2>1. m \in wire \ Requests /\ kpi' = m.response /\ m.response \in Nat
    BY <1>4 DEF RecvKpi, BackInv, TypeInv, TypeOK, Responses
  <2>2. m.response >= kpi
    BY <1>4, <2>1 DEF BackInv, ReportInv
  <2> QED BY <1>3, <2>1, <2>2
<1> QED BY <1>1, <1>2, <1>3, <1>4, FrameGoesBack

(***************************************************************************)
(* A frame shows of each node the newest position known, or one whose call *)
(* has failed, and the report goes back after a failure only.              *)
(***************************************************************************)
THEOREM GoesBackOnlyThen == Spec => GoesBackOnlyAfterFailure
<1>1. Init => BackInv
  <2> SUFFICES ASSUME Init PROVE BackInv
    OBVIOUS
  <2>1. TypeInv
    BY InitType
  <2>2. OkInv
    BY DEF Init, OkInv, OkAnswersTheCall, Requests
  <2>3. NothingIsNewer /\ WireInv /\ QueueInv /\ ReportInv
    BY DEF Init, NothingIsNewer, WireInv, QueueInv, ReportInv, Requests, InCall, NothingShown
  <2> QED BY <2>1, <2>2, <2>3 DEF BackInv
<1>2. BackInv /\ [Next]_vars => BackInv'
  <2> SUFFICES ASSUME BackInv, [Next]_vars PROVE BackInv'
    OBVIOUS
  <2>1. TypeInv'
    BY NextKeepsType DEF BackInv
  <2>2. OkInv'
    BY ServerKeepsOk, SendKeepsOk, ReconnectKeepsOk, PublishKeepsOk, RecvPositionKeepsOk,
       GuiKeepsOk DEF Next, Call, Receive, BackInv
  <2>3. (NothingIsNewer /\ WireInv /\ QueueInv /\ ReportInv)'
    BY ServerKeepsBack, CallKeepsBack, ReceiveKeepsBack, PollKeepsBack, WindowKeepsBack
       DEF Next, Call, Receive
  <2> QED BY <2>1, <2>2, <2>3 DEF BackInv
<1>3. BackInv /\ [Next]_vars =>
        [gui' = "up" =>
            /\ scene' # scene => \A n \in Names :
                \/ scene'[n] >= Max({scene[n]} \cup {p.response : p \in
                                        {q \in Range(queue) : q.name = n}})
                \/ [name |-> n, response |-> scene'[n]] \in givenUp
            /\ kpi' < kpi => givenUp # {}]_vars
  BY StepGoesBack
<1> QED BY <1>1, <1>2, <1>3, PTL DEF Spec, GoesBackOnlyAfterFailure
=============================================================================
