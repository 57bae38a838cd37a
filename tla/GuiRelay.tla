------------------------------ MODULE GuiRelay ------------------------------
(***************************************************************************)
(* The relay of the ray tracer's results to the Sionna RT GUI.  For every  *)
(* response the server, before it answers ns-3, sends the GUI the position *)
(* of each node, waits up to a second for an OK, and publishes a report.   *)
(* When a call fails it throws its sockets away and connects again; what   *)
(* they had delivered may still be read, in between newer requests.        *)
(*                                                                         *)
(* The GUI, a process of its own that may be closed and opened, has two    *)
(* threads: one receives and queues, the other applies the queue to the    *)
(* scene at each frame.                                                    *)
(*                                                                         *)
(* The position of a node is the number of the response it came with; the  *)
(* instants of a look-ahead look like responses that follow each other.    *)
(***************************************************************************)
EXTENDS Integers, Sequences, FiniteSets, FiniteSetsExt, SequencesExt

CONSTANTS
    Names,          \* nodes that have a name in the GUI
    MaxResponses,   \* bound: responses
    MaxCrashes      \* bound: times the GUI is closed

ASSUME RelayAssumption ==
    /\ IsFiniteSet(Names) /\ "kpi" \notin Names
    /\ MaxResponses \in Nat /\ MaxCrashes \in Nat

VARIABLES
    \* ---- the server
    relay,      \* what _relay_response does
    response,   \* number of the response
    todo,       \* nodes still to be sent
    current,    \* the message of the call under way, or the last one
    connection, \* number of the sockets
    linger,     \* zmq.LINGER of the sockets
    givenUp,    \* messages whose call failed
    \* ---- in between
    wire,       \* messages on their way to the GUI
    replies,    \* connections with an OK on its way back
    \* ---- the GUI
    gui,        \* whether it runs
    queue,      \* _cmd_queue
    scene,      \* the position shown for a node, 0 when there is none
    kpi,        \* latest_kpi
    crashes     \* times it was closed

server == <<relay, response, todo, current, connection, linger, givenUp>>
window == <<gui, queue, scene, kpi, crashes>>
vars == <<server, wire, replies, window>>

Message(c, n, r) == [connection |-> c, name |-> n, response |-> r]
Position(m) == [name |-> m.name, response |-> m.response]
Requests == {m \in wire : m.name \in Names}
\* Mutant: an empty scene has no entry for any node.
EmptyScene == [n \in {} |-> 0]

NothingShown == [n \in Names |-> 0]

Init ==
    /\ relay = "idle" /\ response = 0 /\ todo = {}
    /\ current = Message(1, "kpi", 0)
    /\ connection = 1 /\ linger = 0 /\ givenUp = {}
    /\ wire = {} /\ replies = {}
    /\ gui \in {"up", "down"} /\ queue = <<>> /\ scene = NothingShown
    /\ kpi = 0 /\ crashes = 0

-----------------------------------------------------------------------------
(***************************************************************************)
(* The server                                                              *)
(***************************************************************************)
\* ns-3 waits for the response until the relay is done with it.
Respond ==
    /\ relay = "idle" /\ response < MaxResponses
    /\ relay' = "relaying"
    /\ response' = response + 1
    /\ todo' = Names
    /\ UNCHANGED <<current, connection, linger, givenUp, wire, replies, window>>

\* _send_cmd: the socket takes the message whether or not the GUI runs.
SendPosition(n) ==
    /\ relay = "relaying" /\ n \in todo
    /\ relay' = "calling"
    /\ todo' = todo \ {n}
    /\ current' = Message(connection, n, response)
    /\ wire' = wire \cup {current'}
    /\ UNCHANGED <<response, connection, linger, givenUp, replies, window>>

RecvOk ==
    /\ relay = "calling" /\ connection \in replies
    /\ relay' = "relaying"
    /\ replies' = replies \ {connection}
    /\ UNCHANGED <<response, todo, current, connection, linger, givenUp, wire, window>>

\* No answer within RCVTIMEO: the position is not sent again.
GiveUp ==
    /\ relay = "calling"
    /\ relay' = "closing"
    /\ givenUp' = givenUp \cup {Position(current)}
    /\ UNCHANGED <<response, todo, current, connection, linger, wire, replies, window>>

\* Mutant: the call goes on with the sockets it has.
SameSockets == UNCHANGED <<connection, linger, replies>>

\* Mutant: the new sockets are not hardened.
SoftSockets == connection' = connection + 1 /\ linger' = -1 /\ replies' = {}

\* connect and _harden_gui_sockets
NewSockets == connection' = connection + 1 /\ linger' = 0 /\ replies' = {}

(***************************************************************************)
(* disconnect, which waits for what the sockets have not sent unless       *)
(* LINGER is 0, and connect.  Of what was sent some may be read yet.       *)
(***************************************************************************)
Reconnect ==
    /\ relay = "closing"
    /\ linger = 0 \/ gui = "up" \/ current \notin wire
    /\ relay' = "relaying"
    /\ NewSockets
    /\ wire' \in {wire, wire \ {m \in wire : m.connection = connection}}
    /\ UNCHANGED <<response, todo, current, givenUp, window>>

\* send_kpi: what nobody subscribed to yet is lost.
Publish ==
    /\ relay = "relaying" /\ todo = {}
    /\ relay' = "idle"
    /\ wire' \in {wire, wire \cup {Message(connection, "kpi", response)}}
    /\ UNCHANGED <<response, todo, current, connection, linger, givenUp, replies, window>>

-----------------------------------------------------------------------------
(***************************************************************************)
(* The GUI                                                                 *)
(***************************************************************************)
\* _recv_loop: the answer to sockets that are gone goes nowhere.
RecvPosition(m) ==
    /\ gui = "up" /\ m \in Requests
    /\ queue' = Append(queue, Position(m))
    /\ wire' = wire \ {m}
    /\ replies' = IF m.connection = connection THEN replies \cup {connection} ELSE replies
    /\ UNCHANGED <<server, gui, scene, kpi, crashes>>

\* Reports of the same sockets come in their order.
RecvKpi(m) ==
    /\ gui = "up" /\ m \in wire \ Requests
    /\ \A l \in wire \ Requests : l.connection = m.connection => m.response <= l.response
    /\ kpi' = m.response
    /\ wire' = wire \ {m}
    /\ UNCHANGED <<server, replies, gui, queue, scene, crashes>>

\* Mutant: the newest command is applied first.
NewestFirst(commands) == Reverse(commands)

\* Mutant: only the first command is applied.
OnlyTheFirst(commands) == <<Head(commands)>>

InTurn(commands) == commands

\* What _apply makes of the commands, one after the other: the last one of a
\* node counts.
Moves(commands, n) == {i \in DOMAIN commands : commands[i].name = n}
Applied(commands) ==
    [n \in Names |-> IF Moves(commands, n) = {} THEN scene[n]
                     ELSE commands[Max(Moves(commands, n))].response]

\* poll_and_apply
Poll ==
    /\ gui = "up" /\ queue # <<>>
    /\ scene' = Applied(InTurn(queue))
    /\ queue' = <<>>
    /\ UNCHANGED <<server, wire, replies, gui, kpi, crashes>>

\* What the GUI had received is gone, what it had not may be.
CloseGui ==
    /\ gui = "up" /\ crashes < MaxCrashes
    /\ gui' = "down" /\ crashes' = crashes + 1
    /\ queue' = <<>> /\ scene' = NothingShown /\ kpi' = 0
    /\ replies' = {}
    /\ wire' \in SUBSET wire
    /\ UNCHANGED server

OpenGui ==
    /\ gui = "down"
    /\ gui' = "up"
    /\ UNCHANGED <<server, wire, replies, queue, scene, kpi, crashes>>

-----------------------------------------------------------------------------
Call == RecvOk \/ GiveUp \/ Reconnect \/ Publish \/ \E n \in Names : SendPosition(n)

Receive == \E m \in wire : RecvPosition(m) \/ RecvKpi(m)

Next == Respond \/ Call \/ Receive \/ Poll \/ CloseGui \/ OpenGui

Spec == Init /\ [][Next]_vars

\* A call ends, by its answer or by its time limit; an open GUI receives and
\* shows its frames.  That it is ever opened is not assumed.
FairSpec == Spec /\ WF_vars(Call) /\ WF_vars(Receive) /\ WF_vars(Poll)

-----------------------------------------------------------------------------
Responses == 0 .. MaxResponses
Positions == [name : Names, response : Responses]
Connections == 1 .. 1 + MaxResponses * Cardinality(Names)

(***************************************************************************)
(* Types of the variables of the server, of the messages in between and of *)
(* the variables of the GUI                                                *)
(***************************************************************************)
TypeOK ==
    /\ relay \in {"idle", "relaying", "calling", "closing"}
    /\ response \in Responses /\ todo \subseteq Names
    /\ current \in [connection : Connections, name : Names \cup {"kpi"}, response : Responses]
    /\ connection \in Connections /\ linger \in {0, -1}
    /\ givenUp \subseteq Positions
    /\ wire \subseteq [connection : Connections, name : Names \cup {"kpi"},
                       response : Responses]
    /\ replies \subseteq Connections
    /\ gui \in {"up", "down"} /\ queue \in Seq(Positions)
    /\ scene \in [Names -> Responses] /\ kpi \in Responses
    /\ crashes \in 0 .. MaxCrashes

(***************************************************************************)
(* _safe_gui_call makes new sockets after a failure so that an OK always   *)
(* is the answer to the call under way, whose message the GUI has read,    *)
(* and never the late answer to an earlier one.                            *)
(***************************************************************************)
OkAnswersTheCall ==
    /\ replies \subseteq {connection}
    /\ replies # {} => relay \in {"calling", "closing"} /\ current \notin wire

(***************************************************************************)
(* A frame shows of each node the newest position that the GUI knows of,   *)
(* and only a position whose call failed can replace a newer one: the late *)
(* message of a socket thrown away.  The same holds for the report.        *)
(***************************************************************************)
GoesBackOnlyAfterFailure ==
    [][gui' = "up" =>
        /\ scene' # scene => \A n \in Names :
            \/ scene'[n] >= Max({scene[n]} \cup {p.response : p \in
                                    {q \in Range(queue) : q.name = n}})
            \/ [name |-> n, response |-> scene'[n]] \in givenUp
        /\ kpi' < kpi => givenUp # {}]_vars

(***************************************************************************)
(* The simulation never waits for the GUI for good, whether that runs, is  *)
(* closed in the middle of a call or is never opened (the comments of      *)
(* _safe_gui_call and _harden_gui_sockets).                                *)
(***************************************************************************)
RelayEnds == relay # "idle" ~> relay = "idle"

(***************************************************************************)
(* When every call so far was answered and the GUI stays open, it comes to *)
(* show each node where that response, or a later one, has it.             *)
(***************************************************************************)
SceneCatchesUp ==
    \A r \in 1 .. MaxResponses :
        relay = "idle" /\ response = r /\ givenUp = {} /\ crashes = 0
            ~> (\A n \in Names : scene[n] >= r) \/ crashes > 0
=============================================================================
