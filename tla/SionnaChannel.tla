--------------------------- MODULE SionnaChannel ---------------------------
(***************************************************************************)
(* The ray-traced channel.  The propagation models of ns-3 ask            *)
(* SionnaPropagationCache for the loss, the delay or the CSI of a link; on *)
(* a miss it asks the Sionna server, a process of its own, and waits for   *)
(* the answer.  The server moves the nodes that walk, computes the links   *)
(* of one transmitter and says how long each result is valid; ns-3 keeps   *)
(* all of them and takes over the positions of the nodes it looked up.     *)
(*                                                                         *)
(* One simulation follows another on the same server: SionnaHelper opens   *)
(* and closes the session, and ns-3 may end in between without a word.     *)
(*                                                                         *)
(* A position is one of the spots on the node's own track; the losses, the *)
(* delays and the CSI follow from the positions and are left out.  Links   *)
(* too long for ray tracing change nothing and are not looked up at all.   *)
(***************************************************************************)
EXTENDS Integers, Sequences, FiniteSets, FiniteSetsExt, SequencesExt

CONSTANTS
    Constant,       \* nodes that never move
    External,       \* nodes that a trace moves in ns-3
    Walking,        \* nodes that the server moves
    Simulations,    \* the sets of nodes a simulation may have
    Settings,       \* what a simulation may ask for: mode of operation and sub_mode,
                    \* the links of one computation with look-ahead
    Spots,          \* places on the track of a node that moves
    Coherences,     \* coherence times of links that change
    MaxCoherence,   \* MAX_COHERENCE_TIME
    Caching,        \* m_caching
    EndTime,        \* bound: time at which a simulation ends
    MaxMisses       \* bound: requests of a simulation

Nodes == Constant \cup External \cup Walking
Track(n) == IF n \in Constant THEN {<<n, 0>>} ELSE {n} \X Spots
Origin == <<0, 0>>
Modes == {"P2P", "P2MP", "P2MP_LAH"}
Links == {{a, b} : a, b \in Nodes} \ {{a} : a \in Nodes}

ASSUME ChannelAssumption ==
    /\ Nodes \subseteq Nat \ {0} /\ IsFiniteSet(Nodes)
    /\ Constant \cap External = {} /\ Constant \cap Walking = {}
    /\ External \cap Walking = {}
    /\ Simulations \subseteq SUBSET Nodes
    /\ \A s \in Simulations : Cardinality(s) > 1
    /\ Settings \subseteq [mode : Modes, subMode : Nat]
    /\ 0 \in Spots /\ Spots \subseteq Nat
    /\ Coherences \subseteq Nat \ {0} /\ MaxCoherence \in Nat \ {0}
    /\ Caching \in BOOLEAN
    /\ EndTime \in Nat /\ MaxMisses \in Nat

VARIABLES
    \* ---- ns-3
    sim,        \* what the simulation does
    nodes,      \* the nodes of the simulation
    now,        \* Simulator::Now
    place,      \* position of a node, in its SionnaMobilityModel
    active,     \* m_active of an external node
    cache,      \* m_cache
    misses,     \* m_cache_miss
    lastActive, \* m_lastExternalActive
    lookup,     \* the lookup under way, or the last one until time goes on
    \* ---- the request or reply under way
    wire,
    \* ---- the server
    server,     \* whether the process lives
    mode,       \* self.mode
    subMode,    \* self.sub_mode
    simTime,    \* self.sim_time
    nodeInfo    \* self.node_info

ns3 == <<sim, nodes, now, place, active, cache, misses, lastActive, lookup>>
env == <<server, mode, subMode, simTime, nodeInfo>>
vars == <<ns3, wire, env>>

Entry(a, b, posA, posB, start, end) ==
    [a |-> a, b |-> b, posA |-> posA, posB |-> posB, start |-> start, end |-> end]

\* The entry of a link that cannot be reached
Unreachable == Entry(0, 0, Origin, Origin, -1, -1)

Lookup(a, b, kind, miss, entry) ==
    [a |-> a, b |-> b, kind |-> kind, miss |-> miss, entry |-> entry]
NoLookup == Lookup(0, 0, "none", FALSE, Unreachable)

Nothing == [type |-> "nothing"]
EmptyCache == [l \in Links |-> <<>>]
NoNodes == [n \in {} |-> TRUE]

\* What an ns-3 process begins with
FreshProcess ==
    /\ now' = 0
    /\ place' = [n \in Nodes |-> <<n, 0>>]
    /\ cache' = EmptyCache /\ misses' = 0 /\ lastActive' = NoNodes
    /\ lookup' = NoLookup

Init ==
    /\ sim = "off" /\ nodes = {} /\ now = 0
    /\ place = [n \in Nodes |-> <<n, 0>>]
    /\ active = [n \in External |-> TRUE]
    /\ cache = EmptyCache /\ misses = 0 /\ lastActive = NoNodes
    /\ lookup = NoLookup
    /\ wire = Nothing
    /\ server = "up" /\ mode = "P2MP" /\ subMode = 0 /\ simTime = 0 /\ nodeInfo = NoNodes

-----------------------------------------------------------------------------
(***************************************************************************)
(* The session                                                             *)
(***************************************************************************)
\* SionnaHelper::Start, in a new process: every node is at the start of its
\* track.
Start ==
    /\ sim = "off" /\ wire = Nothing
    /\ sim' = "starting"
    /\ \E ns \in Simulations, s \in Settings :
        /\ nodes' = ns
        /\ active' \in {on \in [External -> BOOLEAN] : \A n \in External \ ns : on[n]}
        /\ wire' = [type |-> "init", setting |-> s, nodes |-> ns, active |-> active']
    /\ FreshProcess
    /\ UNCHANGED env

\* The process is gone, and all it held.
End ==
    /\ sim' = "off" /\ nodes' = {}
    /\ active' = [n \in External |-> TRUE]
    /\ FreshProcess

\* Mutant: only requests are answered.
ReplyToRequests(message) ==
    wire' = IF sim = "off" \/ message.type = "ack" THEN Nothing ELSE message

\* A reply to a simulation that ended goes nowhere.
Reply(message) == wire' = IF sim = "off" THEN Nothing ELSE message

(***************************************************************************)
(* init_simulation_env.  The nodes of the simulation replace those of the  *)
(* same id, others stay.  When the scene cannot be loaded the server ends  *)
(* its loop and begins a new one.  For a negative sub_mode the server      *)
(* takes a number of its own, --rt_max_parallel_links.                     *)
(***************************************************************************)
\* Mutant: without a velocity there is no limit to the coherence time.
NodeWithoutLimit(n, coherence) ==
    [at |-> <<n, 0>>, updated |-> 0, active |-> (n \in External => wire.active[n]),
     coherence |-> IF n \in Walking THEN coherence[n] ELSE 2 * MaxCoherence]

NodeAtStart(n, coherence) ==
    [at |-> <<n, 0>>, updated |-> 0, active |-> (n \in External => wire.active[n]),
     coherence |-> IF n \in Walking THEN coherence[n] ELSE MaxCoherence]

\* Mutant: a node that is known from the last simulation is kept.
InitKeepsNodes ==
    \E c \in [Walking -> Coherences] :
        nodeInfo' = nodeInfo @@ [n \in wire.nodes |-> NodeAtStart(n, c)]

InitMobility ==
    \E c \in [Walking -> Coherences] :
        nodeInfo' = [n \in wire.nodes \cup DOMAIN nodeInfo |->
                        IF n \in wire.nodes THEN NodeAtStart(n, c) ELSE nodeInfo[n]]

\* Mutant: the clock of the last simulation goes on.
InitKeepsClock(s) ==
    mode' = s.mode /\ subMode' = s.subMode /\ simTime' = simTime /\ InitMobility

InitEnv(s) == mode' = s.mode /\ subMode' = s.subMode /\ simTime' = 0 /\ InitMobility

NewEnv == mode' = "P2MP" /\ subMode' = 0 /\ simTime' = 0 /\ nodeInfo' = NoNodes

ServeInit ==
    /\ server = "up" /\ wire.type = "init"
    /\ \/ InitEnv(wire.setting) /\ Reply([type |-> "ack", ok |-> TRUE])
       \/ NewEnv /\ Reply([type |-> "ack", ok |-> FALSE])
    /\ UNCHANGED <<ns3, server>>

\* A refusal ends ns-3.
RecvInitAck ==
    /\ sim = "starting" /\ wire.type = "ack"
    /\ \/ /\ wire.ok
          /\ sim' = "running"
          /\ UNCHANGED <<nodes, now, place, active, cache, misses, lastActive, lookup>>
       \/ ~wire.ok /\ End
    /\ wire' = Nothing
    /\ UNCHANGED env

Destroy ==
    /\ sim = "running"
    /\ sim' = "closing"
    /\ wire' = [type |-> "close"]
    /\ UNCHANGED <<nodes, now, place, active, cache, misses, lastActive, lookup, env>>

ServeClose ==
    /\ server = "up" /\ wire.type = "close"
    /\ NewEnv
    /\ Reply([type |-> "ack", ok |-> TRUE])
    /\ UNCHANGED <<ns3, server>>

RecvCloseAck ==
    /\ sim = "closing" /\ wire.type = "ack"
    /\ End
    /\ wire' = Nothing
    /\ UNCHANGED env

\* ns-3 ends without Destroy; what it sent is served all the same.
Abort ==
    /\ sim # "off"
    /\ End
    /\ wire' = IF wire.type \in {"ack", "response"} THEN Nothing ELSE wire
    /\ UNCHANGED env

-----------------------------------------------------------------------------
(***************************************************************************)
(* The simulation                                                          *)
(***************************************************************************)
Tick ==
    /\ sim = "running" /\ now < EndTime
    /\ now' = now + 1
    /\ lookup' = NoLookup
    /\ UNCHANGED <<sim, nodes, place, active, cache, misses, lastActive, wire,
                   env>>

\* A sample of the trace: SetPosition and SetActive
TraceSample(n) ==
    /\ sim = "running" /\ n \in nodes
    /\ \E p \in Track(n), on \in BOOLEAN :
        /\ <<p, on>> # <<place[n], active[n]>>
        /\ place' = [place EXCEPT ![n] = p]
        /\ active' = [active EXCEPT ![n] = on]
    /\ lookup' = NoLookup
    /\ UNCHANGED <<sim, nodes, now, cache, misses, lastActive, wire, env>>

-----------------------------------------------------------------------------
(***************************************************************************)
(* GetPropagationData, up to the request                                   *)
(***************************************************************************)
ActivityNow == [n \in External \cap nodes |-> active[n]]

ActivityChanged == \E n \in DOMAIN lastActive : lastActive[n] # active[n]

\* Mutant: a change of activity leaves the cache alone.
CacheAsItIs == cache

\* An activity that changed since the last lookup empties the cache.
CacheToSearch == IF ActivityChanged THEN EmptyCache ELSE cache

\* Outdated entries of the link are removed, one after the other.
Unexpired(entries) ==
    LET kept[i \in 0 .. Len(entries)] ==
            IF i = 0 THEN <<>>
            ELSE IF entries[i].end >= now THEN Append(kept[i - 1], entries[i])
            ELSE kept[i - 1]
    IN  kept[Len(entries)]

\* An entry holds the nodes of a link in either order.
Fits(e, a, b) ==
    /\ e.start <= now /\ now <= e.end
    /\ (IF a = e.a THEN e.posA ELSE e.posB) = place[a]
    /\ (IF b = e.b THEN e.posB ELSE e.posA) = place[b]

\* Mutant: the positions of the entry are taken in the order of the lookup.
PlaceInOrder(a, b, e) == [place EXCEPT ![a] = e.posA, ![b] = e.posB]

\* GetPropagationLoss moves both nodes to where the entry has them.
PlaceFromEntry(a, b, e) ==
    IF a = e.a THEN [place EXCEPT ![a] = e.posA, ![b] = e.posB]
               ELSE [place EXCEPT ![a] = e.posB, ![b] = e.posA]

Return(a, b, kind, miss, e) ==
    /\ lookup' = Lookup(a, b, kind, miss, e)
    /\ place' = IF kind = "loss" THEN PlaceFromEntry(a, b, e) ELSE place

\* The request tells the state of every external node.
Request(a, b) ==
    [type |-> "request", tx |-> a, rx |-> b, time |-> now,
     states |-> [n \in External \cap nodes |-> [at |-> place[n], active |-> active[n]]]]

LookUp(a, b, kind) ==
    LET link == {a, b}
        entries == CacheToSearch[link]
        hits == {i \in 1 .. Len(entries) : Fits(entries[i], a, b)}
    IN  /\ sim = "running" /\ link \subseteq nodes /\ link \in Links
        /\ lastActive' = ActivityNow
        /\ cache' = IF Caching THEN [CacheToSearch EXCEPT ![link] = Unexpired(entries)]
                               ELSE CacheToSearch
        /\ \/ /\ Caching /\ hits # {}
              /\ Return(a, b, kind, FALSE, entries[Min(hits)])
              /\ UNCHANGED <<sim, misses, wire>>
           \/ /\ ~Caching \/ hits = {}
              /\ misses < MaxMisses
              /\ misses' = misses + 1
              /\ sim' = "waiting"
              /\ wire' = Request(a, b)
              /\ lookup' = Lookup(a, b, kind, TRUE, Unreachable)
              /\ UNCHANGED place
        /\ UNCHANGED <<nodes, now, active, env>>

-----------------------------------------------------------------------------
(***************************************************************************)
(* The server: mobility.  What counts of a velocity is the coherence time  *)
(* it gives the links of the node.                                         *)
(***************************************************************************)
\* update_external.  Without time in between the node has no velocity.
ExternalAt(n, coherence) ==
    [at |-> wire.states[n].at, updated |-> wire.time, active |-> wire.states[n].active,
     coherence |-> IF /\ wire.time > nodeInfo[n].updated
                      /\ wire.states[n].at # nodeInfo[n].at
                   THEN coherence[n] ELSE MaxCoherence]

\* _apply_external_node_states
ApplyExternal(coherence) ==
    [n \in DOMAIN nodeInfo |->
        IF n \in DOMAIN wire.states THEN ExternalAt(n, coherence) ELSE nodeInfo[n]]

\* Where a walk ends, the coherence the history has for it, and that of the
\* velocity after it, which is a new one when it is time to turn.
Legs == [spot : Spots, seen : Coherences, next : Coherences]

\* _walk: without time in between the node stays, and has turned already
\* unless it missed a walk.
Walk(info, leg, moves, time) ==
    [at |-> IF moves THEN <<info.at[1], leg.spot>> ELSE info.at,
     updated |-> time, active |-> info.active,
     coherence |-> IF info.updated = time THEN info.coherence ELSE leg.next]

\* update_pos: assert sim_time >= self.last_update
MayMove(updating, time) ==
    \A n \in updating : n \in Walking \cup DOMAIN wire.states =>
        time >= nodeInfo[n].updated

Shorter(s, t) == IF s < t THEN s ELSE t

\* How long the links of a transmitter last
Shortest(tx, others, info) ==
    Min({Shorter(info[n].coherence, info[tx].coherence) : n \in others})

-----------------------------------------------------------------------------
(***************************************************************************)
(* The server: compute_cfr_classic                                         *)
(***************************************************************************)
Csi(start, end, tx, positions) ==
    [start |-> start, end |-> end, tx |-> tx, at |-> positions]

\* Mutant: only the two nodes asked for move.
TwoNodes(tx, rx, m) == {tx, rx}

NodesToUpdate(tx, rx, m) == IF m = "P2P" THEN {tx, rx} ELSE DOMAIN nodeInfo

\* Mutant: not the end but the beginning keeps intervals from overlapping.
IntervalStart(time) == time + 1

StartTime(time) == time

ComputeClassic(tx, rx, m) ==
    LET updating == NodesToUpdate(tx, rx, m)
    IN  \E c \in [External -> Coherences], leg \in [Walking -> Legs] :
            LET applied == ApplyExternal(c)
                info == [n \in DOMAIN nodeInfo |->
                            IF n \in Walking \cap updating
                            THEN Walk(applied[n], leg[n], wire.time # simTime, wire.time)
                            ELSE applied[n]]
                tc == Shortest(tx, updating \ {tx}, info)
            IN  /\ nodeInfo' = info
                /\ simTime' = wire.time
                /\ Reply([type |-> "response",
                          csi |-> <<Csi(StartTime(wire.time), wire.time + tc, tx,
                                        [n \in updating |-> info[n].at])>>])

(***************************************************************************)
(* The server: compute_cfr_with_lookahead.  The clock of the server ends   *)
(* at the last instant computed, and stays where it is if there is none:   *)
(* when the links of a transmitter are more than sub_mode, as with the     *)
(* sub_mode 1 of SionnaHelper and three nodes, there is no result, either. *)
(***************************************************************************)
Instants == subMode \div (Cardinality(DOMAIN nodeInfo) - 1)

Elapsed(i) == i > 1 \/ wire.time # simTime

\* The nodes after the i-th instant, and its time
StepAhead(i, was, tx, leg) ==
    LET time == IF i = 1 THEN wire.time
                ELSE was.time + Shortest(tx, DOMAIN was.info \ {tx}, was.info)
    IN  [info |-> [n \in DOMAIN was.info |->
                      IF n \in Walking THEN Walk(was.info[n], leg[n], Elapsed(i), time)
                      ELSE was.info[n]],
         time |-> time]

Ahead(tx, applied, legs) ==
    LET state[i \in 0 .. Len(legs)] ==
            IF i = 0 THEN [info |-> applied, time |-> simTime]
            ELSE StepAhead(i, state[i - 1], tx, legs[i])
    IN  state

\* What get_pos_at and get_velo_at find for the instant
Seen(i, was, is, leg) ==
    [n \in DOMAIN is |-> IF n \in Walking /\ Elapsed(i)
                         THEN [is[n] EXCEPT !.coherence = leg[n].seen]
                         ELSE was[n]]

Lookahead(tx, applied, legs) ==
    LET state == Ahead(tx, applied, legs)
        last == Len(legs)
        result(i) ==
            LET seen == Seen(i, state[i - 1].info, state[i].info, legs[i])
            IN  Csi(StartTime(state[i].time),
                    state[i].time + Shortest(tx, DOMAIN seen \ {tx}, seen) - 1, tx,
                    [n \in DOMAIN seen |-> seen[n].at])
    IN  [info |-> state[last].info, time |-> state[last].time,
         csi |-> [i \in 1 .. last |-> result(i)]]

ComputeWithLookahead(tx) ==
    LET steps == 1 .. Instants
    IN  \E c \in [External -> Coherences], legs \in [steps -> [Walking -> Legs]] :
            LET applied == ApplyExternal(c)
                ahead == Lookahead(tx, applied, legs)
            IN  /\ nodeInfo' = [n \in DOMAIN nodeInfo |->
                       IF n \in Walking THEN ahead.info[n] ELSE applied[n]]
                /\ simTime' = ahead.time
                /\ Reply([type |-> "response", csi |-> ahead.csi])

(***************************************************************************)
(* compute_cfr.  Reciprocity swaps a walking transmitter with a fixed      *)
(* receiver, but what is asked next is the transmitter of before.  With no *)
(* instant to compute only external nodes move, and the ray tracer has no  *)
(* receiver: whether it then returns or raises an exception, which ends    *)
(* the server, is not decided in this code.                                *)
(***************************************************************************)
ServeRequest ==
    /\ server = "up" /\ wire.type = "request"
    /\ LET lookahead == mode = "P2MP_LAH" /\ wire.tx \notin Walking
           swap == mode = "P2MP_LAH" /\ wire.tx \in Walking /\ wire.rx \notin Walking
           tx == IF swap THEN wire.rx ELSE wire.tx
           rx == IF swap THEN wire.tx ELSE wire.rx
           m == IF mode = "P2MP_LAH" THEN "P2MP" ELSE mode
           idle == lookahead /\ Instants = 0
           updating == (IF idle THEN {} ELSE NodesToUpdate(tx, rx, m)) \cup DOMAIN wire.states
       IN  \/ /\ MayMove(updating, wire.time)
              /\ IF lookahead THEN ComputeWithLookahead(tx) ELSE ComputeClassic(tx, rx, m)
              /\ UNCHANGED <<server, mode, subMode>>
           \/ /\ ~MayMove(updating, wire.time) \/ idle
              /\ server' = "failed"
              /\ UNCHANGED <<wire, mode, subMode, simTime, nodeInfo>>
    /\ UNCHANGED ns3

-----------------------------------------------------------------------------
(***************************************************************************)
(* GetPropagationData, from the reply on: all results go into the cache,   *)
(* then the first one of the link that covers the present is returned.     *)
(***************************************************************************)
\* The results for one link, in the order of their times
Results(link) ==
    LET tx == wire.csi[1].tx
        rx == CHOOSE n \in link : n # tx
    IN  IF wire.csi # <<>> /\ tx \in link /\ link \subseteq DOMAIN wire.csi[1].at
        THEN [i \in 1 .. Len(wire.csi) |->
                 Entry(tx, rx, wire.csi[i].at[tx], wire.csi[i].at[rx],
                       wire.csi[i].start, wire.csi[i].end)]
        ELSE <<>>

Covers(e) == e.start <= now /\ now <= e.end

RecvResponse ==
    LET link == {lookup.a, lookup.b}
        filled == [l \in Links |-> cache[l] \o Results(l)]
        found == {i \in 1 .. Len(filled[link]) : Covers(filled[link][i])}
    IN  /\ sim = "waiting" /\ wire.type = "response"
        /\ sim' = "running"
        /\ wire' = Nothing
        /\ cache' = filled
        /\ Return(lookup.a, lookup.b, lookup.kind, TRUE,
                  IF found = {} THEN Unreachable ELSE filled[link][Min(found)])
        /\ UNCHANGED <<nodes, now, active, misses, lastActive, env>>

-----------------------------------------------------------------------------
Serve == ServeInit \/ ServeRequest \/ ServeClose

Receive == RecvInitAck \/ RecvResponse \/ RecvCloseAck

Next ==
    \/ Start \/ Destroy \/ Abort
    \/ Tick
    \/ \E n \in External : TraceSample(n)
    \/ \E a, b \in Nodes, kind \in {"loss", "csi"} : LookUp(a, b, kind)
    \/ Serve \/ Receive

Spec == Init /\ [][Next]_vars

\* Both processes go on as long as there is something to receive.
FairSpec == Spec /\ WF_vars(Serve) /\ WF_vars(Receive)

-----------------------------------------------------------------------------
Positions == (UNION {Track(n) : n \in Nodes}) \cup {Origin}

EntryType == [a : Nodes \cup {0}, b : Nodes \cup {0}, posA : Positions, posB : Positions,
              start : Int, end : Int]

NodeType == [at : Positions, updated : Nat, active : BOOLEAN,
             coherence : Coherences \cup {MaxCoherence}]

(***************************************************************************)
(* Types of the variables of ns-3, of the message under way and of the     *)
(* variables of the server                                                 *)
(***************************************************************************)
TypeOK ==
    /\ sim \in {"off", "starting", "running", "waiting", "closing"}
    /\ nodes \subseteq Nodes
    /\ now \in 0 .. EndTime
    /\ place \in [Nodes -> Positions]
    /\ active \in [External -> BOOLEAN]
    /\ DOMAIN cache = Links
    /\ \A l \in Links : \A i \in 1 .. Len(cache[l]) : cache[l][i] \in EntryType
    /\ misses \in 0 .. MaxMisses
    /\ \E N \in SUBSET External : lastActive \in [N -> BOOLEAN]
    /\ lookup.entry \in EntryType
    /\ wire.type \in {"nothing", "init", "ack", "close", "request", "response"}
    /\ server \in {"up", "failed"}
    /\ mode \in Modes
    /\ subMode \in Nat
    /\ simTime \in Nat
    /\ \E N \in SUBSET Nodes : nodeInfo \in [N -> NodeType]

Answered == sim = "running" /\ lookup.kind # "none"

(***************************************************************************)
(* Without look-ahead, and as long as every simulation has the same nodes, *)
(* no request asks for a time before the one its nodes are at, so that the *)
(* assertion of update_pos does not end the server: not after a simulation *)
(* that ended without a word, nor for a node that was not asked for.       *)
(***************************************************************************)
ServerKeepsTime == server = "failed" => mode = "P2MP_LAH"

\* Look-ahead over a transmitter's links may have no instant.
MayHaveNoInstant ==
    \E s \in Settings : s.mode = "P2MP_LAH" /\ s.subMode < Cardinality(Nodes) - 1

\* Where a node may be in ns-3: GetPropagationLoss moves the nodes of a link
\* that cannot be reached to the origin.
Homes(n) == Track(n) \cup (IF MayHaveNoInstant THEN {Origin} ELSE {})

(***************************************************************************)
(* A node is only ever where it can be, in ns-3 and in the server: the     *)
(* positions of the two nodes of an entry are not swapped on their way     *)
(* through the server, the cache, whose links have no direction, and       *)
(* GetPropagationLoss.  Only where look-ahead may compute no instant can a *)
(* node get to the origin, and on the server only a node whose position    *)
(* ns-3 sends.                                                             *)
(***************************************************************************)
NodesKeepToTheirTracks ==
    /\ \A n \in Nodes : place[n] \in Homes(n)
    /\ \A n \in DOMAIN nodeInfo :
            nodeInfo[n].at \in IF n \in External THEN Homes(n) ELSE Track(n)

(***************************************************************************)
(* Whenever a lookup has returned, from the cache or not, the server knows *)
(* which of the external nodes are active.                                 *)
(***************************************************************************)
ActivityIsForwarded ==
    Answered => \A n \in External \cap nodes : nodeInfo[n].active = active[n]

(***************************************************************************)
(* A lookup returns an entry of its link that is valid at the time it is   *)
(* made, whichever node transmits and in whichever mode the server works.  *)
(* "Cannot be reached" is the answer in one case only: the server looks    *)
(* ahead, the transmitter does not walk, and sub_mode is less than the     *)
(* number of its links, so that no instant is computed.  The defaults of   *)
(* SionnaHelper, look-ahead with a sub_mode of 1, are that case for three  *)
(* nodes.                                                                  *)
(***************************************************************************)
NoInstant ==
    /\ mode = "P2MP_LAH" /\ lookup.a \notin Walking
    /\ subMode < Cardinality(DOMAIN nodeInfo) - 1

EveryLookupIsAnswered ==
    Answered => \/ /\ {lookup.entry.a, lookup.entry.b} = {lookup.a, lookup.b}
                   /\ Covers(lookup.entry)
                \/ lookup.miss /\ lookup.entry = Unreachable /\ NoInstant

(***************************************************************************)
(* When every computation moves all the nodes, each walking node is at the *)
(* time of the server, and that is not ahead of ns-3.                      *)
(***************************************************************************)
WalkersKeepPace ==
    sim = "running" /\ mode = "P2MP" =>
        /\ simTime <= now
        /\ \A n \in DOMAIN nodeInfo \cap Walking : nodeInfo[n].updated = simTime

(***************************************************************************)
(* Every message of ns-3 is answered, so that a simulation that waits goes *)
(* on; with look-ahead the server may have failed.                         *)
(***************************************************************************)
LookupsEnd ==
    sim \in {"starting", "waiting", "closing"} /\ mode # "P2MP_LAH"
        ~> sim \in {"running", "off"} \/ mode = "P2MP_LAH"

(***************************************************************************)
(* GetPropagationLoss: "update position on mobility models to reflect node *)
(* position in Sionna".                                                    *)
(***************************************************************************)
PositionsReflectSionna ==
    Answered /\ lookup.kind = "loss" /\ lookup.miss /\ mode # "P2MP_LAH" =>
        \A n \in {lookup.a, lookup.b} : place[n] = nodeInfo[n].at
=============================================================================
