-------------------------- MODULE HandoverHome_proof --------------------------
(***************************************************************************)
(* Theorems about handovers that only the coordinator asks for (by its own *)
(* decision or by a command of the control file), built on the stages of a *)
(* handover: what the coordinator believes is so, and what each message of *)
(* a handover is about.  Home is the cell and the RNTI that the            *)
(* coordinator holds for the UE.                                           *)
(***************************************************************************)
EXTENDS HandoverStages_proof, WellFoundedInduction

-----------------------------------------------------------------------------
(***************************************************************************)
(* The coordinator's view                                                  *)
(***************************************************************************)
CoordinatorAtHome ==
    /\ last = mmCell
    /\ rntiOf[mmCell] = mmRnti
    /\ setup => State(mmCell, mmRnti) = "CONNECTED_NORMALLY"

\* Only the handover that is under way can have failed, before it completed,
\* and nobody asks for another one.
FailureIsKnown ==
    \A c \in Cells : FailedFrom(c) =>
        c = asked /\ ~setup /\ NoneOf(x2, {"McHandoverRequest"})

\* Every message of a handover is on a link from or to home, and about the UE.
Placed(l, m) ==
    /\ m.type = "McHandoverRequest" =>
           l = <<LteCell, mmCell>> /\ State(mmCell, mmRnti) = "CONNECTED_NORMALLY"
    /\ m.type = "HandoverRequest" => l[1] = mmCell /\ m.oldId = mmRnti
    /\ m.type \in {"HandoverRequestAck", "HandoverPreparationFailure"} =>
           l[2] = mmCell /\ m.oldId = mmRnti
    /\ m.type = "SecondaryCellHandoverCompleted" =>
           /\ l[1] \in Cells \ {mmCell} /\ l[2] = LteCell
           /\ m.rnti = rntiOf[l[1]] /\ m.oldId = mmRnti
           /\ State(l[1], m.rnti) = "CONNECTED_NORMALLY" \/ FailedFrom(l[1])

MessagesPlaced == \A l \in Links : \A m \in On(x2, l) : Placed(l, m)

\* A cell that has reported the arrival of the UE does not report a failure.
FailuresComeFirst ==
    \A l \in Links :
        Precedes(x2[l], "HandoverFailed", "SecondaryCellHandoverCompleted")

\* The context that waits for the UE expects it from home.
JoinersComeFromHome ==
    \A c \in Cells, r \in Rntis : State(c, r) = "HANDOVER_JOINING" =>
        c # mmCell /\ r = rntiOf[c] /\ ueMan[c][r].sourceId = mmRnti

Home ==
    /\ CoordinatorAtHome
    /\ FailureIsKnown
    /\ MessagesPlaced
    /\ FailuresComeFirst
    /\ JoinersComeFromHome

\* What the steps below start from.
Underway == TypeOK /\ HandoverToken /\ e2Event = NoEvent /\ Stages /\ Home

PlacedTypes == HandoverTypes \cup PrepTypes

-----------------------------------------------------------------------------
\* The token of the handover, in terms of what is on the links.
LEMMA TokenOn ==
    ASSUME HandoverToken
    PROVE  /\ AtMostOneOf(x2, HandoverTypes)
           /\ \A l \in Links : \A m \in On(x2, l) :
                 m.type \in HandoverTypes => MovesTo(l, m) = asked /\ ~setup
           /\ \A c \in Cells, r \in Rntis : State(c, r) = "HANDOVER_JOINING" =>
                 /\ c = asked /\ ~setup /\ ueMan[c][r].queued = NoCell
                 /\ NoneOf(x2, HandoverTypes)
  <1>1. \A net : NoHandover(net) => NoneOf(net, HandoverTypes)
    BY DEF NoHandover, NoneOf, On
  <1>2. AtMostOneOf(x2, HandoverTypes)
    BY DEF HandoverToken, AtMostOneHandover, AtMostOneOf
  <1>3. \A l \in Links : \A m \in On(x2, l) :
            m.type \in HandoverTypes => MovesTo(l, m) = asked
    BY DEF HandoverToken, HandoversGoTo, On
  <1>4. setup => NoneOf(x2, HandoverTypes)
    BY <1>1 DEF HandoverToken
  <1>5. \A c \in Cells, r \in Rntis : State(c, r) = "HANDOVER_JOINING" =>
            /\ c = asked /\ ~setup /\ ueMan[c][r].queued = NoCell
            /\ NoneOf(x2, HandoverTypes)
    BY <1>1 DEF HandoverToken, State
  <1> QED
    BY <1>2, <1>3, <1>4, <1>5 DEF NoneOf

\* While the coordinator believes that no handover is under way, none has
\* failed, and nobody hands the UE over after a failure.
LEMMA HomeFailures ==
    ASSUME Underway
    PROVE  FailureIsFinal /\ (setup => \A c \in Cells : ~FailedFrom(c))
  BY TokenOn DEF Underway, Home, FailureIsKnown, FailureIsFinal

\* A step that keeps the coordinator's view, takes nothing from a context that
\* serves the UE, and sends nothing but well-placed messages.
LEMMA HomeKept ==
    ASSUME Underway, UNCHANGED <<last, setup, mmCell, mmRnti, asked, rntiOf>>,
           \A c \in Cells, r \in Rntis : State(c, r) = "CONNECTED_NORMALLY" =>
               State(c, r)' = "CONNECTED_NORMALLY" \/ FailedFrom(c),
           \A c \in Cells, r \in Rntis : State(c, r)' = "HANDOVER_JOINING" =>
               State(c, r) = "HANDOVER_JOINING" /\ ueMan'[c][r].sourceId = ueMan[c][r].sourceId,
           \A l \in Links : \A m \in On(x2', l) :
               \/ m \in On(x2, l)
               \/ /\ m.type \notin {"McHandoverRequest", "HandoverFailed"}
                  /\ m.type \notin PlacedTypes \/ Placed(l, m)',
           \A c \in Cells : FailedFrom(c) => FailedFrom(c)',
           FailuresComeFirst'
    PROVE  Home'
  <1>1. \A c \in Cells : FailedFrom(c)' <=> FailedFrom(c)
    BY LinkTypes DEF FailedFrom, HandoverFailed, Underway
  <1>2. NoneOf(x2, {"McHandoverRequest"}) => NoneOf(x2', {"McHandoverRequest"})
    BY DEF NoneOf
  <1>3. mmCell \in Cells /\ mmRnti \in Rntis
    BY DEF Underway, TypeOK, CoordinatorType
  <1>4. CoordinatorAtHome'
    BY <1>3 DEF Underway, Home, CoordinatorAtHome, FailureIsKnown
  <1>5. FailureIsKnown'
    BY <1>1, <1>2 DEF Underway, Home, FailureIsKnown
  <1>6. JoinersComeFromHome'
    BY DEF Underway, Home, JoinersComeFromHome
  <1>7. MessagesPlaced'
    <2> SUFFICES ASSUME NEW l \in Links, NEW m \in On(x2', l) PROVE Placed(l, m)'
      BY DEF MessagesPlaced
    <2>1. CASE m \in On(x2, l)
      <3>1. Placed(l, m) /\ m \in Messages
        BY <2>1, LinkTypes DEF Underway, Home, MessagesPlaced
      <3>2. m.type = "SecondaryCellHandoverCompleted" => m.rnti \in Rntis
        BY <3>1, MessageTypes
      <3>3. m.type = "McHandoverRequest" => ~FailedFrom(mmCell)
        BY <1>3, <2>1 DEF Underway, Home, FailureIsKnown, NoneOf
      <3> QED
        BY <1>1, <1>3, <3>1, <3>2, <3>3 DEF Placed
    <2>2. CASE m.type \notin PlacedTypes
      BY <2>2 DEF Placed, PlacedTypes, HandoverTypes, PrepTypes
    <2> QED
      BY <2>1, <2>2
  <1> QED
    BY <1>4, <1>5, <1>6, <1>7 DEF Home

\* What a step that takes a message from a link leaves on the links.
LEMMA HomeTaken ==
    ASSUME Underway, NEW a, NEW b, NEW type, Arrives(x2, a, b, type),
           type # "HandoverFailed", x2' = Taken(x2, a, b)
    PROVE  /\ \A l \in Links : On(x2', l) \subseteq On(x2, l)
           /\ \A c \in Cells : FailedFrom(c) => FailedFrom(c)'
           /\ FailuresComeFirst'
  <1>0. TypeOK /\ x2 \in Networks
    BY LinkTypes DEF Underway
  <1>1. /\ <<a, b>> \in Links
        /\ \A l \in Links : On(x2', l) \subseteq On(x2, l)
        /\ \A l \in Links : \A n \in On(x2, l) : n.type # type => n \in On(x2', l)
    BY <1>0, LinkTaken
  <1>2. \A c \in Cells : FailedFrom(c) => FailedFrom(c)'
    <2>1. HandoverFailed.type # type
      BY DEF HandoverFailed
    <2>2. \A c \in Cells : <<c, LteCell>> \in Links
      BY <1>0, LinkTypes
    <2> QED
      BY <1>1, <2>1, <2>2 DEF FailedFrom
  <1>3. FailuresComeFirst'
    <2>1. x2[<<a, b>>] # <<>>
      BY DEF Arrives
    <2> QED
      BY <1>0, <1>1, <2>1, TakenKeepsOrder DEF Underway, Home, FailuresComeFirst
  <1> QED
    BY <1>1, <1>2, <1>3

\* What a step that sends a message leaves on the links.
LEMMA HomeSent ==
    ASSUME Underway, NEW a, NEW b, <<a, b>> \in Links, NEW m \in Messages,
           m.type # "HandoverFailed", x2' = Sent(x2, a, b, m)
    PROVE  /\ \A l \in Links : \A n \in On(x2', l) :
                 n \in On(x2, l) \/ (l = <<a, b>> /\ n = m)
           /\ \A c \in Cells : FailedFrom(c) => FailedFrom(c)'
           /\ FailuresComeFirst'
  <1>0. TypeOK /\ x2 \in Networks /\ \A c \in Cells : <<c, LteCell>> \in Links
    BY LinkTypes DEF Underway
  <1>1. /\ \A l \in Links : On(x2, l) \subseteq On(x2', l)
        /\ \A l \in Links : \A n \in On(x2', l) :
                 n \in On(x2, l) \/ (l = <<a, b>> /\ n = m)
    BY <1>0, OnSent
  <1>2. \A c \in Cells : FailedFrom(c) => FailedFrom(c)'
    BY <1>0, <1>1 DEF FailedFrom
  <1>3. FailuresComeFirst'
    <2>1. /\ "HandoverFailed" # "SecondaryCellHandoverCompleted"
          /\ \A l \in Links : Precedes(x2[l], "HandoverFailed",
                                       "SecondaryCellHandoverCompleted")
      BY DEF Underway, Home, FailuresComeFirst
    <2> QED
      BY <1>0, <2>1, SentKeepsOrder DEF FailuresComeFirst
  <1> QED
    BY <1>1, <1>2, <1>3

-----------------------------------------------------------------------------
\* Steps that neither touch a context nor a link.
LEMMA HomeStill ==
    ASSUME Underway, UNCHANGED <<view, ueMan, rntiOf, x2>>
    PROVE  Home'
  <1>1. /\ FailuresComeFirst' /\ \A c \in Cells : FailedFrom(c) => FailedFrom(c)'
    BY DEF Underway, Home, FailuresComeFirst, FailedFrom
  <1> QED
    BY <1>1, HomeKept DEF State, view

\* The coordinator tells home that the UE is on LTE.
LEMMA HomeSwitchedOff ==
    ASSUME Underway, SwitchedOff
    PROVE  Home'
  <1>1. /\ SwitchConnection(mmRnti) \in Messages
        /\ SwitchConnection(mmRnti).type = "SwitchConnection"
        /\ mmCell \in Cells
    BY DEF Underway, TypeOK, CoordinatorType, Messages, SwitchConnection
  <1>2. <<LteCell, mmCell>> \in Links
    BY <1>1, LinkTypes DEF Underway
  <1>3. /\ \A l \in Links : \A n \in On(x2', l) :
               n \in On(x2, l) \/ (l = <<LteCell, mmCell>> /\ n = SwitchConnection(mmRnti))
        /\ \A c \in Cells : FailedFrom(c) => FailedFrom(c)'
        /\ FailuresComeFirst'
    BY <1>1, <1>2, HomeSent DEF SwitchedOff
  <1> QED
    BY <1>1, <1>3, HomeKept DEF SwitchedOff, view, contexts, State, PlacedTypes,
                                HandoverTypes, PrepTypes

\* Home lets the UE go.
LEMMA HomeLeft ==
    ASSUME Underway, NEW a \in Cells, NEW c \in Cells, NEW r \in Rntis,
           NEW m, Left(a, c, r, m)
    PROVE  Home'
  <1>0. TypeOK /\ Stages
    BY DEF Underway
  <1>1. /\ Arrives(x2, a, c, "HandoverRequestAck") /\ m = Head(x2[<<a, c>>])
        /\ r = m.oldId /\ x2' = Taken(x2, a, c)
        /\ UNCHANGED <<last, setup, mmCell, mmRnti, asked, rntiOf>>
        /\ ChangesState(c, r, "HANDOVER_LEAVING")
    BY DEF Left, view, ChangesState
  <1>2. State(c, r) = "HANDOVER_PREPARATION"
    BY <1>0, <1>1, LinkEmptied
  <1>3. /\ \A l \in Links : On(x2', l) \subseteq On(x2, l)
        /\ \A d \in Cells : FailedFrom(d) => FailedFrom(d)'
        /\ FailuresComeFirst'
    BY <1>1, HomeTaken
  <1>4. /\ State(c, r)' = "HANDOVER_LEAVING"
        /\ \A d \in Cells, q \in Rntis : <<d, q>> # <<c, r>> => ueMan'[d][q] = ueMan[d][q]
    BY <1>0, <1>1, OneState
  <1> QED
    BY <1>1, <1>2, <1>3, <1>4, HomeKept DEF State

\* Home takes the UE back.
LEMMA HomeResumed ==
    ASSUME Underway, NEW a \in Cells, NEW c \in Cells, NEW r \in Rntis, Resumed(a, c, r)
    PROVE  Home'
  <1>0. TypeOK /\ Stages
    BY DEF Underway
  <1>1. /\ Arrives(x2, a, c, "HandoverPreparationFailure") /\ r = Head(x2[<<a, c>>]).oldId
        /\ x2' = Taken(x2, a, c)
        /\ UNCHANGED <<last, setup, mmCell, mmRnti, asked, rntiOf>>
    BY DEF Resumed, view
  <1>2. State(c, r) = "HANDOVER_PREPARATION"
    BY <1>0, <1>1, LinkEmptied
  <1>3. /\ \A l \in Links : On(x2', l) \subseteq On(x2, l)
        /\ \A d \in Cells : FailedFrom(d) => FailedFrom(d)'
        /\ FailuresComeFirst'
    BY <1>1, HomeTaken
  <1>4. ChangesState(c, r, "CONNECTED_NORMALLY")
    BY <1>2 DEF Resumed, ChangesState
  <1>5. /\ State(c, r)' = "CONNECTED_NORMALLY"
        /\ \A d \in Cells, q \in Rntis : <<d, q>> # <<c, r>> => ueMan'[d][q] = ueMan[d][q]
    BY <1>0, <1>4, OneState
  <1> QED
    BY <1>1, <1>2, <1>3, <1>5, HomeKept DEF State

\* The old context of a handover is removed.
LEMMA HomeReleased ==
    ASSUME Underway, NEW c \in Cells, NEW r \in Rntis, Released(c, r)
    PROVE  Home'
  <1>0. TypeOK
    BY DEF Underway
  <1>1. /\ Arrives(x2, LteCell, c, "UeContextRelease") /\ x2' = Taken(x2, LteCell, c)
        /\ UNCHANGED <<last, setup, mmCell, mmRnti, asked, rntiOf>>
        /\ State(c, r) = "HANDOVER_LEAVING" /\ ueMan' = [ueMan EXCEPT ![c][r] = NoContext]
    BY DEF Released, view, RemoveUe
  <1>2. /\ \A l \in Links : On(x2', l) \subseteq On(x2, l)
        /\ \A d \in Cells : FailedFrom(d) => FailedFrom(d)'
        /\ FailuresComeFirst'
    BY <1>1, HomeTaken
  <1>3. /\ State(c, r)' = "NONE"
        /\ \A d \in Cells, q \in Rntis : <<d, q>> # <<c, r>> => ueMan'[d][q] = ueMan[d][q]
    BY <1>0, <1>1, ContextsAre DEF State, NoContext
  <1> QED
    BY <1>1, <1>2, <1>3, HomeKept DEF State

\* A context hears that the UE is on LTE.
LEMMA HomeForwarding ==
    ASSUME Underway, NEW c \in Cells, NEW r \in Rntis, Forwarding(c, r)
    PROVE  Home'
  <1>0. TypeOK
    BY DEF Underway
  <1>1. /\ Arrives(x2, LteCell, c, "SwitchConnection") /\ x2' = Taken(x2, LteCell, c)
        /\ UNCHANGED <<last, setup, mmCell, mmRnti, asked, rntiOf>>
    BY DEF Forwarding, view
  <1>2. /\ \A l \in Links : On(x2', l) \subseteq On(x2, l)
        /\ \A d \in Cells : FailedFrom(d) => FailedFrom(d)'
        /\ FailuresComeFirst'
    BY <1>1, HomeTaken
  <1>3. \A d \in Cells, q \in Rntis :
            State(d, q)' = State(d, q) /\ ueMan'[d][q].sourceId = ueMan[d][q].sourceId
    <2> DEFINE x == [ueMan[c][r] EXCEPT !.target = LteCell]
    <2>1. x.state = ueMan[c][r].state /\ x.sourceId = ueMan[c][r].sourceId
      BY <1>0, ContextsAre DEF Contexts
    <2>2. ueMan' = [ueMan EXCEPT ![c][r] = x]
      BY DEF Forwarding
    <2> HIDE DEF x
    <2>3. /\ ueMan'[c][r] = x
          /\ \A d \in Cells, q \in Rntis : <<d, q>> # <<c, r>> => ueMan'[d][q] = ueMan[d][q]
      BY <1>0, <2>2, ContextsAre
    <2> QED
      BY <2>1, <2>3 DEF State
  <1> QED
    BY <1>1, <1>2, <1>3, HomeKept

\* A timer removes a context: one that is being left, or one of the failed
\* handover.
LEMMA HomeRemoved ==
    ASSUME Underway, NEW c \in Cells, NEW r \in Rntis, Removed(c, r)
    PROVE  Home'
  <1>0. TypeOK /\ Stages
    BY DEF Underway
  <1>1. /\ x2' = x2 /\ UNCHANGED <<last, setup, mmCell, mmRnti, asked, rntiOf>>
        /\ ueMan' = [ueMan EXCEPT ![c][r] = NoContext]
    BY DEF Removed, view, RemoveUe
  <1>2. State(c, r) = "CONNECTED_NORMALLY" => FailedFrom(c)
    BY <1>0 DEF Removed, Stages, FailuresEndHandovers
  <1>3. /\ \A d \in Cells : FailedFrom(d) => FailedFrom(d)'
        /\ FailuresComeFirst'
    BY <1>1 DEF Underway, Home, FailuresComeFirst, FailedFrom
  <1>4. /\ State(c, r)' = "NONE"
        /\ \A d \in Cells, q \in Rntis : <<d, q>> # <<c, r>> => ueMan'[d][q] = ueMan[d][q]
    BY <1>0, <1>1, ContextsAre DEF State, NoContext
  <1> QED
    BY <1>1, <1>2, <1>3, <1>4, HomeKept DEF State

\* The UE arrives, and its cell reports that to the coordinator.
LEMMA HomeJoined ==
    ASSUME Underway, NEW c \in Cells, NEW r \in Rntis, Joined(c, r)
    PROVE  Home'
  <1>0. TypeOK /\ Stages
    BY DEF Underway
  <1>m. PICK m : m = SecondaryCellHandoverCompleted(ueMan[c][r].sourceId, r)
    OBVIOUS
  <1>1. /\ State(c, r) = "HANDOVER_JOINING" /\ x2' = Sent(x2, c, LteCell, m)
        /\ UNCHANGED <<last, setup, mmCell, mmRnti, asked, rntiOf>>
        /\ ChangesState(c, r, "CONNECTED_NORMALLY")
    BY <1>m DEF Joined, view, ChangesState
  <1>2. c # mmCell /\ r = rntiOf[c] /\ ueMan[c][r].sourceId = mmRnti
    BY <1>1 DEF Underway, Home, JoinersComeFromHome
  <1>3. /\ m \in Messages /\ m.type = "SecondaryCellHandoverCompleted"
        /\ m.oldId = mmRnti /\ m.rnti = r
    <2>1. mmRnti \in Rntis
      BY <1>0 DEF TypeOK, CoordinatorType
    <2>2. m \in Messages
      BY <1>m, <1>2, <2>1 DEF Messages
    <2> QED
      BY <1>m, <1>2, <2>2 DEF SecondaryCellHandoverCompleted
  <1>4. <<c, LteCell>> \in Links
    BY <1>0, LinkTypes
  <1>5. /\ \A l \in Links : \A n \in On(x2', l) :
               n \in On(x2, l) \/ (l = <<c, LteCell>> /\ n = m)
        /\ \A d \in Cells : FailedFrom(d) => FailedFrom(d)'
        /\ FailuresComeFirst'
    BY <1>1, <1>3, <1>4, HomeSent
  <1>6. /\ State(c, r)' = "CONNECTED_NORMALLY"
        /\ \A d \in Cells, q \in Rntis : <<d, q>> # <<c, r>> => ueMan'[d][q] = ueMan[d][q]
    BY <1>0, <1>1, OneState
  <1>7. Placed(<<c, LteCell>>, m)'
    BY <1>1, <1>2, <1>3, <1>6 DEF Placed
  <1> QED
    BY <1>1, <1>3, <1>5, <1>6, <1>7, HomeKept DEF State
-----------------------------------------------------------------------------
\* With no handover on the links there is no completion that a failure could
\* follow.
LEMMA NoCompletion ==
    ASSUME NoneOf(x2', HandoverTypes)
    PROVE  FailuresComeFirst'
  BY DEF NoneOf, On, FailuresComeFirst, Precedes, HandoverTypes

\* A cell answers the request of home: the handover is in the answer.
LEMMA HomeAnswered ==
    ASSUME Underway, NEW a \in Cells, NEW c \in Cells, NEW m \in Messages,
           Arrives(x2, a, c, "HandoverRequest"),
           m.type \in {"HandoverRequestAck", "HandoverPreparationFailure"},
           x2' = Sent(Taken(x2, a, c), c, a, m)
    PROVE  /\ a = mmCell /\ c # mmCell /\ Head(x2[<<a, c>>]).oldId = mmRnti
           /\ \A l \in Links : \A n \in On(x2', l) :
                 /\ n \in On(x2, l) \/ (l = <<c, a>> /\ n = m)
                 /\ n.type \notin HandoverTypes
           /\ NoneOf(x2', HandoverTypes)
           /\ \A d \in Cells : ~FailedFrom(d) /\ ~FailedFrom(d)'
           /\ \A d \in Cells, s \in Rntis :
                 State(d, s) \notin {"HANDOVER_JOINING", "CONNECTED_NORMALLY"}
  <1>0. TypeOK /\ Stages
    BY DEF Underway
  <1> DEFINE req == Head(x2[<<a, c>>])
             net == Taken(x2, a, c)
  <1>1. /\ <<a, c>> \in Links /\ <<c, a>> \in Links /\ req \in On(x2, <<a, c>>)
        /\ req.type = "HandoverRequest" /\ net \in Networks
        /\ NoneOf(net, HandoverTypes)
    <2>1. AtMostOneOf(x2, HandoverTypes) /\ "HandoverRequest" \in HandoverTypes
      BY TokenOn DEF Underway, HandoverTypes
    <2> QED
      BY <1>0, <2>1, LinkTaken DEF Links
  <1>2. a = mmCell /\ c # mmCell /\ req.oldId = mmRnti
    <2>1. Placed(<<a, c>>, req)
      BY <1>1 DEF Underway, Home, MessagesPlaced
    <2> QED
      BY <1>1, <2>1 DEF Placed, Links
  <1>3. x2' = Sent(net, c, a, m)
    OBVIOUS
  <1> HIDE DEF req, net
  <1>4. \A l \in Links : \A n \in On(x2', l) : n \in On(net, l) \/ n = m
    BY <1>1, <1>3, OnSent
  <1>5. \A l \in Links : \A n \in On(x2', l) : n.type \notin HandoverTypes
    BY <1>1, <1>4 DEF NoneOf, HandoverTypes
  <1>6. /\ \A l \in Links : \A n \in On(x2', l) : n \in On(x2, l) \/ (l = <<c, a>> /\ n = m)
        /\ \A d \in Cells : ~FailedFrom(d) /\ ~FailedFrom(d)'
        /\ \A d \in Cells, s \in Rntis :
              State(d, s) \notin {"HANDOVER_JOINING", "CONNECTED_NORMALLY"}
    BY <1>0, LinkAnswered
  <1> QED
    BY <1>2, <1>5, <1>6 DEF req, NoneOf

\* The request is rejected.
LEMMA HomeRejected ==
    ASSUME Underway, NEW a \in Cells, NEW c \in Cells, Rejected(a, c)
    PROVE  Home'
  <1>0. TypeOK
    BY DEF Underway
  <1>m. PICK m : m = HandoverPreparationFailure(Head(x2[<<a, c>>]).oldId)
    OBVIOUS
  <1>1. /\ Arrives(x2, a, c, "HandoverRequest") /\ x2' = Sent(Taken(x2, a, c), c, a, m)
        /\ UNCHANGED <<last, setup, mmCell, mmRnti, asked, rntiOf, ueMan>>
    BY <1>m DEF Rejected, view, contexts
  <1>2. /\ m \in Messages /\ m.type = "HandoverPreparationFailure"
        /\ m.oldId = Head(x2[<<a, c>>]).oldId
    <2>1. Head(x2[<<a, c>>]).oldId \in Rntis
      BY <1>0, <1>1, LinkTaken, MessageTypes
    <2>2. m \in Messages
      BY <1>m, <2>1 DEF Messages
    <2> QED
      BY <1>m, <2>2 DEF HandoverPreparationFailure
  <1>3. /\ a = mmCell /\ m.oldId = mmRnti /\ NoneOf(x2', HandoverTypes)
        /\ \A l \in Links : \A n \in On(x2', l) : n \in On(x2, l) \/ (l = <<c, a>> /\ n = m)
        /\ \A d \in Cells : ~FailedFrom(d)
    BY <1>1, <1>2, HomeAnswered
  <1>4. Placed(<<c, a>>, m)'
    BY <1>1, <1>2, <1>3 DEF Placed
  <1>5. FailuresComeFirst'
    BY <1>3, NoCompletion
  <1> QED
    BY <1>1, <1>2, <1>3, <1>4, <1>5, HomeKept DEF State

\* The request is granted: the context that waits for the UE is the last one
\* of its cell, and expects the UE from home.
LEMMA HomeAdmitted ==
    ASSUME Underway, NEW a \in Cells, NEW c \in Cells, NEW r \in Rntis, Admitted(a, c, r)
    PROVE  Home'
  <1>0. TypeOK /\ setup \in BOOLEAN
    BY DEF Underway, TypeOK, CoordinatorType
  <1>m. PICK m : m = HandoverRequestAck(Head(x2[<<a, c>>]).oldId, r)
    OBVIOUS
  <1>x. PICK x : x = JoiningContext(a, Head(x2[<<a, c>>]))
    OBVIOUS
  <1>1. /\ Arrives(x2, a, c, "HandoverRequest") /\ x2' = Sent(Taken(x2, a, c), c, a, m)
        /\ UNCHANGED <<last, setup, mmCell, mmRnti, asked>>
        /\ rntiOf' = [rntiOf EXCEPT ![c] = r]
        /\ ueMan' = [ueMan EXCEPT ![c][r] = x]
    BY <1>m, <1>x DEF Admitted, view
  <1>2. /\ m \in Messages /\ m.type = "HandoverRequestAck"
        /\ m.oldId = Head(x2[<<a, c>>]).oldId
    <2>1. Head(x2[<<a, c>>]).oldId \in Rntis
      BY <1>0, <1>1, LinkTaken, MessageTypes
    <2>2. m \in Messages
      BY <1>m, <2>1 DEF Messages
    <2> QED
      BY <1>m, <2>2 DEF HandoverRequestAck
  <1>3. /\ a = mmCell /\ c # mmCell /\ Head(x2[<<a, c>>]).oldId = mmRnti
        /\ NoneOf(x2', HandoverTypes)
        /\ \A l \in Links : \A n \in On(x2', l) :
              /\ n \in On(x2, l) \/ (l = <<c, a>> /\ n = m)
              /\ n.type \notin HandoverTypes
        /\ \A d \in Cells : ~FailedFrom(d)'
        /\ \A d \in Cells, s \in Rntis :
              State(d, s) \notin {"HANDOVER_JOINING", "CONNECTED_NORMALLY"}
    BY <1>1, <1>2, HomeAnswered
  <1>4. x.state = "HANDOVER_JOINING" /\ x.sourceId = mmRnti
    BY <1>x, <1>3 DEF JoiningContext
  <1>5. /\ ueMan'[c][r] = x
        /\ \A d \in Cells, q \in Rntis : <<d, q>> # <<c, r>> => ueMan'[d][q] = ueMan[d][q]
        /\ rntiOf'[c] = r /\ \A d \in Cells : d # c => rntiOf'[d] = rntiOf[d]
    BY <1>0, <1>1, ContextsAre DEF TypeOK, ContextsType
  <1>6. mmCell \in Cells /\ mmRnti \in Rntis
    BY <1>0 DEF TypeOK, CoordinatorType
  <1>7. CoordinatorAtHome'
    <2>1. last = mmCell /\ rntiOf[mmCell] = mmRnti /\ ~setup
      BY <1>3, <1>6 DEF Underway, Home, CoordinatorAtHome
    <2> QED
      BY <1>1, <1>3, <1>5, <1>6, <2>1 DEF CoordinatorAtHome
  <1>8. FailureIsKnown'
    BY <1>3 DEF FailureIsKnown
  <1>9. MessagesPlaced'
    <2> SUFFICES ASSUME NEW l \in Links, NEW n \in On(x2', l) PROVE Placed(l, n)'
      BY DEF MessagesPlaced
    <2>1. n.type \notin HandoverTypes
      BY <1>3
    <2>2. CASE n \in On(x2, l)
      <3>1. Placed(l, n)
        BY <2>2 DEF Underway, Home, MessagesPlaced
      <3> QED
        BY <1>1, <2>1, <3>1 DEF Placed, HandoverTypes
    <2>3. CASE l = <<c, a>> /\ n = m
      BY <1>1, <1>2, <1>3, <2>3 DEF Placed
    <2> QED
      BY <1>3, <2>2, <2>3
  <1>10. FailuresComeFirst'
    BY <1>3, NoCompletion
  <1>11. JoinersComeFromHome'
    BY <1>1, <1>3, <1>4, <1>5 DEF JoinersComeFromHome, State
  <1> QED
    BY <1>7, <1>8, <1>9, <1>10, <1>11 DEF Home
-----------------------------------------------------------------------------
\* The coordinator's request reaches home, and nobody else.
LEMMA HomeRequested ==
    ASSUME Underway, NEW c \in Cells, NEW net, MayPrepare(c, net)
    PROVE  /\ c = mmCell /\ rntiOf[c] = mmRnti /\ ~setup
           /\ State(mmCell, mmRnti) = "CONNECTED_NORMALLY"
           /\ net \in Networks /\ NoneOf(net, HandoverTypes)
           /\ \A l \in Links : On(net, l) \subseteq On(x2, l)
           /\ \A d \in Cells : ~FailedFrom(d)
           /\ \A d \in Cells, s \in Rntis : State(d, s) # "HANDOVER_JOINING"
  <1>0. TypeOK
    BY DEF Underway
  <1>1. Arrives(x2, LteCell, c, "McHandoverRequest") /\ net = Taken(x2, LteCell, c)
    BY DEF Underway, MayPrepare
  <1> DEFINE m == Head(x2[<<LteCell, c>>])
  <1>2. /\ <<LteCell, c>> \in Links /\ m \in On(x2, <<LteCell, c>>)
        /\ m.type = "McHandoverRequest" /\ net \in Networks
        /\ \A l \in Links : On(net, l) \subseteq On(x2, l)
        /\ NoneOf(net, HandoverTypes)
    <2>1. AtMostOneOf(x2, HandoverTypes) /\ "McHandoverRequest" \in HandoverTypes
      BY TokenOn DEF Underway, HandoverTypes
    <2> QED
      BY <1>0, <1>1, <2>1, LinkTaken
  <1> HIDE DEF m
  <1>3. Placed(<<LteCell, c>>, m)
    BY <1>2 DEF Underway, Home, MessagesPlaced
  <1>4. c = mmCell /\ State(mmCell, mmRnti) = "CONNECTED_NORMALLY"
    BY <1>2, <1>3 DEF Placed
  <1>5. ~setup /\ \A d \in Cells, s \in Rntis : State(d, s) # "HANDOVER_JOINING"
    BY <1>2, TokenOn DEF Underway, HandoverTypes, NoneOf
  <1>6. \A d \in Cells : ~FailedFrom(d)
    BY <1>2 DEF Underway, Home, FailureIsKnown, NoneOf
  <1> QED
    BY <1>2, <1>4, <1>5, <1>6 DEF Underway, Home, CoordinatorAtHome

\* Home asks a cell to admit the UE.
LEMMA HomePrepared ==
    ASSUME Underway, NEW c \in Cells, NEW t \in Cells, NEW r \in Rntis, NEW net,
           Prepared(c, r, t, net)
    PROVE  Home'
  <1>0. TypeOK
    BY DEF Underway
  <1>m. PICK m : m = HandoverRequest(r, ueMan[c][r].rlcRequests)
    OBVIOUS
  <1>1. /\ MayPrepare(c, net) /\ r = rntiOf[c] /\ <<c, t>> \in Links
        /\ x2' = Sent(net, c, t, m)
        /\ UNCHANGED <<last, setup, mmCell, mmRnti, asked, rntiOf>>
    BY <1>m DEF Prepared, view
  <1>2. /\ c = mmCell /\ r = mmRnti /\ ~setup /\ net \in Networks
        /\ NoneOf(net, HandoverTypes) /\ \A l \in Links : On(net, l) \subseteq On(x2, l)
        /\ \A d \in Cells : ~FailedFrom(d)
        /\ \A d \in Cells, s \in Rntis : State(d, s) # "HANDOVER_JOINING"
    BY <1>1, HomeRequested
  <1>3. m \in Messages /\ m.type = "HandoverRequest" /\ m.oldId = r
    <2>1. ueMan[c][r].rlcRequests \in SUBSET Drbs
      BY <1>0, ContextsAre DEF Contexts
    <2>2. m \in Messages
      BY <1>m, <2>1 DEF Messages
    <2> QED
      BY <1>m, <2>2 DEF HandoverRequest
  <1>4. \A l \in Links : \A n \in On(x2', l) :
            \/ n \in On(x2, l) /\ n.type \notin HandoverTypes
            \/ l = <<c, t>> /\ n = m
    <2>1. \A l \in Links : \A n \in On(x2', l) :
              n \in On(net, l) \/ (l = <<c, t>> /\ n = m)
      BY <1>1, <1>2, <1>3, OnSent
    <2> QED
      BY <1>2, <2>1 DEF NoneOf
  <1>5. /\ State(c, r)' = "HANDOVER_PREPARATION"
        /\ \A d \in Cells, q \in Rntis : <<d, q>> # <<c, r>> => ueMan'[d][q] = ueMan[d][q]
    <2> DEFINE x == [ueMan[c][r] EXCEPT !.state = "HANDOVER_PREPARATION",
                                        !.target = t, !.rlcRequests = {}]
    <2>1. x.state = "HANDOVER_PREPARATION"
      BY <1>0, ContextsAre DEF Contexts
    <2>2. ueMan' = [ueMan EXCEPT ![c][r] = x]
      BY DEF Prepared
    <2> HIDE DEF x
    <2> QED
      BY <1>0, <2>1, <2>2, ContextsAre DEF State
  <1>6. CoordinatorAtHome'
    BY <1>1, <1>2 DEF Underway, Home, CoordinatorAtHome
  <1>7. FailureIsKnown'
    <2>0. \A d \in Cells : <<d, LteCell>> \in Links
      BY <1>0, LinkTypes
    <2>1. m # HandoverFailed
      BY <1>3 DEF HandoverFailed
    <2>2. \A d \in Cells : ~FailedFrom(d)'
      BY <1>2, <1>4, <2>0, <2>1 DEF FailedFrom
    <2> QED
      BY <2>2 DEF FailureIsKnown
  <1>8. MessagesPlaced'
    <2> SUFFICES ASSUME NEW l \in Links, NEW n \in On(x2', l) PROVE Placed(l, n)'
      BY DEF MessagesPlaced
    <2>1. CASE n \in On(x2, l) /\ n.type \notin HandoverTypes
      <3>1. Placed(l, n)
        BY <2>1 DEF Underway, Home, MessagesPlaced
      <3> QED
        BY <1>1, <2>1, <3>1 DEF Placed, HandoverTypes
    <2>2. CASE l = <<c, t>> /\ n = m
      BY <1>1, <1>2, <1>3, <2>2 DEF Placed
    <2> QED
      BY <1>4, <2>1, <2>2
  <1>9. FailuresComeFirst'
    <2>1. \A l \in Links : \A n \in On(x2', l) :
              n.type # "SecondaryCellHandoverCompleted"
      BY <1>3, <1>4 DEF HandoverTypes
    <2> QED
      BY <2>1 DEF FailuresComeFirst, Precedes, On
  <1>10. JoinersComeFromHome'
    BY <1>2, <1>5 DEF JoinersComeFromHome, State
  <1> QED
    BY <1>6, <1>7, <1>8, <1>9, <1>10 DEF Home

\* The coordinator asks home for a handover.
LEMMA HomeAsked ==
    ASSUME Underway, NEW t \in Cells, Asked(t)
    PROVE  Home'
  <1>0. TypeOK /\ x2 \in Networks /\ \A d \in Cells : <<d, LteCell>> \in Links
    BY LinkTypes DEF Underway
  <1>m. PICK m : m = McHandoverRequest(t)
    OBVIOUS
  <1>1. /\ setup /\ setup' = FALSE /\ x2' = Sent(x2, LteCell, last, m)
        /\ UNCHANGED <<last, mmCell, mmRnti, rntiOf, ueMan>>
    BY <1>m DEF Asked, RequestHandover, contexts
  <1>2. /\ last = mmCell /\ rntiOf[mmCell] = mmRnti
        /\ State(mmCell, mmRnti) = "CONNECTED_NORMALLY" /\ mmCell \in Cells
    BY <1>0, <1>1 DEF Underway, Home, CoordinatorAtHome, TypeOK, CoordinatorType
  <1>3. m \in Messages /\ m.type = "McHandoverRequest"
    BY <1>m DEF Messages, McHandoverRequest
  <1>4. /\ \A d \in Cells : ~FailedFrom(d)
        /\ \A l \in Links : \A n \in On(x2, l) : n.type \notin HandoverTypes
        /\ \A d \in Cells, s \in Rntis : State(d, s) # "HANDOVER_JOINING"
    BY <1>1, TokenOn, HomeFailures DEF Underway
  <1>5. \A l \in Links : \A n \in On(x2', l) :
            \/ n \in On(x2, l) /\ n.type \notin HandoverTypes
            \/ l = <<LteCell, mmCell>> /\ n = m
    <2>1. <<LteCell, mmCell>> \in Links
      BY <1>0, <1>2, LinkTypes
    <2> QED
      BY <1>0, <1>1, <1>2, <1>3, <1>4, <2>1, OnSent
  <1>6. CoordinatorAtHome'
    BY <1>1, <1>2 DEF CoordinatorAtHome
  <1>7. FailureIsKnown'
    <2>1. m # HandoverFailed
      BY <1>3 DEF HandoverFailed
    <2>2. \A d \in Cells : ~FailedFrom(d)'
      BY <1>0, <1>4, <1>5, <2>1 DEF FailedFrom
    <2> QED
      BY <2>2 DEF FailureIsKnown
  <1>8. MessagesPlaced'
    <2> SUFFICES ASSUME NEW l \in Links, NEW n \in On(x2', l) PROVE Placed(l, n)'
      BY DEF MessagesPlaced
    <2>1. CASE n \in On(x2, l) /\ n.type \notin HandoverTypes
      <3>1. Placed(l, n)
        BY <2>1 DEF Underway, Home, MessagesPlaced
      <3> QED
        BY <1>1, <2>1, <3>1 DEF Placed, HandoverTypes
    <2>2. CASE l = <<LteCell, mmCell>> /\ n = m
      BY <1>1, <1>2, <1>3, <2>2 DEF Placed, State
    <2> QED
      BY <1>5, <2>1, <2>2
  <1>9. FailuresComeFirst'
    <2>1. \A l \in Links : \A n \in On(x2', l) :
              n.type # "SecondaryCellHandoverCompleted"
      BY <1>3, <1>5 DEF HandoverTypes
    <2> QED
      BY <2>1 DEF FailuresComeFirst, Precedes, On
  <1>10. JoinersComeFromHome'
    BY <1>1, <1>4 DEF JoinersComeFromHome, State
  <1> QED
    BY <1>6, <1>7, <1>8, <1>9, <1>10 DEF Home

\* A cell gives up waiting for the UE.
LEMMA HomeExpired ==
    ASSUME Underway, NEW c \in Cells, NEW r \in Rntis, JoiningExpired(c, r)
    PROVE  Home'
  <1>0. TypeOK /\ x2 \in Networks /\ \A d \in Cells : <<d, LteCell>> \in Links
    BY LinkTypes DEF Underway
  <1>1. /\ State(c, r) = "HANDOVER_JOINING" /\ x2' = Sent(x2, c, LteCell, HandoverFailed)
        /\ UNCHANGED <<last, setup, mmCell, mmRnti, asked, rntiOf, ueMan>>
    BY DEF JoiningExpired, view
  <1>2. c = asked /\ ~setup /\ NoneOf(x2, HandoverTypes)
    BY <1>1, TokenOn DEF Underway
  <1>3. HandoverFailed \in Messages /\ HandoverFailed.type = "HandoverFailed"
    BY DEF Messages, HandoverFailed
  <1>4. /\ \A l \in Links : On(x2, l) \subseteq On(x2', l)
        /\ \A l \in Links : \A n \in On(x2', l) :
              n \in On(x2, l) \/ (l = <<c, LteCell>> /\ n = HandoverFailed)
    BY <1>0, <1>1, <1>3, OnSent
  <1>5. NoneOf(x2', HandoverTypes)
    BY <1>2, <1>3, <1>4 DEF NoneOf, HandoverTypes
  <1>6. \A d \in Cells : FailedFrom(d) => FailedFrom(d)'
    BY <1>0, <1>4 DEF FailedFrom
  <1>7. \A d \in Cells : FailedFrom(d)' => d = asked
    <2>1. \A d \in Cells : FailedFrom(d)' => FailedFrom(d) \/ d = c
      BY <1>0, <1>4 DEF FailedFrom
    <2> QED
      BY <1>2, <2>1 DEF Underway, Home, FailureIsKnown
  <1>8. CoordinatorAtHome'
    BY <1>1, <1>2 DEF Underway, Home, CoordinatorAtHome
  <1>9. FailureIsKnown'
    BY <1>1, <1>2, <1>5, <1>7 DEF FailureIsKnown, NoneOf, HandoverTypes
  <1>10. MessagesPlaced'
    <2> SUFFICES ASSUME NEW l \in Links, NEW n \in On(x2', l) PROVE Placed(l, n)'
      BY DEF MessagesPlaced
    <2>1. n.type \notin HandoverTypes
      BY <1>5 DEF NoneOf
    <2>2. CASE n \in On(x2, l)
      <3>1. Placed(l, n)
        BY <2>2 DEF Underway, Home, MessagesPlaced
      <3> QED
        BY <1>1, <2>1, <3>1 DEF Placed, HandoverTypes
    <2>3. CASE n = HandoverFailed
      BY <1>3, <2>3 DEF Placed
    <2> QED
      BY <1>4, <2>2, <2>3
  <1>11. FailuresComeFirst'
    BY <1>5, NoCompletion
  <1>12. JoinersComeFromHome'
    BY <1>1 DEF Underway, Home, JoinersComeFromHome, State
  <1> QED
    BY <1>8, <1>9, <1>10, <1>11, <1>12 DEF Home

\* The coordinator hears that the UE has arrived in cell c: that cell serves
\* the UE, no other one waits for it or has failed, and nothing is prepared.
LEMMA CompletionArrives ==
    ASSUME Underway, NEW c \in Cells, NEW m,
           Arrives(x2, c, LteCell, "SecondaryCellHandoverCompleted"),
           m = Head(x2[<<c, LteCell>>])
    PROVE  /\ m.rnti = rntiOf[c] /\ m.rnti \in Rntis
           /\ m.oldId = mmRnti /\ c # mmCell /\ c = asked /\ ~setup
           /\ State(c, m.rnti) = "CONNECTED_NORMALLY"
           /\ NoneOf(x2, PrepTypes)
           /\ \A d \in Cells : ~FailedFrom(d)
           /\ \A d \in Cells, s \in Rntis : State(d, s) # "HANDOVER_JOINING"
           /\ \A l \in Links : \A n \in On(x2, l) :
                 n.type \in HandoverTypes => l = <<c, LteCell>> /\ n = m
  <1>0. TypeOK /\ Stages
    BY DEF Underway
  <1>1. /\ <<c, LteCell>> \in Links /\ m \in On(x2, <<c, LteCell>>)
        /\ m \in Messages /\ m.type = "SecondaryCellHandoverCompleted"
        /\ x2[<<c, LteCell>>] \in Seq(Messages) /\ x2[<<c, LteCell>>] # <<>>
    BY <1>0, LinkTypes, LinkTaken, ArrivesType
  <1>2. Placed(<<c, LteCell>>, m) /\ m.rnti \in Rntis
    BY <1>1, MessageTypes DEF Underway, Home, MessagesPlaced
  <1>3. /\ m.rnti = rntiOf[c] /\ m.oldId = mmRnti /\ c # mmCell
        /\ State(c, m.rnti) = "CONNECTED_NORMALLY" \/ FailedFrom(c)
    BY <1>1, <1>2 DEF Placed
  <1>4. c = asked /\ ~setup
    <2>1. MovesTo(<<c, LteCell>>, m) = c
      BY <1>1 DEF MovesTo
    <2> QED
      BY <1>1, <2>1, TokenOn DEF Underway, HandoverTypes
  <1>5. ~FailedFrom(c)
    <2>1. SUFFICES ASSUME FailedFrom(c) PROVE FALSE
      OBVIOUS
    <2>2. PICK i \in 1 .. Len(x2[<<c, LteCell>>]) : x2[<<c, LteCell>>][i] = HandoverFailed
      BY <2>1 DEF FailedFrom, On
    <2>3. Precedes(x2[<<c, LteCell>>], "HandoverFailed", "SecondaryCellHandoverCompleted")
      BY <1>1 DEF Underway, Home, FailuresComeFirst
    <2>4. /\ 1 \in 1 .. Len(x2[<<c, LteCell>>])
          /\ x2[<<c, LteCell>>][1] = m
      BY <1>1
    <2>5. x2[<<c, LteCell>>][i].type = "HandoverFailed"
      BY <2>2 DEF HandoverFailed
    <2>6. i < 1
      BY <1>1, <2>3, <2>4, <2>5 DEF Precedes
    <2> QED
      BY <2>2, <2>6
  <1>6. State(c, m.rnti) = "CONNECTED_NORMALLY"
    BY <1>3, <1>5
  <1>7. \A d \in Cells : ~FailedFrom(d)
    BY <1>4, <1>5 DEF Underway, Home, FailureIsKnown
  <1>8. NoneOf(x2, PrepTypes)
    BY <1>0, <1>2, <1>6, ConnectedIsAlone
  <1>9. \A d \in Cells, s \in Rntis : State(d, s) # "HANDOVER_JOINING"
    BY <1>1, TokenOn DEF Underway, NoneOf, HandoverTypes
  <1>10. \A l \in Links : \A n \in On(x2, l) :
             n.type \in HandoverTypes => l = <<c, LteCell>> /\ n = m
    <2>1. AtMostOneOf(x2, HandoverTypes) /\ m.type \in HandoverTypes
      BY <1>1, TokenOn DEF Underway, HandoverTypes
    <2> QED
      BY <1>1, <2>1, OnlyOne
  <1> QED
    BY <1>2, <1>3, <1>4, <1>6, <1>7, <1>8, <1>9, <1>10

\* The coordinator learns of the new home, and has the old context released.
LEMMA HomeConfirmed ==
    ASSUME Underway, NEW c \in Cells, RecvSecondaryCellHandoverCompleted(c)
    PROVE  Home'
  <1>0. TypeOK /\ CoordinatorType
    BY DEF Underway, TypeOK
  <1>m. PICK m : m = Head(x2[<<c, LteCell>>])
    OBVIOUS
  <1>n. PICK release : release = UeContextRelease(m.oldId)
    OBVIOUS
  <1>1. Arrives(x2, c, LteCell, "SecondaryCellHandoverCompleted")
    BY DEF RecvSecondaryCellHandoverCompleted
  <1>2. /\ m.rnti = rntiOf[c] /\ m.oldId = mmRnti /\ c # mmCell
        /\ State(c, m.rnti) = "CONNECTED_NORMALLY" /\ NoneOf(x2, PrepTypes)
        /\ \A d \in Cells : ~FailedFrom(d)
        /\ \A d \in Cells, s \in Rntis : State(d, s) # "HANDOVER_JOINING"
    BY <1>1, <1>m, CompletionArrives
  <1>3. last = mmCell
    BY DEF Underway, Home, CoordinatorAtHome
  <1>4. /\ mmCell' = c /\ mmRnti' = m.rnti /\ last' = c /\ setup' = TRUE
        /\ x2' = Sent(Taken(x2, c, LteCell), LteCell, mmCell, release)
        /\ UNCHANGED <<ueMan, rntiOf>>
    BY <1>2, <1>3, <1>m, <1>n DEF RecvSecondaryCellHandoverCompleted, contexts
  <1>5. release \in Messages /\ release.type = "UeContextRelease"
    <2>1. release = UeContextRelease(mmRnti) /\ mmRnti \in Rntis
      BY <1>0, <1>2, <1>n DEF CoordinatorType
    <2> QED
      BY <2>1, OtherMessages DEF UeContextRelease
  <1>6. PICK net : net = Taken(x2, c, LteCell)
    OBVIOUS
  <1>7. /\ net \in Networks /\ NoneOf(net, HandoverTypes)
        /\ \A l \in Links : On(net, l) \subseteq On(x2, l)
    <2>1. AtMostOneOf(x2, HandoverTypes) /\ "SecondaryCellHandoverCompleted" \in HandoverTypes
      BY TokenOn DEF Underway, HandoverTypes
    <2> QED
      BY <1>0, <1>1, <1>6, <2>1, LinkTaken
  <1>8. \A l \in Links : \A n \in On(x2', l) :
            n \in On(net, l) \/ n = release
    <2>1. <<LteCell, mmCell>> \in Links
      BY <1>0, LinkTypes DEF CoordinatorType
    <2> QED
      BY <1>4, <1>5, <1>6, <1>7, <2>1, OnSent
  <1>9. \A l \in Links : \A n \in On(x2', l) :
            n.type \notin HandoverTypes /\ n.type \notin PrepTypes
    BY <1>2, <1>5, <1>7, <1>8 DEF NoneOf, HandoverTypes, PrepTypes
  <1>10. \A d \in Cells : ~FailedFrom(d)'
    <2>1. release # HandoverFailed
      BY <1>5 DEF HandoverFailed
    <2>2. \A d \in Cells : <<d, LteCell>> \in Links
      BY <1>0, LinkTypes
    <2> QED
      BY <1>2, <1>7, <1>8, <2>1, <2>2 DEF FailedFrom
  <1>11. CoordinatorAtHome'
    BY <1>2, <1>4 DEF CoordinatorAtHome, State
  <1>12. FailureIsKnown'
    BY <1>10 DEF FailureIsKnown
  <1>13. MessagesPlaced'
    BY <1>9 DEF MessagesPlaced, Placed, HandoverTypes, PrepTypes
  <1>14. FailuresComeFirst'
    BY <1>9, NoCompletion DEF NoneOf
  <1>15. JoinersComeFromHome'
    BY <1>2, <1>4 DEF JoinersComeFromHome, State
  <1> QED
    BY <1>11, <1>12, <1>13, <1>14, <1>15 DEF Home

-----------------------------------------------------------------------------
\* Home is where the coordinator looks for the UE, initially and after every
\* step.
LEMMA HomeInit == Init => Home
  <1> SUFFICES ASSUME Init PROVE Home
    OBVIOUS
  <1>1. \A l \in Links : On(x2, l) = {} /\ Len(x2[l]) = 0
    BY DEF Init, NoTraffic, On
  <1>2. /\ State(FirstCell, 1) = "CONNECTED_NORMALLY"
        /\ \A c \in Cells, r \in Rntis :
              <<c, r>> # <<FirstCell, 1>> => State(c, r) = "NONE"
    BY HandoverAssumption, RntiAssumption DEF Init, State, NoContext, Rntis
  <1>3. \A c \in Cells : <<c, LteCell>> \in Links
    BY CellsAssumption DEF Links, Nodes
  <1>4. CoordinatorAtHome
    BY <1>2, HandoverAssumption DEF Init, CoordinatorAtHome
  <1>5. FailureIsKnown
    BY <1>1, <1>3 DEF FailureIsKnown, FailedFrom
  <1>6. MessagesPlaced
    BY <1>1 DEF MessagesPlaced
  <1>7. FailuresComeFirst
    BY <1>1 DEF FailuresComeFirst, Precedes
  <1>8. JoinersComeFromHome
    BY <1>2 DEF JoinersComeFromHome
  <1> QED
    BY <1>4, <1>5, <1>6, <1>7, <1>8 DEF Home

\* Every step keeps what the coordinator knows.
LEMMA HomeStep ==
    ASSUME Underway, [Next]_vars
    PROVE  Home'
  <1>0. TypeOK
    BY DEF Underway
  <1>1. CASE CoordinatorEffect
    <2>1. CASE Quiet
      BY <2>1, HomeStill DEF Quiet, contexts
    <2>2. CASE \E t \in Cells : Asked(t)
      BY <2>2, HomeAsked
    <2>3. CASE SwitchedOff
      BY <2>3, HomeSwitchedOff
    <2>4. CASE \E c \in Cells : RecvSecondaryCellHandoverCompleted(c)
      BY <2>4, HomeConfirmed
    <2> QED
      BY <1>1, <2>1, <2>2, <2>3, <2>4 DEF CoordinatorEffect
  <1>2. CASE CellEffect
    <2>1. ASSUME NEW c \in Cells, NEW t \in Cells, NEW r \in Rntis, NEW net,
                 Prepared(c, r, t, net)
          PROVE  Home'
      BY <2>1, HomePrepared
    <2>2. ASSUME NEW c \in Cells, NEW t \in Cells, NEW r \in Rntis, NEW net,
                 Deferred(c, r, t, net)
          PROVE  FALSE
      BY <2>2, HomeRequested DEF Deferred
    <2>3. ASSUME NEW a \in Cells, NEW c \in Cells, Rejected(a, c) PROVE Home'
      BY <2>3, HomeRejected
    <2>4. ASSUME NEW a \in Cells, NEW c \in Cells, NEW r \in Rntis,
                 Admitted(a, c, r) \/ Resumed(a, c, r)
          PROVE  Home'
      BY <2>4, HomeAdmitted, HomeResumed
    <2>5. ASSUME NEW a \in Cells, NEW c \in Cells, NEW r \in Rntis, NEW m \in Messages,
                 Left(a, c, r, m)
          PROVE  Home'
      BY <2>5, HomeLeft
    <2>6. ASSUME NEW c \in Cells, NEW r \in Rntis, Released(c, r) \/ Forwarding(c, r)
          PROVE  Home'
      BY <2>6, HomeReleased, HomeForwarding
    <2> QED
      BY <1>2, <2>1, <2>2, <2>3, <2>4, <2>5, <2>6 DEF CellEffect
  <1>3. CASE UeEffect
    <2>1. ASSUME NEW c \in Cells, NEW r \in Rntis,
                 Joined(c, r) \/ JoiningExpired(c, r) \/ Removed(c, r)
          PROVE  Home'
      BY <2>1, HomeJoined, HomeExpired, HomeRemoved
    <2>2. ASSUME NEW c \in Cells, NEW t \in Cells, NEW r \in Rntis,
                 JoinedAndPrepared(c, r, t)
          PROVE  FALSE
      BY <2>2, TokenOn DEF JoinedAndPrepared, Underway
    <2>3. ASSUME \/ \E c \in Cells, r \in Rntis : Unheard(c, r)
                 \/ \E m \in rrcDown : Followed(m)
                 \/ Reached \/ Missed
          PROVE  Home'
      BY <2>3, HomeStill DEF Unheard, Followed, Reached, Missed, contexts
    <2> QED
      BY <1>3, <2>1, <2>2, <2>3 DEF UeEffect
  <1> QED
    BY <1>0, <1>1, <1>2, <1>3, StepEffects

\* All of it together is inductive.
LEMMA UnderwayStep ==
    ASSUME ~RicControl, Underway, TypeOK', [Next]_vars
    PROVE  Underway'
  <1>1. Home'
    BY HomeStep
  <1>2. Stages'
    BY StagesStep, HomeFailures DEF Underway
  <1>3. HandoverToken' /\ e2Event' = NoEvent
    BY TokenStep DEF Underway
  <1> QED
    BY <1>1, <1>2, <1>3 DEF Underway

\* Without RIC Control requests, whatever the control file and the radio do,
\* the coordinator and the messages of a handover agree on where the UE is.
THEOREM HomeIsKnown ==
    ASSUME ~RicControl
    PROVE  Spec => []Underway
  <1>1. Init => Underway
    BY InitType, TokenInit, StagesInit, HomeInit DEF Underway
  <1>2. TypeOK' /\ Underway /\ [Next]_vars => Underway'
    BY UnderwayStep
  <1>3. Spec => []TypeOK
    BY TypeCorrect
  <1> QED
    BY <1>1, <1>2, <1>3, PTL DEF Spec

\* Without RIC Control requests, while the coordinator believes that no
\* handover is under way, the UE, the serving cell and the coordinator agree
\* on the cell and on the RNTI: also when random access fails, contexts time
\* out, and the control file asks for handovers at any moment.
THEOREM CoordinatorKnowsUe ==
    ASSUME ~RicControl
    PROVE  Spec => []CoordinatorTracksUe
  <1>1. Underway => CoordinatorTracksUe
    <2> SUFFICES ASSUME Underway, setup PROVE CoordinatorTracksUe
      BY DEF CoordinatorTracksUe
    <2>1. mmCell \in Cells /\ mmRnti \in Rntis
      BY DEF Underway, TypeOK, CoordinatorType
    <2>2. /\ last = mmCell /\ rntiOf[mmCell] = mmRnti
          /\ State(mmCell, mmRnti) = "CONNECTED_NORMALLY"
      BY DEF Underway, Home, CoordinatorAtHome
    <2>3. UeAt(mmCell, mmRnti)
      BY <2>1, <2>2, ServingIsAlone DEF Serving, Underway
    <2> QED
      BY <2>2, <2>3 DEF CoordinatorTracksUe, UeAt, State
  <1>2. Spec => []Underway
    BY HomeIsKnown
  <1> QED
    BY <1>1, <1>2, PTL

\* At most one context can hand the UE over.  Where RIC Control requests and a
\* failing radio meet, the argument does not apply (a RIC may ask a cell that
\* gave up waiting to hand the UE over), and nothing is claimed.
THEOREM ServingContextIsUnique ==
    ASSUME ~RicControl \/ ~RadioMayFail
    PROVE  Spec => []OneServingContext
  <1>1. Stages => OneServingContext
    BY ServingIsAlone DEF OneServingContext, Serving, State
  <1>2. CASE ~RicControl
    <2>1. Underway => Stages
      BY DEF Underway
    <2>2. Spec => []Underway
      BY <1>2, HomeIsKnown
    <2> QED
      BY <1>1, <2>1, <2>2, PTL
  <1>3. CASE ~RadioMayFail
    <2>1. Spec => []Stages
      BY <1>3, StagesFollow
    <2> QED
      BY <1>1, <2>1, PTL
  <1> QED
    BY <1>2, <1>3
-----------------------------------------------------------------------------
(***************************************************************************)
(* What a handover carries along.  The context of home keeps the requests  *)
(* for all bearers until it is asked to hand the UE over, and sends them   *)
(* to the cell that admits the UE.  (After a rejected preparation it has   *)
(* lost them: PrepareHandover empties its vector.  No other handover is    *)
(* asked for then, because the coordinator does not hear of a rejection.)  *)
(***************************************************************************)
RequestsAtHand ==
    \A c \in Cells, r \in Rntis :
        /\ State(c, r) = "HANDOVER_JOINING" => ueMan[c][r].rlcRequests = Drbs
        /\ State(c, r) = "CONNECTED_NORMALLY" /\ (setup \/ ~NoneOf(x2, HandoverTypes))
               => ueMan[c][r].rlcRequests = Drbs

RequestsCarried ==
    \A l \in Links : \A m \in On(x2, l) : m.type = "HandoverRequest" => m.rlc = Drbs

Bearers == ContextsHaveRlc /\ RequestsAtHand /\ RequestsCarried

\* A step that keeps the bearers of every context, brings no context nearer to
\* a handover, and sends no request.
LEMMA BearersKept ==
    ASSUME Underway, Bearers, setup' => setup,
           \A c \in Cells, r \in Rntis :
               State(c, r)' # "NONE" => /\ State(c, r) # "NONE"
                                        /\ ueMan'[c][r].rlc = ueMan[c][r].rlc,
           \A c \in Cells, r \in Rntis :
               State(c, r)' \in {"HANDOVER_JOINING", "CONNECTED_NORMALLY"} =>
                   /\ State(c, r)' = State(c, r)
                   /\ ueMan'[c][r].rlcRequests = ueMan[c][r].rlcRequests,
           \A l \in Links : \A m \in On(x2', l) :
               m.type \in HandoverTypes => m \in On(x2, l)
    PROVE  Bearers'
  <1>1. ContextsHaveRlc'
    BY DEF Bearers, ContextsHaveRlc, Known, State, NoRnti, Rntis
  <1>2. NoneOf(x2, HandoverTypes) => NoneOf(x2', HandoverTypes)
    BY DEF NoneOf
  <1>3. RequestsAtHand'
    BY <1>2 DEF Bearers, RequestsAtHand
  <1>4. RequestsCarried'
    BY DEF Bearers, RequestsCarried, HandoverTypes
  <1> QED
    BY <1>1, <1>3, <1>4 DEF Bearers

\* The steps of the coordinator
LEMMA BearersCoordinator ==
    ASSUME Underway, Bearers, CoordinatorEffect
    PROVE  Bearers'
  <1>0. TypeOK /\ CoordinatorType /\ x2 \in Networks
    BY LinkTypes DEF Underway, TypeOK
  <1>1. CASE Quiet
    BY <1>1, BearersKept DEF Quiet, view, contexts, State
  <1>2. CASE SwitchedOff
    <2>1. /\ SwitchConnection(mmRnti) \in Messages
          /\ SwitchConnection(mmRnti).type \notin HandoverTypes
      BY <1>0, OtherMessages DEF CoordinatorType
    <2>2. <<LteCell, mmCell>> \in Links
      BY <1>0, LinkTypes DEF CoordinatorType
    <2>3. \A l \in Links : \A m \in On(x2', l) :
              m.type \in HandoverTypes => m \in On(x2, l)
      BY <1>0, <1>2, <2>1, <2>2, OnSent DEF SwitchedOff
    <2> QED
      BY <1>2, <2>3, BearersKept DEF SwitchedOff, view, contexts, State
  <1>3. ASSUME NEW t \in Cells, Asked(t) PROVE Bearers'
    <2>1. /\ setup /\ ueMan' = ueMan /\ x2' = Sent(x2, LteCell, last, McHandoverRequest(t))
      BY <1>3 DEF Asked, RequestHandover, contexts
    <2>2. McHandoverRequest(t) \in Messages /\ McHandoverRequest(t).type = "McHandoverRequest"
      BY DEF Messages, McHandoverRequest
    <2>3. <<LteCell, last>> \in Links
      BY <1>0, LinkTypes DEF CoordinatorType
    <2>4. \A l \in Links : \A m \in On(x2', l) :
              m \in On(x2, l) \/ m.type = "McHandoverRequest"
      BY <1>0, <2>1, <2>2, <2>3, OnSent
    <2>5. ContextsHaveRlc' /\ RequestsAtHand'
      BY <2>1 DEF Bearers, ContextsHaveRlc, RequestsAtHand, Known, State
    <2>6. RequestsCarried'
      BY <2>4 DEF Bearers, RequestsCarried
    <2> QED
      BY <2>5, <2>6 DEF Bearers
  <1>4. ASSUME NEW c \in Cells, RecvSecondaryCellHandoverCompleted(c) PROVE Bearers'
    <2>1. PICK m : m = Head(x2[<<c, LteCell>>])
      OBVIOUS
    <2>2. /\ Arrives(x2, c, LteCell, "SecondaryCellHandoverCompleted")
          /\ ueMan' = ueMan
          /\ x2' = Sent(Taken(x2, c, LteCell), LteCell, mmCell, UeContextRelease(m.oldId))
      BY <1>4, <2>1 DEF RecvSecondaryCellHandoverCompleted, contexts
    <2>3. /\ m \in On(x2, <<c, LteCell>>) /\ m.type \in HandoverTypes
          /\ <<c, LteCell>> \in Links /\ m \in Messages
          /\ m.type = "SecondaryCellHandoverCompleted"
          /\ Taken(x2, c, LteCell) \in Networks
          /\ \A l \in Links : On(Taken(x2, c, LteCell), l) \subseteq On(x2, l)
      BY <1>0, <2>1, <2>2, LinkTaken DEF HandoverTypes
    <2>4. ~NoneOf(x2, HandoverTypes)
      BY <2>3 DEF NoneOf
    <2>5. m.oldId \in Rntis
      BY <2>3, MessageTypes
    <2>6. /\ UeContextRelease(m.oldId) \in Messages
          /\ UeContextRelease(m.oldId).type \notin HandoverTypes
      BY <2>5, OtherMessages
    <2>7. <<LteCell, mmCell>> \in Links
      BY <1>0, LinkTypes DEF CoordinatorType
    <2>8. \A l \in Links : \A n \in On(x2', l) : n.type \in HandoverTypes => n \in On(x2, l)
      BY <2>2, <2>3, <2>6, <2>7, OnSent
    <2>9. ContextsHaveRlc' /\ RequestsAtHand'
      BY <2>2, <2>4 DEF Bearers, ContextsHaveRlc, RequestsAtHand, Known, State
    <2>10. RequestsCarried'
      BY <2>8 DEF Bearers, RequestsCarried, HandoverTypes
    <2> QED
      BY <2>9, <2>10 DEF Bearers
  <1> QED
    BY <1>1, <1>2, <1>3, <1>4 DEF CoordinatorEffect

\* The request for a handover: home passes its requests on and has none left.
LEMMA BearersPrepared ==
    ASSUME Underway, Bearers, NEW c \in Cells, NEW t \in Cells, NEW r \in Rntis, NEW net,
           Prepared(c, r, t, net)
    PROVE  Bearers'
  <1>0. TypeOK /\ Stages
    BY DEF Underway
  <1>m. PICK m : m = HandoverRequest(r, ueMan[c][r].rlcRequests)
    OBVIOUS
  <1>1. /\ MayPrepare(c, net) /\ <<c, t>> \in Links /\ x2' = Sent(net, c, t, m)
        /\ State(c, r) = "CONNECTED_NORMALLY"
    BY <1>m DEF Prepared
  <1>2. /\ net \in Networks /\ \A l \in Links : On(net, l) \subseteq On(x2, l)
        /\ ~NoneOf(x2, HandoverTypes)
        /\ \A d \in Cells, s \in Rntis : State(d, s) # "HANDOVER_JOINING"
    <2>1. Arrives(x2, LteCell, c, "McHandoverRequest")
      BY <1>1 DEF MayPrepare, Underway
    <2>2. ~NoneOf(x2, HandoverTypes)
      <3>1. \E m1 \in On(x2, <<LteCell, c>>) : m1.type = "McHandoverRequest"
        BY <1>0, <2>1, LinkTaken
      <3>2. <<LteCell, c>> \in Links
        BY <1>0, LinkTypes
      <3> QED
        BY <3>1, <3>2 DEF NoneOf, HandoverTypes
    <2> QED
      BY <1>1, <2>2, HomeRequested
  <1>3. ueMan[c][r].rlcRequests = Drbs
    BY <1>1, <1>2 DEF Bearers, RequestsAtHand
  <1>4. m \in Messages /\ m.rlc = Drbs
    <2>1. m \in Messages
      BY <1>m, <1>3 DEF Messages
    <2> QED
      BY <1>m, <1>3, <2>1 DEF HandoverRequest
  <1>5. \A l \in Links : \A n \in On(x2', l) : n \in On(x2, l) \/ n = m
    BY <1>1, <1>2, <1>4, OnSent
  <1>6. /\ State(c, r)' = "HANDOVER_PREPARATION" /\ ueMan'[c][r].rlc = ueMan[c][r].rlc
        /\ \A d \in Cells, q \in Rntis : <<d, q>> # <<c, r>> => ueMan'[d][q] = ueMan[d][q]
    <2> DEFINE x == [ueMan[c][r] EXCEPT !.state = "HANDOVER_PREPARATION",
                                        !.target = t, !.rlcRequests = {}]
    <2>1. x.state = "HANDOVER_PREPARATION" /\ x.rlc = ueMan[c][r].rlc
      BY <1>0, ContextsAre DEF Contexts
    <2>2. ueMan' = [ueMan EXCEPT ![c][r] = x]
      BY DEF Prepared
    <2> HIDE DEF x
    <2> QED
      BY <1>0, <2>1, <2>2, ContextsAre DEF State
  <1>7. ContextsHaveRlc'
    BY <1>1, <1>6 DEF Bearers, ContextsHaveRlc, Known, State
  <1>8. RequestsAtHand'
    <2>1. \A d \in Cells, q \in Rntis :
              State(d, q)' \notin {"CONNECTED_NORMALLY", "HANDOVER_JOINING"}
      <3>1. Serving(c, r)
        BY <1>1 DEF Serving
      <3>2. \A d \in Cells, q \in Rntis :
                State(d, q) = "CONNECTED_NORMALLY" => d = c /\ q = r
        BY <1>0, <3>1, ServingIsAlone DEF Serving
      <3> QED
        BY <1>2, <1>6, <3>2 DEF State
    <2> QED
      BY <2>1 DEF RequestsAtHand
  <1>9. RequestsCarried'
    BY <1>4, <1>5 DEF Bearers, RequestsCarried
  <1> QED
    BY <1>7, <1>8, <1>9 DEF Bearers

\* The answer to the request: the admitted context has what was carried.
LEMMA BearersAnswered ==
    ASSUME Underway, Bearers, NEW a \in Cells, NEW c \in Cells,
           Rejected(a, c) \/ \E r \in Rntis : Admitted(a, c, r)
    PROVE  Bearers'
  <1>0. TypeOK
    BY DEF Underway
  <1>q. PICK req : req = Head(x2[<<a, c>>])
    OBVIOUS
  <1>1. /\ Arrives(x2, a, c, "HandoverRequest")
        /\ req \in Messages /\ req.oldId \in Rntis /\ req.rlc = Drbs
    <2>1. Arrives(x2, a, c, "HandoverRequest")
      BY DEF Rejected, Admitted
    <2>2. /\ <<a, c>> \in Links /\ req \in On(x2, <<a, c>>) /\ req \in Messages
          /\ req.type = "HandoverRequest"
      BY <1>0, <1>q, <2>1, LinkTaken
    <2> QED
      BY <2>1, <2>2, MessageTypes DEF Bearers, RequestsCarried
  <1>2. PICK m \in Messages :
            /\ m.type \in {"HandoverRequestAck", "HandoverPreparationFailure"}
            /\ x2' = Sent(Taken(x2, a, c), c, a, m)
    <2>1. \A r \in Rntis : /\ HandoverRequestAck(req.oldId, r) \in Messages
                           /\ HandoverPreparationFailure(req.oldId) \in Messages
      BY <1>1, OtherMessages
    <2>2. \A r \in Rntis :
              /\ HandoverRequestAck(req.oldId, r).type = "HandoverRequestAck"
              /\ HandoverPreparationFailure(req.oldId).type = "HandoverPreparationFailure"
      BY DEF HandoverRequestAck, HandoverPreparationFailure
    <2>3. CASE Rejected(a, c)
      <3>1. 1 \in Rntis
        BY RntiAssumption DEF Rntis
      <3> QED
        BY <1>q, <2>1, <2>2, <2>3, <3>1 DEF Rejected
    <2>4. ASSUME NEW r \in Rntis, Admitted(a, c, r)
          PROVE  x2' = Sent(Taken(x2, a, c), c, a, HandoverRequestAck(req.oldId, r))
      BY <1>q, <2>4 DEF Admitted
    <2> QED
      BY <2>1, <2>2, <2>3, <2>4
  <1>3. /\ NoneOf(x2', HandoverTypes)
        /\ \A d \in Cells, s \in Rntis :
              State(d, s) \notin {"HANDOVER_JOINING", "CONNECTED_NORMALLY"}
    BY <1>1, <1>2, HomeAnswered
  <1>4. RequestsCarried'
    BY <1>3 DEF RequestsCarried, NoneOf, HandoverTypes
  <1>5. CASE Rejected(a, c)
    <2>1. ueMan' = ueMan
      BY <1>5 DEF Rejected, contexts
    <2>2. ContextsHaveRlc' /\ RequestsAtHand'
      BY <1>3, <2>1 DEF Bearers, ContextsHaveRlc, RequestsAtHand, Known, State
    <2> QED
      BY <1>4, <2>2 DEF Bearers
  <1>6. ASSUME NEW r \in Rntis, Admitted(a, c, r) PROVE Bearers'
    <2>1. PICK x : x = JoiningContext(a, req)
      OBVIOUS
    <2>2. x.state = "HANDOVER_JOINING" /\ x.rlc = Drbs /\ x.rlcRequests = Drbs
      BY <1>1, <2>1 DEF JoiningContext
    <2>3. ueMan' = [ueMan EXCEPT ![c][r] = x]
      BY <1>6, <1>q, <2>1 DEF Admitted
    <2>4. /\ ueMan'[c][r] = x
          /\ \A d \in Cells, q \in Rntis : <<d, q>> # <<c, r>> => ueMan'[d][q] = ueMan[d][q]
      BY <1>0, <2>3, ContextsAre
    <2>5. ContextsHaveRlc'
      BY <2>2, <2>4 DEF Bearers, ContextsHaveRlc, Known
    <2>6. RequestsAtHand'
      BY <1>3, <2>2, <2>4 DEF RequestsAtHand, State
    <2> QED
      BY <1>4, <2>5, <2>6 DEF Bearers
  <1> QED
    BY <1>5, <1>6

\* The answer reaches home, which lets the UE go ...
LEMMA BearersLeft ==
    ASSUME Underway, Bearers, NEW a \in Cells, NEW c \in Cells, NEW r \in Rntis,
           NEW m, Left(a, c, r, m)
    PROVE  Bearers'
  <1>0. TypeOK /\ Stages
    BY DEF Underway
  <1>1. /\ Arrives(x2, a, c, "HandoverRequestAck") /\ m = Head(x2[<<a, c>>])
        /\ r = m.oldId /\ x2' = Taken(x2, a, c) /\ setup' = setup
        /\ ChangesState(c, r, "HANDOVER_LEAVING")
    BY DEF Left, view, ChangesState
  <1>2. State(c, r) = "HANDOVER_PREPARATION"
    BY <1>0, <1>1, LinkEmptied
  <1>3. \A l \in Links : On(x2', l) \subseteq On(x2, l)
    BY <1>1, HomeTaken
  <1>4. /\ State(c, r)' = "HANDOVER_LEAVING" /\ ueMan'[c][r].rlc = ueMan[c][r].rlc
        /\ \A d \in Cells, q \in Rntis : <<d, q>> # <<c, r>> => ueMan'[d][q] = ueMan[d][q]
    BY <1>0, <1>1, OneState
  <1> QED
    BY <1>1, <1>2, <1>3, <1>4, BearersKept DEF State

\* ... or takes it back: then no handover is under way, though the coordinator
\* believes that one is.
LEMMA BearersResumed ==
    ASSUME Underway, Bearers, NEW a \in Cells, NEW c \in Cells, NEW r \in Rntis,
           Resumed(a, c, r)
    PROVE  Bearers'
  <1>0. TypeOK /\ Stages /\ Home
    BY DEF Underway
  <1>m. PICK m : m = Head(x2[<<a, c>>])
    OBVIOUS
  <1>1. /\ Arrives(x2, a, c, "HandoverPreparationFailure") /\ r = m.oldId
        /\ x2' = Taken(x2, a, c) /\ setup' = setup
    BY <1>m DEF Resumed, view
  <1>2. /\ m \in On(x2, <<a, c>>) /\ m.type = "HandoverPreparationFailure"
        /\ <<a, c>> \in Links
    BY <1>0, <1>1, <1>m, LinkTaken
  <1>3. /\ \A d \in Cells : ~FailedFrom(d)
        /\ \A d \in Cells, s \in Rntis :
              State(d, s) \notin {"HANDOVER_JOINING", "CONNECTED_NORMALLY"}
    BY <1>0, <1>2, OpenPreparation DEF OpenTypes
  <1>4. ~setup
    <2>1. mmCell \in Cells /\ mmRnti \in Rntis
      BY <1>0 DEF TypeOK, CoordinatorType
    <2> QED
      BY <1>0, <1>3, <2>1 DEF Home, CoordinatorAtHome
  <1>5. NoneOf(x2, HandoverTypes)
    <2> SUFFICES ASSUME NEW l \in Links, NEW n \in On(x2, l), n.type \in HandoverTypes
                 PROVE  FALSE
      BY DEF NoneOf
    <2>1. Placed(l, n) /\ n \in Messages
      BY <1>0, LinkTypes DEF Home, MessagesPlaced
    <2>2. mmCell \in Cells /\ mmRnti \in Rntis
      BY <1>0 DEF TypeOK, CoordinatorType
    <2>3. n.type # "McHandoverRequest"
      BY <1>3, <2>1, <2>2 DEF Placed
    <2>4. n.type # "HandoverRequest"
      <3>1. AtMostOneOf(x2, PrepTypes)
        BY <1>0 DEF Stages, PreparationsHaveSource
      <3> QED
        BY <1>2, <3>1, OnlyOne DEF PrepTypes
    <2>5. n.type # "SecondaryCellHandoverCompleted"
      BY <1>3, <2>1, MessageTypes DEF Placed
    <2> QED
      BY <2>3, <2>4, <2>5 DEF HandoverTypes
  <1>6. \A l \in Links : On(x2', l) \subseteq On(x2, l)
    BY <1>1, HomeTaken
  <1>7. State(c, r) = "HANDOVER_PREPARATION"
    BY <1>0, <1>1, <1>m, LinkEmptied
  <1>8. ChangesState(c, r, "CONNECTED_NORMALLY")
    BY <1>7 DEF Resumed, ChangesState
  <1>9. /\ State(c, r)' = "CONNECTED_NORMALLY" /\ ueMan'[c][r].rlc = ueMan[c][r].rlc
        /\ \A d \in Cells, q \in Rntis : <<d, q>> # <<c, r>> => ueMan'[d][q] = ueMan[d][q]
    BY <1>0, <1>8, OneState
  <1>10. ContextsHaveRlc'
    BY <1>7, <1>9 DEF Bearers, ContextsHaveRlc, Known, State
  <1>11. RequestsAtHand'
    <2>1. ~setup' /\ NoneOf(x2', HandoverTypes)
      BY <1>1, <1>4, <1>5, <1>6 DEF NoneOf
    <2>2. \A d \in Cells, s \in Rntis : State(d, s)' # "HANDOVER_JOINING"
      BY <1>3, <1>9 DEF State
    <2> QED
      BY <2>1, <2>2 DEF RequestsAtHand
  <1>12. RequestsCarried'
    BY <1>6 DEF Bearers, RequestsCarried
  <1> QED
    BY <1>10, <1>11, <1>12 DEF Bearers

\* The UE arrives where the bearers were carried to.
LEMMA BearersJoined ==
    ASSUME Underway, Bearers, NEW c \in Cells, NEW r \in Rntis, Joined(c, r)
    PROVE  Bearers'
  <1>0. TypeOK /\ Stages /\ x2 \in Networks /\ <<c, LteCell>> \in Links
    BY LinkTypes DEF Underway
  <1>m. PICK m : m = SecondaryCellHandoverCompleted(ueMan[c][r].sourceId, r)
    OBVIOUS
  <1>1. /\ State(c, r) = "HANDOVER_JOINING" /\ [cell |-> c, rnti |-> r] \in rrcUp
        /\ x2' = Sent(x2, c, LteCell, m) /\ ChangesState(c, r, "CONNECTED_NORMALLY")
    BY <1>m DEF Joined, ChangesState
  <1>2. m \in Messages /\ m.type = "SecondaryCellHandoverCompleted"
    <2>1. ueMan[c][r].sourceId \in Rntis
      BY <1>0, <1>1, Arrival
    <2>2. m \in Messages
      BY <1>m, <2>1 DEF Messages
    <2> QED
      BY <1>m, <2>2 DEF SecondaryCellHandoverCompleted
  <1>3. \A l \in Links : \A n \in On(x2', l) : n \in On(x2, l) \/ n = m
    BY <1>0, <1>1, <1>2, OnSent
  <1>4. /\ State(c, r)' = "CONNECTED_NORMALLY" /\ ueMan'[c][r].rlc = ueMan[c][r].rlc
        /\ ueMan'[c][r].rlcRequests = ueMan[c][r].rlcRequests
        /\ \A d \in Cells, q \in Rntis : <<d, q>> # <<c, r>> => ueMan'[d][q] = ueMan[d][q]
    BY <1>0, <1>1, OneState
  <1>5. \A d \in Cells, q \in Rntis :
            <<d, q>> # <<c, r>> => State(d, q) \notin {"CONNECTED_NORMALLY", "HANDOVER_JOINING"}
    BY <1>0, <1>1, Arrival
  <1>6. ContextsHaveRlc'
    BY <1>1, <1>4 DEF Bearers, ContextsHaveRlc, Known, State
  <1>7. RequestsAtHand'
    BY <1>1, <1>4, <1>5 DEF Bearers, RequestsAtHand, State
  <1>8. RequestsCarried'
    BY <1>2, <1>3 DEF Bearers, RequestsCarried
  <1> QED
    BY <1>6, <1>7, <1>8 DEF Bearers

\* A context is removed, by the coordinator or by a timer.
LEMMA BearersRemoved ==
    ASSUME Underway, Bearers, NEW c \in Cells, NEW r \in Rntis, Released(c, r) \/ Removed(c, r)
    PROVE  Bearers'
  <1>0. TypeOK
    BY DEF Underway
  <1>1. setup' = setup /\ ueMan' = [ueMan EXCEPT ![c][r] = NoContext]
    BY DEF Released, Removed, view, RemoveUe
  <1>2. \A l \in Links : On(x2', l) \subseteq On(x2, l)
    <2>1. CASE Released(c, r)
      BY <2>1, HomeTaken DEF Released
    <2>2. CASE Removed(c, r)
      BY <2>2 DEF Removed, On
    <2> QED
      BY <2>1, <2>2
  <1>3. /\ State(c, r)' = "NONE"
        /\ \A d \in Cells, q \in Rntis : <<d, q>> # <<c, r>> => ueMan'[d][q] = ueMan[d][q]
    BY <1>0, <1>1, ContextsAre DEF State, NoContext
  <1> QED
    BY <1>1, <1>2, <1>3, BearersKept DEF State

\* A context hears that the UE is on LTE.
LEMMA BearersForwarding ==
    ASSUME Underway, Bearers, NEW c \in Cells, NEW r \in Rntis, Forwarding(c, r)
    PROVE  Bearers'
  <1>0. TypeOK
    BY DEF Underway
  <1>1. setup' = setup
    BY DEF Forwarding, view
  <1>2. \A l \in Links : On(x2', l) \subseteq On(x2, l)
    BY HomeTaken DEF Forwarding
  <1>3. \A d \in Cells, q \in Rntis :
            /\ State(d, q)' = State(d, q) /\ ueMan'[d][q].rlc = ueMan[d][q].rlc
            /\ ueMan'[d][q].rlcRequests = ueMan[d][q].rlcRequests
    <2> DEFINE x == [ueMan[c][r] EXCEPT !.target = LteCell]
    <2>1. /\ x.state = ueMan[c][r].state /\ x.rlc = ueMan[c][r].rlc
          /\ x.rlcRequests = ueMan[c][r].rlcRequests
      BY <1>0, ContextsAre DEF Contexts
    <2>2. ueMan' = [ueMan EXCEPT ![c][r] = x]
      BY DEF Forwarding
    <2> HIDE DEF x
    <2>3. /\ ueMan'[c][r] = x
          /\ \A d \in Cells, q \in Rntis : <<d, q>> # <<c, r>> => ueMan'[d][q] = ueMan[d][q]
      BY <1>0, <2>2, ContextsAre
    <2> QED
      BY <2>1, <2>3 DEF State
  <1> QED
    BY <1>1, <1>2, <1>3, BearersKept

\* A cell gives up waiting for the UE.
LEMMA BearersExpired ==
    ASSUME Underway, Bearers, NEW c \in Cells, NEW r \in Rntis, JoiningExpired(c, r)
    PROVE  Bearers'
  <1>0. x2 \in Networks /\ <<c, LteCell>> \in Links
    BY LinkTypes DEF Underway
  <1>1. /\ x2' = Sent(x2, c, LteCell, HandoverFailed) /\ UNCHANGED <<setup, ueMan>>
    BY DEF JoiningExpired, view
  <1>2. HandoverFailed \in Messages /\ HandoverFailed.type \notin HandoverTypes
    BY DEF Messages, HandoverFailed, HandoverTypes
  <1>3. \A l \in Links : \A n \in On(x2', l) : n.type \in HandoverTypes => n \in On(x2, l)
    BY <1>0, <1>1, <1>2, OnSent
  <1> QED
    BY <1>1, <1>3, BearersKept DEF State

\* The initial context has the RLC of every bearer.
LEMMA BearersInit == Init => Bearers
  <1> SUFFICES ASSUME Init PROVE Bearers
    OBVIOUS
  <1>1. \A l \in Links : On(x2, l) = {}
    BY DEF Init, NoTraffic, On
  <1>x. PICK x : x = [NoContext EXCEPT !.state = "CONNECTED_NORMALLY", !.rlc = Drbs,
                                       !.rlcRequests = Drbs]
    OBVIOUS
  <1>2. \A c \in Cells, r \in Rntis : ueMan[c][r] = x \/ ueMan[c][r] = NoContext
    BY <1>x DEF Init
  <1>3. /\ x.state = "CONNECTED_NORMALLY" /\ x.rlc = Drbs /\ x.rlcRequests = Drbs
        /\ NoContext.state = "NONE"
    BY <1>x DEF NoContext
  <1>4. \A c \in Cells, r \in Rntis :
            /\ State(c, r) # "NONE" => ueMan[c][r].rlc = Drbs /\ ueMan[c][r].rlcRequests = Drbs
            /\ State(c, r) # "HANDOVER_JOINING"
    BY <1>2, <1>3 DEF State
  <1> QED
    BY <1>1, <1>4 DEF Bearers, ContextsHaveRlc, RequestsAtHand, RequestsCarried, Known, State

\* Every step carries the bearers along.
LEMMA BearersStep ==
    ASSUME Underway, Bearers, [Next]_vars
    PROVE  Bearers'
  <1>0. TypeOK
    BY DEF Underway
  <1>1. CASE CoordinatorEffect
    BY <1>1, BearersCoordinator
  <1>2. CASE CellEffect
    <2>1. ASSUME NEW c \in Cells, NEW t \in Cells, NEW r \in Rntis, NEW net,
                 Prepared(c, r, t, net)
          PROVE  Bearers'
      BY <2>1, BearersPrepared
    <2>2. ASSUME NEW c \in Cells, NEW t \in Cells, NEW r \in Rntis, NEW net,
                 Deferred(c, r, t, net)
          PROVE  FALSE
      BY <2>2, HomeRequested DEF Deferred
    <2>3. ASSUME NEW a \in Cells, NEW c \in Cells,
                 Rejected(a, c) \/ \E r \in Rntis : Admitted(a, c, r)
          PROVE  Bearers'
      BY <2>3, BearersAnswered
    <2>4. ASSUME NEW a \in Cells, NEW c \in Cells, NEW r \in Rntis, Resumed(a, c, r)
          PROVE  Bearers'
      BY <2>4, BearersResumed
    <2>5. ASSUME NEW a \in Cells, NEW c \in Cells, NEW r \in Rntis, NEW m \in Messages,
                 Left(a, c, r, m)
          PROVE  Bearers'
      BY <2>5, BearersLeft
    <2>6. ASSUME NEW c \in Cells, NEW r \in Rntis, Released(c, r) \/ Forwarding(c, r)
          PROVE  Bearers'
      BY <2>6, BearersRemoved, BearersForwarding
    <2> QED
      BY <1>2, <2>1, <2>2, <2>3, <2>4, <2>5, <2>6 DEF CellEffect
  <1>3. CASE UeEffect
    <2>1. ASSUME NEW c \in Cells, NEW r \in Rntis,
                 Joined(c, r) \/ JoiningExpired(c, r) \/ Removed(c, r)
          PROVE  Bearers'
      BY <2>1, BearersJoined, BearersExpired, BearersRemoved
    <2>2. ASSUME NEW c \in Cells, NEW t \in Cells, NEW r \in Rntis,
                 JoinedAndPrepared(c, r, t)
          PROVE  FALSE
      BY <2>2, TokenOn DEF JoinedAndPrepared, Underway
    <2>3. ASSUME \/ \E c \in Cells, r \in Rntis : Unheard(c, r)
                 \/ \E m \in rrcDown : Followed(m)
                 \/ Reached \/ Missed
          PROVE  Bearers'
      <3>1. UNCHANGED <<setup, ueMan, x2>>
        BY <2>3 DEF Unheard, Followed, Reached, Missed, contexts, view
      <3> QED
        BY <3>1, BearersKept DEF State
    <2> QED
      BY <1>3, <2>1, <2>2, <2>3 DEF UeEffect
  <1> QED
    BY <1>0, <1>1, <1>2, <1>3, StepEffects

\* Without RIC Control requests a handover carries the RLC of every bearer
\* along: no context of the UE, in any cell and at any stage of a handover,
\* lacks the RLC entity of a bearer.
THEOREM RlcIsCarried ==
    ASSUME ~RicControl
    PROVE  Spec => []ContextsHaveRlc
  <1>1. Init => Bearers
    BY BearersInit
  <1>2. Underway /\ Bearers /\ [Next]_vars => Bearers'
    BY BearersStep
  <1>3. Spec => []Underway
    BY HomeIsKnown
  <1>4. Bearers => ContextsHaveRlc
    BY DEF Bearers
  <1> QED
    BY <1>1, <1>2, <1>3, <1>4, PTL DEF Spec
-----------------------------------------------------------------------------
(***************************************************************************)
(* The PDCP of the bearers at the coordinator.  The end of a handover      *)
(* moves the first bearer to the new home, and no other one.               *)
(***************************************************************************)
FirstBearerAtHome ==
    <<pdcp[FirstDrb].cell, pdcp[FirstDrb].rnti>> = <<mmCell, mmRnti>>

\* There is a first bearer.
LEMMA FirstDrbIsOne ==
    ASSUME Drbs # {}
    PROVE  FirstDrb \in Drbs
  <1> DEFINE Below == {p \in Nat \X Nat : p[1] < p[2]}
  <1>1. IsWellFoundedOn(Below, Nat)
    BY NatLessThanWellFounded DEF OpToRel
  <1> HIDE DEF Below
  <1>2. PICK d \in Drbs : \A e \in Drbs : ~(<<e, d>> \in Below)
    BY <1>1, WFMin, DrbAssumption
  <1>3. \A e \in Drbs : ~(e < d)
    BY <1>2, DrbAssumption DEF Below
  <1>4. \A e \in Drbs : d <= e
    BY <1>3, DrbAssumption
  <1> QED
    BY <1>4 DEF FirstDrb

\* A switch between LTE and mmWave leaves every bearer's mmWave leg where it
\* is.
LEMMA DecideKeepsLegs ==
    ASSUME TypeOK, Decide \/ PerformHandover \/ ReadControlFile \/ UNCHANGED coordinator
    PROVE  /\ UNCHANGED <<mmCell, mmRnti>>
           /\ \A d \in Drbs : pdcp'[d].cell = pdcp[d].cell /\ pdcp'[d].rnti = pdcp[d].rnti
  <1>0. pdcp \in [Drbs -> [cell : Cells, rnti : Rntis, mm : BOOLEAN]]
    BY DEF TypeOK, CoordinatorType
  <1>1. ASSUME NEW on \in BOOLEAN, SendRrcConnectionSwitch(on)
        PROVE  \A d \in Drbs : pdcp'[d].cell = pdcp[d].cell /\ pdcp'[d].rnti = pdcp[d].rnti
    <2> SUFFICES ASSUME NEW d \in Drbs
                 PROVE  pdcp'[d].cell = pdcp[d].cell /\ pdcp'[d].rnti = pdcp[d].rnti
      OBVIOUS
    <2>1. pdcp'[d] = [pdcp[d] EXCEPT !.mm = on]
      BY <1>1 DEF SendRrcConnectionSwitch
    <2>2. pdcp[d] \in [cell : Cells, rnti : Rntis, mm : BOOLEAN]
      BY <1>0
    <2> QED
      BY <2>1, <2>2
  <1>2. CASE SwitchToLte
    BY <1>1, <1>2 DEF SwitchToLte
  <1>3. CASE SwitchBackToMmWave
    BY <1>1, <1>3 DEF SwitchBackToMmWave
  <1>4. CASE HandoverFromLte \/ ThresholdHandover \/ TttBasedHandover
    BY <1>4 DEF HandoverFromLte, ThresholdHandover, TttBasedHandover
  <1>5. CASE PerformHandover \/ ReadControlFile
    BY <1>5 DEF PerformHandover, ReadControlFile, Stop, coordinator
  <1>6. CASE UNCHANGED coordinator
    BY <1>6 DEF coordinator
  <1> QED
    BY <1>2, <1>3, <1>4, <1>5, <1>6 DEF Decide

\* Every step keeps the first bearer at home.
LEMMA FirstBearerStep ==
    ASSUME Underway, FirstDrb \in Drbs, FirstBearerAtHome, [Next]_vars
    PROVE  FirstBearerAtHome'
  <1>0. TypeOK /\ pdcp \in [Drbs -> [cell : Cells, rnti : Rntis, mm : BOOLEAN]]
    BY DEF Underway, TypeOK, CoordinatorType
  <1>1. CASE Decide \/ PerformHandover \/ ReadControlFile \/ UNCHANGED coordinator
    BY <1>0, <1>1, DecideKeepsLegs DEF FirstBearerAtHome
  <1>2. ASSUME NEW c \in Cells, RecvSecondaryCellHandoverCompleted(c)
        PROVE  FirstBearerAtHome'
    <2>m. PICK m : m = Head(x2[<<c, LteCell>>])
      OBVIOUS
    <2>1. c # mmCell /\ last = mmCell
      BY <1>2, <2>m, CompletionArrives
      DEF RecvSecondaryCellHandoverCompleted, Underway, Home, CoordinatorAtHome
    <2>2. /\ mmCell' = c /\ mmRnti' = m.rnti
          /\ pdcp' = [pdcp EXCEPT ![FirstDrb] = Moved(pdcp[FirstDrb], c, m.rnti)]
      BY <1>2, <2>1, <2>m DEF RecvSecondaryCellHandoverCompleted
    <2>3. pdcp'[FirstDrb] = Moved(pdcp[FirstDrb], c, m.rnti)
      BY <1>0, <2>2
    <2>4. pdcp[FirstDrb] \in [cell : Cells, rnti : Rntis, mm : BOOLEAN]
      BY <1>0
    <2>5. pdcp'[FirstDrb].cell = c /\ pdcp'[FirstDrb].rnti = m.rnti
      BY <2>3, <2>4 DEF Moved
    <2> QED
      BY <2>2, <2>5 DEF FirstBearerAtHome
  <1> QED
    BY <1>1, <1>2, CoordinatorFrame

\* Without RIC Control requests, the PDCP of the first bearer always sends to
\* the cell and the RNTI that the coordinator holds for the UE, in the middle
\* of a handover as well.
THEOREM FirstBearerFollows ==
    ASSUME ~RicControl, Drbs # {}
    PROVE  Spec => []FirstBearerAtHome
  <1>0. FirstDrb \in Drbs
    BY FirstDrbIsOne
  <1>1. Init => FirstBearerAtHome
    <2> SUFFICES ASSUME Init PROVE FirstBearerAtHome
      OBVIOUS
    <2>1. pdcp[FirstDrb] = [cell |-> FirstCell, rnti |-> 1, mm |-> TRUE]
      BY <1>0 DEF Init
    <2> QED
      BY <2>1 DEF Init, FirstBearerAtHome
  <1>2. Underway /\ FirstBearerAtHome /\ [Next]_vars => FirstBearerAtHome'
    BY <1>0, FirstBearerStep
  <1>3. Spec => []Underway
    BY HomeIsKnown
  <1> QED
    BY <1>1, <1>2, <1>3, PTL DEF Spec

\* A UE with one bearer: with no handover under way the bearer's PDCP sends to
\* the serving cell.  (With more bearers it is false: the loop over them moves
\* only the first.)
THEOREM SingleBearerFollows ==
    ASSUME ~RicControl, NEW d, Drbs = {d}
    PROVE  Spec => []BearersFollowUe
  <1>0. FirstDrb = d
    BY FirstDrbIsOne
  <1>1. FirstBearerAtHome => BearersFollowUe
    BY <1>0 DEF FirstBearerAtHome, BearersFollowUe
  <1>2. Spec => []FirstBearerAtHome
    BY FirstBearerFollows
  <1> QED
    BY <1>1, <1>2, PTL
-----------------------------------------------------------------------------
(***************************************************************************)
(* The old context of a handover, when the radio is good.  The context     *)
(* that is being left is home, until the coordinator hears that the UE has *)
(* arrived, or has its release on the way.  A cell gets the release before *)
(* the request for the next handover, so that it never leaves two contexts *)
(* at once, and after every switch of the same context.                    *)
(***************************************************************************)
Leaving(c, r) == State(c, r) = "HANDOVER_LEAVING"
Idle(c) == \A q \in Rntis : State(c, q) \in {"NONE", "HANDOVER_LEAVING"}

LinksInOrder == \A l \in Links : InOrder(x2[l])

HomeExists == State(mmCell, mmRnti) # "NONE"

\* What the coordinator sends to a cell is about a context that is there.
CoordinatorIsHeard ==
    \A c \in Cells : \A m \in On(x2, <<LteCell, c>>) :
        /\ m.type = "UeContextRelease" =>
               Leaving(c, m.oldId) /\ (c = mmCell => m.oldId # mmRnti)
        /\ m.type = "SwitchConnection" => State(c, m.rnti) # "NONE"

LeaversAreReleased ==
    \A c \in Cells, r \in Rntis : Leaving(c, r) =>
        \/ c = mmCell /\ r = mmRnti
        \/ /\ UeContextRelease(r) \in On(x2, <<LteCell, c>>)
           /\ c = mmCell => State(mmCell, mmRnti) = "CONNECTED_NORMALLY"

\* In a cell that holds no other context, the one being left is the last one.
LeaverWasLast ==
    \A c \in Cells, r \in Rntis :
        Leaving(c, r) /\ c # mmCell /\ Idle(c) => r = rntiOf[c]

Order ==
    /\ LinksInOrder
    /\ HomeExists
    /\ CoordinatorIsHeard
    /\ LeaversAreReleased
    /\ LeaverWasLast

\* When the radio is good, nothing fails.
LEMMA NothingFails ==
    ASSUME ~RadioMayFail, Underway
    PROVE  \A c \in Cells : ~FailedFrom(c) /\ \A r \in Rntis : Timer("removal", c, r) \notin timers
  BY DEF Underway, Stages, FailuresEndHandovers

\* A link holds at most one release.
LEMMA OneRelease ==
    ASSUME LinksInOrder, NEW l \in Links, NEW m \in On(x2, l), NEW n \in On(x2, l),
           m.type = "UeContextRelease", n.type = "UeContextRelease"
    PROVE  m = n
  BY DEF LinksInOrder, InOrder, On

\* A switch is determined by the context it is about.
LEMMA SwitchIsItsRnti ==
    ASSUME NEW m \in Messages, m.type = "SwitchConnection"
    PROVE  m = SwitchConnection(m.rnti)
  BY DEF Messages, McHandoverRequest, HandoverRequest, HandoverRequestAck,
         HandoverPreparationFailure, SecondaryCellHandoverCompleted,
         UeContextRelease, SwitchConnection, HandoverFailed

\* A cell leaves at most one context at a time.
LEMMA OneLeaver ==
    ASSUME Underway, Order, NEW c \in Cells, NEW r \in Rntis, NEW q \in Rntis,
           Leaving(c, r), Leaving(c, q)
    PROVE  r = q
  <1>1. \A s \in Rntis : /\ UeContextRelease(s).type = "UeContextRelease"
                         /\ UeContextRelease(s).oldId = s
    BY DEF UeContextRelease
  <1>2. <<LteCell, c>> \in Links
    BY LinkTypes DEF Underway
  <1>3. CASE c = mmCell /\ (r = mmRnti \/ q = mmRnti)
    BY <1>3 DEF Order, LeaversAreReleased, Leaving
  <1>4. CASE ~(c = mmCell /\ (r = mmRnti \/ q = mmRnti))
    <2>1. /\ UeContextRelease(r) \in On(x2, <<LteCell, c>>)
          /\ UeContextRelease(q) \in On(x2, <<LteCell, c>>)
      BY <1>4 DEF Order, LeaversAreReleased
    <2>2. UeContextRelease(r) = UeContextRelease(q)
      BY <1>1, <1>2, <2>1, OneRelease DEF Order
    <2> QED
      BY <1>1, <2>2
  <1> QED
    BY <1>3, <1>4

\* A step that neither leaves nor removes a context, takes no release from a
\* link, and sends none.
LEMMA OrderKept ==
    ASSUME Underway, Order, UNCHANGED <<mmCell, mmRnti>>,
           \A c \in Cells : rntiOf'[c] = rntiOf[c] \/ ~Idle(c)',
           \A c \in Cells, r \in Rntis :
               /\ Leaving(c, r)' <=> Leaving(c, r)
               /\ State(c, r) # "NONE" => State(c, r)' # "NONE",
           State(mmCell, mmRnti) = "CONNECTED_NORMALLY" =>
               \/ State(mmCell, mmRnti)' = "CONNECTED_NORMALLY"
               \/ \A m \in On(x2, <<LteCell, mmCell>>) : m.type # "UeContextRelease",
           LinksInOrder',
           \A l \in Links : \A m \in On(x2', l) :
               m.type \in {"UeContextRelease", "SwitchConnection"} =>
                   \/ m \in On(x2, l)
                   \/ l = <<LteCell, mmCell>> /\ m = SwitchConnection(mmRnti),
           \A l \in Links : \A m \in On(x2, l) :
               m.type = "UeContextRelease" => m \in On(x2', l)
    PROVE  Order'
  <1>0. /\ mmCell \in Cells /\ mmRnti \in Rntis
        /\ \A l \in Links : On(x2, l) \subseteq Messages
        /\ \A c \in Cells : <<LteCell, c>> \in Links
    BY LinkTypes DEF Underway, TypeOK, CoordinatorType
  <1>1. HomeExists'
    BY <1>0 DEF Order, HomeExists
  <1>2. CoordinatorIsHeard'
    <2> SUFFICES ASSUME NEW c \in Cells, NEW m \in On(x2', <<LteCell, c>>)
                 PROVE  /\ m.type = "UeContextRelease" =>
                              Leaving(c, m.oldId)' /\ (c = mmCell => m.oldId # mmRnti)
                        /\ m.type = "SwitchConnection" => State(c, m.rnti)' # "NONE"
      BY DEF CoordinatorIsHeard
    <2>1. CASE m \in On(x2, <<LteCell, c>>)
      <3>1. m \in Messages
        BY <1>0, <2>1
      <3>2. /\ m.type = "UeContextRelease" => m.oldId \in Rntis
            /\ m.type = "SwitchConnection" => m.rnti \in Rntis
        BY <3>1, MessageTypes
      <3> QED
        BY <2>1, <3>2 DEF Order, CoordinatorIsHeard
    <2>2. CASE <<LteCell, c>> = <<LteCell, mmCell>> /\ m = SwitchConnection(mmRnti)
      <3>1. m.type = "SwitchConnection" /\ m.rnti = mmRnti /\ c = mmCell
        BY <2>2 DEF SwitchConnection
      <3> QED
        BY <1>0, <3>1 DEF Order, HomeExists
    <2> QED
      BY <1>0, <2>1, <2>2
  <1>3. LeaversAreReleased'
    <2> SUFFICES ASSUME NEW c \in Cells, NEW r \in Rntis, Leaving(c, r)',
                        ~(c = mmCell /\ r = mmRnti)
                 PROVE  /\ UeContextRelease(r) \in On(x2', <<LteCell, c>>)
                        /\ c = mmCell => State(mmCell, mmRnti)' = "CONNECTED_NORMALLY"
      BY DEF LeaversAreReleased
    <2>1. /\ UeContextRelease(r) \in On(x2, <<LteCell, c>>)
          /\ c = mmCell => State(mmCell, mmRnti) = "CONNECTED_NORMALLY"
      BY DEF Order, LeaversAreReleased
    <2>2. UeContextRelease(r).type = "UeContextRelease"
      BY DEF UeContextRelease
    <2> QED
      BY <1>0, <2>1, <2>2
  <1>4. LeaverWasLast'
    <2> SUFFICES ASSUME NEW c \in Cells, NEW r \in Rntis,
                        Leaving(c, r)', c # mmCell, Idle(c)'
                 PROVE  r = rntiOf'[c]
      BY DEF LeaverWasLast
    <2>1. Idle(c)
      BY DEF Idle, Leaving
    <2>2. rntiOf'[c] = rntiOf[c]
      OBVIOUS
    <2> QED
      BY <2>1, <2>2 DEF Order, LeaverWasLast
  <1> QED
    BY <1>1, <1>2, <1>3, <1>4 DEF Order

\* What a step that takes a message from a link leaves on the links ...
LEMMA OrderTaken ==
    ASSUME Underway, Order, NEW a, NEW b, NEW type, Arrives(x2, a, b, type),
           NEW m, m = Head(x2[<<a, b>>]), NEW net, net = Taken(x2, a, b)
    PROVE  /\ net \in Networks /\ <<a, b>> \in Links
           /\ m \in On(x2, <<a, b>>) /\ m \in Messages /\ m.type = type
           /\ \A l \in Links : InOrder(net[l])
           /\ \A l \in Links : On(net, l) \subseteq On(x2, l)
           /\ \A l \in Links : \A n \in On(x2, l) : n.type # type => n \in On(net, l)
           /\ type = "UeContextRelease" =>
                 \A n \in On(net, <<a, b>>) :
                     n.type # "UeContextRelease" /\ n # SwitchConnection(m.oldId)
           /\ type = "McHandoverRequest" =>
                 \A n \in On(x2, <<a, b>>) : n.type # "UeContextRelease"
  <1>1. x2 \in Networks /\ x2[<<a, b>>] # <<>> /\ \A l \in Links : InOrder(x2[l])
    BY LinkTypes DEF Underway, Arrives, Order, LinksInOrder
  <1>2. /\ net \in Networks /\ <<a, b>> \in Links
        /\ m \in On(x2, <<a, b>>) /\ m \in Messages /\ m.type = type
        /\ \A l \in Links : On(net, l) \subseteq On(x2, l)
        /\ \A l \in Links : \A n \in On(x2, l) : n.type # type => n \in On(net, l)
    BY LinkTaken DEF Underway
  <1>3. /\ \A l \in Links : InOrder(net[l])
        /\ m.type = "UeContextRelease" =>
              \A n \in On(net, <<a, b>>) :
                  n.type # "UeContextRelease" /\ n # SwitchConnection(m.oldId)
        /\ m.type = "McHandoverRequest" =>
              \A n \in On(x2, <<a, b>>) : n.type # "UeContextRelease"
    BY <1>1, <1>2, TakenInOrder
  <1> QED
    BY <1>2, <1>3

\* ... and one that then sends neither a release nor a switch.
LEMMA OrderSent ==
    ASSUME NEW net \in Networks, \A l \in Links : InOrder(net[l]),
           NEW a, NEW b, <<a, b>> \in Links, NEW m \in Messages,
           m.type \notin {"UeContextRelease", "SwitchConnection"}, x2' = Sent(net, a, b, m)
    PROVE  /\ LinksInOrder'
           /\ \A l \in Links : On(net, l) \subseteq On(x2', l)
           /\ \A l \in Links : \A n \in On(x2', l) :
                 n.type \in {"UeContextRelease", "SwitchConnection"} => n \in On(net, l)
  <1>1. \A n \in On(net, <<a, b>>) :
            /\ m.type = "UeContextRelease" =>
                   n.type \notin {"UeContextRelease", "McHandoverRequest"}
            /\ n.type = "UeContextRelease" => m # SwitchConnection(n.oldId)
    BY DEF SwitchConnection
  <1>2. LinksInOrder'
    BY <1>1, SentInOrder DEF LinksInOrder
  <1>3. /\ \A l \in Links : On(net, l) \subseteq On(x2', l)
        /\ \A l \in Links : \A n \in On(x2', l) : n \in On(net, l) \/ (l = <<a, b>> /\ n = m)
    BY OnSent
  <1> QED
    BY <1>2, <1>3

\* The coordinator asks home for a handover, or tells home that the UE is on
\* LTE.
LEMMA OrderAsked ==
    ASSUME Underway, Order, (\E t \in Cells : Asked(t)) \/ SwitchedOff
    PROVE  Order'
  <1>0. /\ TypeOK /\ x2 \in Networks /\ mmCell \in Cells /\ mmRnti \in Rntis
        /\ last = mmCell /\ \A l \in Links : InOrder(x2[l])
        /\ <<LteCell, mmCell>> \in Links
    BY LinkTypes DEF Underway, TypeOK, CoordinatorType, Home, CoordinatorAtHome,
                     Order, LinksInOrder
  <1>1. UNCHANGED <<ueMan, rntiOf, mmCell, mmRnti>>
    BY DEF Asked, SwitchedOff, view, contexts
  <1>2. ASSUME NEW t \in Cells, Asked(t)
        PROVE  /\ LinksInOrder'
               /\ \A l \in Links : On(x2, l) \subseteq On(x2', l)
               /\ \A l \in Links : \A m \in On(x2', l) :
                     m.type \in {"UeContextRelease", "SwitchConnection"} => m \in On(x2, l)
    <2>1. /\ McHandoverRequest(t) \in Messages
          /\ McHandoverRequest(t).type = "McHandoverRequest"
      BY DEF Messages, McHandoverRequest
    <2>2. x2' = Sent(x2, LteCell, mmCell, McHandoverRequest(t))
      BY <1>0, <1>2 DEF Asked, RequestHandover
    <2> QED
      BY <1>0, <2>1, <2>2, OrderSent
  <1>3. ASSUME SwitchedOff
        PROVE  /\ LinksInOrder'
               /\ \A l \in Links : On(x2, l) \subseteq On(x2', l)
               /\ \A l \in Links : \A m \in On(x2', l) :
                     m \in On(x2, l) \/ (l = <<LteCell, mmCell>> /\ m = SwitchConnection(mmRnti))
    <2>m. PICK m : m = SwitchConnection(mmRnti)
      OBVIOUS
    <2>1. /\ m \in Messages /\ m.type = "SwitchConnection" /\ m.rnti = mmRnti
          /\ x2' = Sent(x2, LteCell, mmCell, m)
      BY <1>0, <1>3, <2>m, OtherMessages DEF SwitchConnection, SwitchedOff
    <2>2. \A n \in On(x2, <<LteCell, mmCell>>) :
              n.type = "UeContextRelease" => n.oldId # mmRnti
      BY <1>0 DEF Order, CoordinatorIsHeard
    <2>3. \A s : SwitchConnection(s).rnti = s
      BY DEF SwitchConnection
    <2>4. \A n \in On(x2, <<LteCell, mmCell>>) :
              /\ m.type = "UeContextRelease" =>
                     n.type \notin {"UeContextRelease", "McHandoverRequest"}
              /\ n.type = "UeContextRelease" => m # SwitchConnection(n.oldId)
      BY <2>1, <2>2, <2>3
    <2>5. LinksInOrder'
      BY <1>0, <2>1, <2>4, SentInOrder DEF LinksInOrder
    <2> QED
      BY <1>0, <2>m, <2>1, <2>5, OnSent
  <1>4. /\ LinksInOrder'
        /\ \A l \in Links : On(x2, l) \subseteq On(x2', l)
        /\ \A l \in Links : \A m \in On(x2', l) :
              m.type \in {"UeContextRelease", "SwitchConnection"} =>
                  m \in On(x2, l) \/ (l = <<LteCell, mmCell>> /\ m = SwitchConnection(mmRnti))
    BY <1>2, <1>3
  <1> QED
    BY <1>1, <1>4, OrderKept DEF State, Leaving

\* Home asks a cell to admit the UE: no release is left on its link.
LEMMA OrderPrepared ==
    ASSUME Underway, Order, NEW c \in Cells, NEW t \in Cells, NEW r \in Rntis, NEW net,
           Prepared(c, r, t, net)
    PROVE  Order'
  <1>0. TypeOK /\ CoordinatorType
    BY DEF Underway, TypeOK
  <1>m. PICK m : m = HandoverRequest(r, ueMan[c][r].rlcRequests)
    OBVIOUS
  <1>1. /\ Arrives(x2, LteCell, c, "McHandoverRequest") /\ net = Taken(x2, LteCell, c)
        /\ <<c, t>> \in Links /\ x2' = Sent(net, c, t, m)
        /\ UNCHANGED <<mmCell, mmRnti, rntiOf>> /\ State(c, r) = "CONNECTED_NORMALLY"
    BY <1>m DEF Prepared, MayPrepare, Underway, view
  <1>2. c = mmCell
    BY HomeRequested DEF Prepared
  <1>3. m \in Messages /\ m.type = "HandoverRequest"
    <2>1. ueMan[c][r].rlcRequests \in SUBSET Drbs
      BY <1>0, ContextsAre DEF Contexts
    <2>2. m \in Messages
      BY <1>m, <2>1 DEF Messages
    <2> QED
      BY <1>m, <2>2 DEF HandoverRequest
  <1>4. /\ net \in Networks /\ \A l \in Links : InOrder(net[l])
        /\ \A l \in Links : On(net, l) \subseteq On(x2, l)
        /\ \A l \in Links : \A n \in On(x2, l) :
              n.type = "UeContextRelease" => n \in On(net, l)
        /\ \A n \in On(x2, <<LteCell, mmCell>>) : n.type # "UeContextRelease"
    BY <1>1, <1>2, OrderTaken
  <1>5. /\ LinksInOrder' /\ \A l \in Links : On(net, l) \subseteq On(x2', l)
        /\ \A l \in Links : \A n \in On(x2', l) :
              n.type \in {"UeContextRelease", "SwitchConnection"} => n \in On(net, l)
    BY <1>1, <1>3, <1>4, OrderSent
  <1>6. /\ State(c, r)' = "HANDOVER_PREPARATION"
        /\ \A d \in Cells, q \in Rntis : <<d, q>> # <<c, r>> => ueMan'[d][q] = ueMan[d][q]
    <2> DEFINE x == [ueMan[c][r] EXCEPT !.state = "HANDOVER_PREPARATION",
                                        !.target = t, !.rlcRequests = {}]
    <2>1. x.state = "HANDOVER_PREPARATION"
      BY <1>0, ContextsAre DEF Contexts
    <2>2. ueMan' = [ueMan EXCEPT ![c][r] = x]
      BY DEF Prepared
    <2> HIDE DEF x
    <2> QED
      BY <1>0, <2>1, <2>2, ContextsAre DEF State
  <1>7. \A d \in Cells, q \in Rntis :
            /\ Leaving(d, q)' <=> Leaving(d, q)
            /\ State(d, q) # "NONE" => State(d, q)' # "NONE"
    BY <1>1, <1>6 DEF State, Leaving
  <1> QED
    BY <1>1, <1>4, <1>5, <1>7, OrderKept

\* A cell answers the request of home.
LEMMA OrderAnswered ==
    ASSUME Underway, Order, NEW a \in Cells, NEW c \in Cells, NEW r \in Rntis,
           Rejected(a, c) \/ Admitted(a, c, r)
    PROVE  Order'
  <1>0. TypeOK /\ mmCell \in Cells /\ mmRnti \in Rntis
    BY DEF Underway, TypeOK, CoordinatorType
  <1>q. PICK req : req = Head(x2[<<a, c>>])
    OBVIOUS
  <1>n. PICK net : net = Taken(x2, a, c)
    OBVIOUS
  <1>1. /\ Arrives(x2, a, c, "HandoverRequest")
        /\ UNCHANGED <<mmCell, mmRnti>>
    BY DEF Rejected, Admitted, view
  <1>2. /\ net \in Networks /\ <<a, c>> \in Links /\ <<c, a>> \in Links
        /\ \A l \in Links : InOrder(net[l])
        /\ \A l \in Links : On(net, l) \subseteq On(x2, l)
        /\ \A l \in Links : \A n \in On(x2, l) :
              n.type = "UeContextRelease" => n \in On(net, l)
        /\ req \in Messages /\ req.type = "HandoverRequest"
    BY <1>1, <1>q, <1>n, OrderTaken DEF Links
  <1>3. PICK m \in Messages :
            /\ m.type \in {"HandoverRequestAck", "HandoverPreparationFailure"}
            /\ x2' = Sent(net, c, a, m)
    <2>1. req.oldId \in Rntis
      BY <1>2, MessageTypes
    <2>2. /\ HandoverRequestAck(req.oldId, r) \in Messages
          /\ HandoverPreparationFailure(req.oldId) \in Messages
          /\ HandoverRequestAck(req.oldId, r).type = "HandoverRequestAck"
          /\ HandoverPreparationFailure(req.oldId).type = "HandoverPreparationFailure"
      BY <2>1, OtherMessages DEF HandoverRequestAck, HandoverPreparationFailure
    <2> QED
      BY <1>q, <1>n, <2>2 DEF Rejected, Admitted
  <1>4. \A d \in Cells, s \in Rntis :
            State(d, s) \notin {"HANDOVER_JOINING", "CONNECTED_NORMALLY"}
    BY <1>1, <1>3, <1>n, HomeAnswered
  <1>5. /\ LinksInOrder' /\ \A l \in Links : On(net, l) \subseteq On(x2', l)
        /\ \A l \in Links : \A n \in On(x2', l) :
              n.type \in {"UeContextRelease", "SwitchConnection"} => n \in On(net, l)
    BY <1>2, <1>3, OrderSent
  <1>6. CASE Rejected(a, c)
    <2>1. UNCHANGED <<ueMan, rntiOf>>
      BY <1>6 DEF Rejected, contexts
    <2> QED
      BY <1>0, <1>1, <1>2, <1>4, <1>5, <2>1, OrderKept DEF State, Leaving
  <1>7. CASE Admitted(a, c, r)
    <2>x. PICK x : x = JoiningContext(a, req)
      OBVIOUS
    <2>1. /\ ~Known(c, r) /\ rntiOf' = [rntiOf EXCEPT ![c] = r]
          /\ ueMan' = [ueMan EXCEPT ![c][r] = x] /\ x.state = "HANDOVER_JOINING"
      BY <1>7, <1>q, <2>x DEF Admitted, JoiningContext
    <2>2. /\ ueMan'[c][r] = x
          /\ \A d \in Cells, q \in Rntis : <<d, q>> # <<c, r>> => ueMan'[d][q] = ueMan[d][q]
          /\ \A d \in Cells : d # c => rntiOf'[d] = rntiOf[d]
      BY <1>0, <2>1, ContextsAre DEF TypeOK, ContextsType
    <2>3. State(c, r) = "NONE" /\ State(c, r)' = "HANDOVER_JOINING"
      BY <2>1, <2>2 DEF Known, State, NoRnti, Rntis
    <2>4. \A d \in Cells : rntiOf'[d] = rntiOf[d] \/ ~Idle(d)'
      BY <2>2, <2>3 DEF Idle
    <2>5. \A d \in Cells, q \in Rntis :
              /\ Leaving(d, q)' <=> Leaving(d, q)
              /\ State(d, q) # "NONE" => State(d, q)' # "NONE"
      BY <2>2, <2>3 DEF State, Leaving
    <2> QED
      BY <1>0, <1>1, <1>2, <1>4, <1>5, <2>4, <2>5, OrderKept
  <1> QED
    BY <1>6, <1>7

\* Home takes the UE back.
LEMMA OrderResumed ==
    ASSUME Underway, Order, NEW a \in Cells, NEW c \in Cells, NEW r \in Rntis,
           Resumed(a, c, r)
    PROVE  Order'
  <1>0. TypeOK /\ Stages /\ mmCell \in Cells /\ mmRnti \in Rntis
    BY DEF Underway, TypeOK, CoordinatorType
  <1>1. /\ Arrives(x2, a, c, "HandoverPreparationFailure") /\ r = Head(x2[<<a, c>>]).oldId
        /\ x2' = Taken(x2, a, c)
        /\ UNCHANGED <<mmCell, mmRnti, rntiOf>>
    BY DEF Resumed, view
  <1>2. State(c, r) = "HANDOVER_PREPARATION"
    BY <1>0, <1>1, LinkEmptied
  <1>3. ChangesState(c, r, "CONNECTED_NORMALLY")
    BY <1>2 DEF Resumed, ChangesState
  <1>4. /\ State(c, r)' = "CONNECTED_NORMALLY"
        /\ \A d \in Cells, q \in Rntis : <<d, q>> # <<c, r>> => ueMan'[d][q] = ueMan[d][q]
    BY <1>0, <1>3, OneState
  <1>5. /\ LinksInOrder'
        /\ \A l \in Links : On(x2', l) \subseteq On(x2, l)
        /\ \A l \in Links : \A n \in On(x2, l) :
              n.type = "UeContextRelease" => n \in On(x2', l)
    <2>m. PICK m, net : m = Head(x2[<<a, c>>]) /\ net = Taken(x2, a, c)
      OBVIOUS
    <2>1. /\ \A l \in Links : InOrder(net[l]) /\ On(net, l) \subseteq On(x2, l)
          /\ \A l \in Links : \A n \in On(x2, l) :
                n.type # "HandoverPreparationFailure" => n \in On(net, l)
      BY <1>1, <2>m, OrderTaken
    <2> QED
      BY <1>1, <2>m, <2>1 DEF LinksInOrder
  <1>6. \A d \in Cells, q \in Rntis :
            /\ Leaving(d, q)' <=> Leaving(d, q)
            /\ State(d, q) # "NONE" => State(d, q)' # "NONE"
            /\ State(d, q) = "CONNECTED_NORMALLY" => State(d, q)' = "CONNECTED_NORMALLY"
    BY <1>2, <1>4 DEF State, Leaving
  <1>7. State(mmCell, mmRnti) = "CONNECTED_NORMALLY" =>
            State(mmCell, mmRnti)' = "CONNECTED_NORMALLY"
    BY <1>0, <1>1, <1>6 DEF State
  <1> QED
    BY <1>1, <1>5, <1>6, <1>7, OrderKept

\* A context hears that the UE is on LTE.
LEMMA OrderForwarding ==
    ASSUME Underway, Order, NEW c \in Cells, NEW r \in Rntis, Forwarding(c, r)
    PROVE  Order'
  <1>0. TypeOK /\ mmCell \in Cells /\ mmRnti \in Rntis
    BY DEF Underway, TypeOK, CoordinatorType
  <1>1. /\ Arrives(x2, LteCell, c, "SwitchConnection") /\ x2' = Taken(x2, LteCell, c)
        /\ UNCHANGED <<mmCell, mmRnti, rntiOf>>
    BY DEF Forwarding, view
  <1>2. \A d \in Cells, q \in Rntis : State(d, q)' = State(d, q)
    <2> DEFINE x == [ueMan[c][r] EXCEPT !.target = LteCell]
    <2>1. x.state = ueMan[c][r].state
      BY <1>0, ContextsAre DEF Contexts
    <2>2. ueMan' = [ueMan EXCEPT ![c][r] = x]
      BY DEF Forwarding
    <2> HIDE DEF x
    <2>3. /\ ueMan'[c][r] = x
          /\ \A d \in Cells, q \in Rntis : <<d, q>> # <<c, r>> => ueMan'[d][q] = ueMan[d][q]
      BY <1>0, <2>2, ContextsAre
    <2> QED
      BY <2>1, <2>3 DEF State
  <1>3. /\ LinksInOrder'
        /\ \A l \in Links : On(x2', l) \subseteq On(x2, l)
        /\ \A l \in Links : \A n \in On(x2, l) :
              n.type = "UeContextRelease" => n \in On(x2', l)
    <2>m. PICK m, net : m = Head(x2[<<LteCell, c>>]) /\ net = Taken(x2, LteCell, c)
      OBVIOUS
    <2>1. /\ \A l \in Links : InOrder(net[l]) /\ On(net, l) \subseteq On(x2, l)
          /\ \A l \in Links : \A n \in On(x2, l) :
                n.type # "SwitchConnection" => n \in On(net, l)
      BY <1>1, <2>m, OrderTaken
    <2> QED
      BY <1>1, <2>m, <2>1 DEF LinksInOrder
  <1>4. State(mmCell, mmRnti)' = State(mmCell, mmRnti)
    BY <1>0, <1>1, <1>2 DEF State
  <1> QED
    BY <1>1, <1>2, <1>3, <1>4, OrderKept DEF Leaving

\* The UE arrives.
LEMMA OrderJoined ==
    ASSUME Underway, Order, NEW c \in Cells, NEW r \in Rntis, Joined(c, r)
    PROVE  Order'
  <1>0. /\ TypeOK /\ Stages /\ x2 \in Networks /\ <<c, LteCell>> \in Links
        /\ mmCell \in Cells /\ mmRnti \in Rntis /\ \A l \in Links : InOrder(x2[l])
    BY LinkTypes DEF Underway, TypeOK, CoordinatorType, Order, LinksInOrder
  <1>m. PICK m : m = SecondaryCellHandoverCompleted(ueMan[c][r].sourceId, r)
    OBVIOUS
  <1>1. /\ State(c, r) = "HANDOVER_JOINING" /\ [cell |-> c, rnti |-> r] \in rrcUp
        /\ x2' = Sent(x2, c, LteCell, m) /\ ChangesState(c, r, "CONNECTED_NORMALLY")
        /\ UNCHANGED <<mmCell, mmRnti, rntiOf>>
    BY <1>m DEF Joined, ChangesState, view
  <1>2. m \in Messages /\ m.type = "SecondaryCellHandoverCompleted"
    <2>1. ueMan[c][r].sourceId \in Rntis
      BY <1>0, <1>1, Arrival
    <2>2. m \in Messages
      BY <1>m, <2>1 DEF Messages
    <2> QED
      BY <1>m, <2>2 DEF SecondaryCellHandoverCompleted
  <1>3. /\ LinksInOrder'
        /\ \A l \in Links : On(x2, l) \subseteq On(x2', l)
        /\ \A l \in Links : \A n \in On(x2', l) :
              n.type \in {"UeContextRelease", "SwitchConnection"} => n \in On(x2, l)
    BY <1>0, <1>1, <1>2, OrderSent
  <1>4. /\ State(c, r)' = "CONNECTED_NORMALLY"
        /\ \A d \in Cells, q \in Rntis : <<d, q>> # <<c, r>> => ueMan'[d][q] = ueMan[d][q]
    BY <1>0, <1>1, OneState
  <1>5. \A d \in Cells, q \in Rntis :
            /\ Leaving(d, q)' <=> Leaving(d, q)
            /\ State(d, q) # "NONE" => State(d, q)' # "NONE"
            /\ State(d, q) = "CONNECTED_NORMALLY" => State(d, q)' = "CONNECTED_NORMALLY"
    BY <1>1, <1>4 DEF State, Leaving
  <1>6. State(mmCell, mmRnti) = "CONNECTED_NORMALLY" =>
            State(mmCell, mmRnti)' = "CONNECTED_NORMALLY"
    BY <1>0, <1>1, <1>5 DEF State
  <1> QED
    BY <1>1, <1>3, <1>5, <1>6, OrderKept

\* Home lets the UE go: it is the only context that is being left there.
LEMMA OrderLeft ==
    ASSUME Underway, Order, NEW a \in Cells, NEW c \in Cells, NEW r \in Rntis,
           NEW m \in Messages, Left(a, c, r, m)
    PROVE  Order'
  <1>0. TypeOK /\ Stages /\ mmCell \in Cells /\ mmRnti \in Rntis
    BY DEF Underway, TypeOK, CoordinatorType
  <1>1. /\ Arrives(x2, a, c, "HandoverRequestAck") /\ m = Head(x2[<<a, c>>])
        /\ r = m.oldId /\ x2' = Taken(x2, a, c)
        /\ UNCHANGED <<mmCell, mmRnti, rntiOf>>
        /\ ChangesState(c, r, "HANDOVER_LEAVING")
    BY DEF Left, view, ChangesState
  <1>2. State(c, r) = "HANDOVER_PREPARATION"
    BY <1>0, <1>1, LinkEmptied
  <1>3. /\ State(c, r)' = "HANDOVER_LEAVING"
        /\ \A d \in Cells, q \in Rntis : <<d, q>> # <<c, r>> => ueMan'[d][q] = ueMan[d][q]
    BY <1>0, <1>1, OneState
  <1>4. /\ LinksInOrder'
        /\ \A l \in Links : On(x2', l) \subseteq On(x2, l)
        /\ \A l \in Links : \A n \in On(x2, l) :
              n.type = "UeContextRelease" => n \in On(x2', l)
        /\ <<a, c>> \in Links /\ m \in On(x2, <<a, c>>) /\ m.type = "HandoverRequestAck"
    <2>n. PICK net : net = Taken(x2, a, c)
      OBVIOUS
    <2>1. /\ \A l \in Links : InOrder(net[l]) /\ On(net, l) \subseteq On(x2, l)
          /\ \A l \in Links : \A n \in On(x2, l) :
                n.type # "HandoverRequestAck" => n \in On(net, l)
          /\ <<a, c>> \in Links /\ m \in On(x2, <<a, c>>) /\ m.type = "HandoverRequestAck"
      BY <1>1, <2>n, OrderTaken
    <2> QED
      BY <1>1, <2>n, <2>1 DEF LinksInOrder
  <1>5. c = mmCell /\ r = mmRnti
    <2>1. Placed(<<a, c>>, m)
      BY <1>4 DEF Underway, Home, MessagesPlaced
    <2> QED
      BY <1>1, <1>4, <2>1 DEF Placed
  <1>6. \A d \in Cells, q \in Rntis :
            /\ Leaving(d, q) => Leaving(d, q)'
            /\ Leaving(d, q)' => Leaving(d, q) \/ (d = mmCell /\ q = mmRnti)
            /\ State(d, q) # "NONE" => State(d, q)' # "NONE"
            /\ d # mmCell => State(d, q)' = State(d, q)
    BY <1>2, <1>3, <1>5 DEF State, Leaving
  <1>7. \A d \in Cells : <<LteCell, d>> \in Links
    BY <1>0, LinkTypes
  <1>8. HomeExists'
    BY <1>0, <1>1, <1>3, <1>5 DEF HomeExists, State
  <1>9. CoordinatorIsHeard'
    <2> SUFFICES ASSUME NEW d \in Cells, NEW n \in On(x2', <<LteCell, d>>)
                 PROVE  /\ n.type = "UeContextRelease" =>
                              Leaving(d, n.oldId)' /\ (d = mmCell => n.oldId # mmRnti)
                        /\ n.type = "SwitchConnection" => State(d, n.rnti)' # "NONE"
      BY <1>1 DEF CoordinatorIsHeard
    <2>1. n \in On(x2, <<LteCell, d>>) /\ n \in Messages
      BY <1>0, <1>4, <1>7, LinkTypes
    <2>2. /\ n.type = "UeContextRelease" => n.oldId \in Rntis
          /\ n.type = "SwitchConnection" => n.rnti \in Rntis
      BY <2>1, MessageTypes
    <2> QED
      BY <1>6, <2>1, <2>2 DEF Order, CoordinatorIsHeard
  <1>10. LeaversAreReleased'
    <2> SUFFICES ASSUME NEW d \in Cells, NEW q \in Rntis, Leaving(d, q)',
                        ~(d = mmCell /\ q = mmRnti)
                 PROVE  /\ UeContextRelease(q) \in On(x2', <<LteCell, d>>)
                        /\ d # mmCell
      BY <1>1 DEF LeaversAreReleased
    <2>1. /\ UeContextRelease(q) \in On(x2, <<LteCell, d>>)
          /\ d = mmCell => State(mmCell, mmRnti) = "CONNECTED_NORMALLY"
      BY <1>6 DEF Order, LeaversAreReleased
    <2>2. UeContextRelease(q).type = "UeContextRelease"
      BY DEF UeContextRelease
    <2> QED
      BY <1>2, <1>4, <1>5, <1>7, <2>1, <2>2
  <1>11. LeaverWasLast'
    <2> SUFFICES ASSUME NEW d \in Cells, NEW q \in Rntis,
                        Leaving(d, q)', d # mmCell, Idle(d)'
                 PROVE  q = rntiOf'[d]
      BY <1>1 DEF LeaverWasLast
    <2>1. Leaving(d, q) /\ Idle(d)
      BY <1>6 DEF Idle
    <2> QED
      BY <1>1, <2>1 DEF Order, LeaverWasLast
  <1> QED
    BY <1>4, <1>8, <1>9, <1>10, <1>11 DEF Order

\* The old context is released: it is not home, and nothing on its link is
\* about it any more.
LEMMA OrderReleased ==
    ASSUME Underway, Order, NEW c \in Cells, NEW r \in Rntis, Released(c, r)
    PROVE  Order'
  <1>0. /\ TypeOK /\ mmCell \in Cells /\ mmRnti \in Rntis /\ x2 \in Networks
        /\ \A d \in Cells : <<LteCell, d>> \in Links
    BY LinkTypes DEF Underway, TypeOK, CoordinatorType
  <1>m. PICK m, net : m = Head(x2[<<LteCell, c>>]) /\ net = Taken(x2, LteCell, c)
    OBVIOUS
  <1>1. /\ Arrives(x2, LteCell, c, "UeContextRelease") /\ m.oldId = r
        /\ x2' = net /\ UNCHANGED <<mmCell, mmRnti, rntiOf>>
        /\ Leaving(c, r) /\ ueMan' = [ueMan EXCEPT ![c][r] = NoContext]
    BY <1>m DEF Released, view, RemoveUe, Leaving
  <1>2. /\ \A l \in Links : InOrder(net[l]) /\ On(net, l) \subseteq On(x2, l)
        /\ \A n \in On(net, <<LteCell, c>>) :
              n.type # "UeContextRelease" /\ n # SwitchConnection(r)
        /\ m \in On(x2, <<LteCell, c>>) /\ m.type = "UeContextRelease"
    BY <1>1, <1>m, OrderTaken
  <1>3. \A l \in Links : \A n \in On(x2, l) :
            n \in On(net, l) \/ (l = <<LteCell, c>> /\ n = m)
    BY <1>0, <1>1, <1>m, OnTaken DEF Arrives
  <1>4. c = mmCell => r # mmRnti
    BY <1>1, <1>2 DEF Order, CoordinatorIsHeard
  <1>5. /\ State(c, r)' = "NONE"
        /\ \A d \in Cells, q \in Rntis : <<d, q>> # <<c, r>> => ueMan'[d][q] = ueMan[d][q]
    BY <1>0, <1>1, ContextsAre DEF State, NoContext
  <1>6. /\ \A d \in Cells, q \in Rntis : <<d, q>> # <<c, r>> => State(d, q)' = State(d, q)
        /\ State(mmCell, mmRnti)' = State(mmCell, mmRnti)
    BY <1>0, <1>1, <1>4, <1>5 DEF State
  <1>7. HomeExists'
    BY <1>6 DEF Order, HomeExists
  <1>8. CoordinatorIsHeard'
    <2> SUFFICES ASSUME NEW d \in Cells, NEW n \in On(x2', <<LteCell, d>>)
                 PROVE  /\ n.type = "UeContextRelease" =>
                              Leaving(d, n.oldId)' /\ (d = mmCell => n.oldId # mmRnti)
                        /\ n.type = "SwitchConnection" => State(d, n.rnti)' # "NONE"
      BY <1>1 DEF CoordinatorIsHeard
    <2>1. n \in On(x2, <<LteCell, d>>) /\ n \in Messages
      BY <1>0, <1>1, <1>2, LinkTypes
    <2>2. /\ n.type = "UeContextRelease" => n.oldId \in Rntis
          /\ n.type = "SwitchConnection" => n.rnti \in Rntis /\ n = SwitchConnection(n.rnti)
      BY <2>1, MessageTypes, SwitchIsItsRnti
    <2>3. d = c => /\ n.type # "UeContextRelease"
                   /\ n.type = "SwitchConnection" => n.rnti # r
      BY <1>1, <1>2, <2>2
    <2> QED
      BY <1>6, <2>1, <2>2, <2>3 DEF Order, CoordinatorIsHeard, Leaving
  <1>9. LeaversAreReleased'
    <2> SUFFICES ASSUME NEW d \in Cells, NEW q \in Rntis, Leaving(d, q)',
                        ~(d = mmCell /\ q = mmRnti)
                 PROVE  /\ UeContextRelease(q) \in On(x2', <<LteCell, d>>)
                        /\ d = mmCell => State(mmCell, mmRnti)' = "CONNECTED_NORMALLY"
      BY <1>1 DEF LeaversAreReleased, State
    <2>1. <<d, q>> # <<c, r>> /\ Leaving(d, q)
      BY <1>5, <1>6 DEF Leaving
    <2>2. /\ UeContextRelease(q) \in On(x2, <<LteCell, d>>)
          /\ d = mmCell => State(mmCell, mmRnti) = "CONNECTED_NORMALLY"
      BY <2>1 DEF Order, LeaversAreReleased
    <2>3. UeContextRelease(q).oldId = q
      BY DEF UeContextRelease
    <2> QED
      BY <1>0, <1>1, <1>3, <1>6, <2>1, <2>2, <2>3
  <1>10. LeaverWasLast'
    <2> SUFFICES ASSUME NEW d \in Cells, NEW q \in Rntis,
                        Leaving(d, q)', d # mmCell, Idle(d)'
                 PROVE  q = rntiOf'[d]
      BY <1>1 DEF LeaverWasLast
    <2>1. Leaving(d, q)
      BY <1>5, <1>6 DEF Leaving
    <2>2. Idle(d)
      BY <1>1, <1>6 DEF Idle, Leaving
    <2> QED
      BY <1>1, <2>1, <2>2 DEF Order, LeaverWasLast
  <1>11. LinksInOrder'
    BY <1>1, <1>2 DEF LinksInOrder
  <1> QED
    BY <1>7, <1>8, <1>9, <1>10, <1>11 DEF Order

\* The coordinator hears that the UE has arrived: the old home is being left,
\* and its release is the only one on the way there.
LEMMA OrderConfirmed ==
    ASSUME Underway, Order, NEW c \in Cells, RecvSecondaryCellHandoverCompleted(c)
    PROVE  Order'
  <1>0. /\ TypeOK /\ Stages /\ mmCell \in Cells /\ mmRnti \in Rntis /\ x2 \in Networks
        /\ \A d \in Cells : <<LteCell, d>> \in Links /\ <<d, LteCell>> \in Links /\ d # LteCell
    BY LinkTypes DEF Underway, TypeOK, CoordinatorType
  <1>m. PICK m, net : m = Head(x2[<<c, LteCell>>]) /\ net = Taken(x2, c, LteCell)
    OBVIOUS
  <1>n. PICK release : release = UeContextRelease(m.oldId)
    OBVIOUS
  <1>1. Arrives(x2, c, LteCell, "SecondaryCellHandoverCompleted")
    BY DEF RecvSecondaryCellHandoverCompleted
  <1>2. /\ m.rnti = rntiOf[c] /\ m.rnti \in Rntis /\ m.oldId = mmRnti /\ c # mmCell
        /\ State(c, m.rnti) = "CONNECTED_NORMALLY"
        /\ \A d \in Cells, s \in Rntis : State(d, s) # "HANDOVER_JOINING"
        /\ \A l \in Links : \A n \in On(x2, l) :
              n.type \in HandoverTypes => l = <<c, LteCell>> /\ n = m
    BY <1>1, <1>m, CompletionArrives
  <1>3. /\ mmCell' = c /\ mmRnti' = m.rnti
        /\ x2' = Sent(net, LteCell, mmCell, release)
        /\ UNCHANGED <<ueMan, rntiOf>>
    BY <1>m, <1>n DEF RecvSecondaryCellHandoverCompleted, contexts
  <1>4. /\ release \in Messages /\ release.type = "UeContextRelease"
        /\ release.oldId = mmRnti /\ release = UeContextRelease(mmRnti)
    <2>1. release = UeContextRelease(mmRnti)
      BY <1>2, <1>n
    <2> QED
      BY <1>0, <2>1, OtherMessages DEF UeContextRelease
  <1>5. /\ net \in Networks /\ \A l \in Links : InOrder(net[l])
        /\ \A l \in Links : On(net, l) \subseteq On(x2, l)
        /\ \A l \in Links : \A n \in On(x2, l) :
              n.type # "SecondaryCellHandoverCompleted" => n \in On(net, l)
    BY <1>1, <1>m, OrderTaken
  <1>6. Leaving(mmCell, mmRnti)
    <2>1. ueMan[mmCell][mmRnti].state \in UeStates
      BY <1>0, ContextsAre DEF Contexts
    <2>2. State(mmCell, mmRnti) # "NONE"
      BY DEF Order, HomeExists
    <2>3. ~Serving(mmCell, mmRnti)
      BY <1>0, <1>2, ServingIsAlone DEF Serving
    <2> QED
      BY <1>0, <1>2, <2>1, <2>2, <2>3 DEF State, Serving, UeStates, Leaving
  <1>7. \A n \in On(net, <<LteCell, mmCell>>) :
            n.type \notin {"UeContextRelease", "McHandoverRequest"}
    <2> SUFFICES ASSUME NEW n \in On(net, <<LteCell, mmCell>>)
                 PROVE  n.type # "UeContextRelease" /\ n.type # "McHandoverRequest"
      OBVIOUS
    <2>1. n \in On(x2, <<LteCell, mmCell>>) /\ n \in Messages
      BY <1>0, <1>5, LinkTypes
    <2>2. n.type # "McHandoverRequest"
      BY <1>0, <1>2, <2>1 DEF HandoverTypes
    <2>3. ASSUME n.type = "UeContextRelease" PROVE FALSE
      <3>1. n.oldId \in Rntis
        BY <2>1, <2>3, MessageTypes
      <3>2. Leaving(mmCell, n.oldId) /\ n.oldId # mmRnti
        BY <1>0, <2>1, <2>3 DEF Order, CoordinatorIsHeard
      <3> QED
        BY <1>0, <1>6, <3>1, <3>2, OneLeaver
    <2> QED
      BY <2>2, <2>3
  <1>8. LinksInOrder'
    <2>1. \A l \in Links : InOrder(Sent(net, LteCell, mmCell, release)[l])
      BY <1>4, <1>5, <1>7, SentInOrder
    <2> QED
      BY <1>3, <2>1 DEF LinksInOrder
  <1>9. /\ release \in On(x2', <<LteCell, mmCell>>)
        /\ \A l \in Links : On(net, l) \subseteq On(x2', l)
        /\ \A l \in Links : \A n \in On(x2', l) :
              n \in On(net, l) \/ (l = <<LteCell, mmCell>> /\ n = release)
    BY <1>0, <1>3, <1>4, <1>5, OnSent
  <1>10. HomeExists'
    BY <1>2, <1>3 DEF HomeExists, State
  <1>11. CoordinatorIsHeard'
    <2> SUFFICES ASSUME NEW d \in Cells, NEW n \in On(x2', <<LteCell, d>>)
                 PROVE  /\ n.type = "UeContextRelease" =>
                              Leaving(d, n.oldId) /\ (d = c => n.oldId # m.rnti)
                        /\ n.type = "SwitchConnection" => State(d, n.rnti) # "NONE"
      BY <1>3 DEF CoordinatorIsHeard, Leaving, State
    <2>1. CASE n \in On(x2, <<LteCell, d>>)
      BY <1>2, <2>1 DEF Order, CoordinatorIsHeard, Leaving
    <2>2. CASE d = mmCell /\ n = release
      BY <1>2, <1>4, <1>6, <2>2
    <2> QED
      BY <1>0, <1>5, <1>9, <2>1, <2>2
  <1>12. LeaversAreReleased'
    <2> SUFFICES ASSUME NEW d \in Cells, NEW q \in Rntis, Leaving(d, q)
                 PROVE  UeContextRelease(q) \in On(x2', <<LteCell, d>>)
      BY <1>2, <1>3 DEF LeaversAreReleased, Leaving, State
    <2>1. CASE d = mmCell /\ q = mmRnti
      BY <1>4, <1>9, <2>1
    <2>2. CASE ~(d = mmCell /\ q = mmRnti)
      <3>1. UeContextRelease(q) \in On(x2, <<LteCell, d>>)
        BY <2>2 DEF Order, LeaversAreReleased
      <3>2. UeContextRelease(q).type = "UeContextRelease"
        BY DEF UeContextRelease
      <3> QED
        BY <1>0, <1>5, <1>9, <3>1, <3>2
    <2> QED
      BY <2>1, <2>2
  <1>13. LeaverWasLast'
    <2> SUFFICES ASSUME NEW d \in Cells, NEW q \in Rntis, Leaving(d, q), d # c, Idle(d)
                 PROVE  q = rntiOf[d]
      BY <1>3 DEF LeaverWasLast, Leaving, Idle, State
    <2>1. CASE d = mmCell
      <3>1. q = mmRnti
        BY <1>0, <1>6, <2>1, OneLeaver
      <3> QED
        BY <2>1, <3>1 DEF Underway, Home, CoordinatorAtHome
    <2> QED
      BY <2>1 DEF Order, LeaverWasLast
  <1> QED
    BY <1>8, <1>10, <1>11, <1>12, <1>13 DEF Order

\* A step that touches no context and no link.
LEMMA OrderStill ==
    ASSUME Underway, Order, UNCHANGED <<mmCell, mmRnti, rntiOf, ueMan, x2>>
    PROVE  Order'
  BY OrderKept DEF State, Leaving, Order, LinksInOrder

\* All is in order, initially and after every step.
LEMMA OrderInit == Init => Order
  <1> SUFFICES ASSUME Init PROVE Order
    OBVIOUS
  <1>1. \A l \in Links : On(x2, l) = {} /\ InOrder(x2[l])
    BY DEF Init, NoTraffic, On, InOrder
  <1>2. /\ State(FirstCell, 1) = "CONNECTED_NORMALLY"
        /\ \A c \in Cells, r \in Rntis : State(c, r) # "HANDOVER_LEAVING"
    BY HandoverAssumption, RntiAssumption DEF Init, State, NoContext, Rntis
  <1>3. \A c \in Cells : <<LteCell, c>> \in Links
    BY CellsAssumption DEF Links, Nodes
  <1> QED
    BY <1>1, <1>2, <1>3 DEF Init, Order, LinksInOrder, HomeExists, CoordinatorIsHeard,
       LeaversAreReleased, LeaverWasLast, Leaving

\* Every step keeps the order of the messages.
LEMMA OrderStep ==
    ASSUME ~RadioMayFail, Underway, Order, [Next]_vars
    PROVE  Order'
  <1>0. TypeOK
    BY DEF Underway
  <1>1. CASE CoordinatorEffect
    <2>1. CASE Quiet
      BY <2>1, OrderStill DEF Quiet, contexts, view
    <2>2. CASE (\E t \in Cells : Asked(t)) \/ SwitchedOff
      BY <2>2, OrderAsked
    <2>3. CASE \E c \in Cells : RecvSecondaryCellHandoverCompleted(c)
      BY <2>3, OrderConfirmed
    <2> QED
      BY <1>1, <2>1, <2>2, <2>3 DEF CoordinatorEffect
  <1>2. CASE CellEffect
    <2>1. ASSUME NEW c \in Cells, NEW t \in Cells, NEW r \in Rntis, NEW net,
                 Prepared(c, r, t, net)
          PROVE  Order'
      BY <2>1, OrderPrepared
    <2>2. ASSUME NEW c \in Cells, NEW t \in Cells, NEW r \in Rntis, NEW net,
                 Deferred(c, r, t, net)
          PROVE  FALSE
      BY <2>2, HomeRequested DEF Deferred
    <2>3. ASSUME NEW a \in Cells, NEW c \in Cells, Rejected(a, c) PROVE Order'
      <3>1. 1 \in Rntis
        BY RntiAssumption DEF Rntis
      <3> QED
        BY <2>3, <3>1, OrderAnswered
    <2>4. ASSUME NEW a \in Cells, NEW c \in Cells, NEW r \in Rntis,
                 Admitted(a, c, r) \/ Resumed(a, c, r)
          PROVE  Order'
      BY <2>4, OrderAnswered, OrderResumed
    <2>5. ASSUME NEW a \in Cells, NEW c \in Cells, NEW r \in Rntis, NEW m \in Messages,
                 Left(a, c, r, m)
          PROVE  Order'
      BY <2>5, OrderLeft
    <2>6. ASSUME NEW c \in Cells, NEW r \in Rntis, Released(c, r) \/ Forwarding(c, r)
          PROVE  Order'
      BY <2>6, OrderReleased, OrderForwarding
    <2> QED
      BY <1>2, <2>1, <2>2, <2>3, <2>4, <2>5, <2>6 DEF CellEffect
  <1>3. CASE UeEffect
    <2>1. ASSUME NEW c \in Cells, NEW r \in Rntis, Joined(c, r) PROVE Order'
      BY <2>1, OrderJoined
    <2>2. ASSUME NEW c \in Cells, NEW r \in Rntis, JoiningExpired(c, r) \/ Removed(c, r)
          PROVE  FALSE
      BY <2>2, NothingFails DEF JoiningExpired, Removed
    <2>3. ASSUME NEW c \in Cells, NEW t \in Cells, NEW r \in Rntis,
                 JoinedAndPrepared(c, r, t)
          PROVE  FALSE
      BY <2>3, TokenOn DEF JoinedAndPrepared, Underway
    <2>4. ASSUME \/ \E c \in Cells, r \in Rntis : Unheard(c, r)
                 \/ \E m \in rrcDown : Followed(m)
                 \/ Reached \/ Missed
          PROVE  Order'
      BY <2>4, OrderStill DEF Unheard, Followed, Reached, Missed, contexts, view
    <2> QED
      BY <1>3, <2>1, <2>2, <2>3, <2>4 DEF UeEffect
  <1> QED
    BY <1>0, <1>1, <1>2, <1>3, StepEffects

\* Without RIC Control requests and failures of the radio, the messages of the
\* coordinator reach contexts that are there and that expect them, in the
\* order in which they can be handled: a cell gets the release of its old
\* context before the next request for a handover, and after every switch of
\* that context.
THEOREM MessagesInOrder ==
    ASSUME ~RicControl, ~RadioMayFail
    PROVE  Spec => [](Underway /\ Bearers /\ Order)
  <1>1. Init => Bearers /\ Order
    BY BearersInit, OrderInit
  <1>2. Underway /\ Bearers /\ Order /\ [Next]_vars => Bearers' /\ Order'
    BY BearersStep, OrderStep
  <1>3. Spec => []Underway
    BY HomeIsKnown
  <1> QED
    BY <1>1, <1>2, <1>3, PTL DEF Spec
-----------------------------------------------------------------------------
(***************************************************************************)
(* Forwarding: a cell forwards the bearers of the context that it leaves.  *)
(***************************************************************************)
Forwards(c) ==
    /\ teidFwd[c] \subseteq Drbs
    /\ (\E r \in Rntis : Leaving(c, r)) => teidFwd[c] = Drbs
    /\ (\A r \in Rntis : ~Leaving(c, r)) => teidFwd[c] = {}

\* All contexts have all bearers, so that what is left forwards all of them.
LEMMA ForwardsAll ==
    ASSUME ContextsHaveRlc, \A c \in Cells : Forwards(c)
    PROVE  ForwardsWhileLeaving
  <1> SUFFICES ASSUME NEW c \in Cells
               PROVE  teidFwd[c] = UNION {ueMan[c][r].rlc : r \in {s \in Rntis :
                                       ueMan[c][s].state = "HANDOVER_LEAVING"}}
    BY DEF ForwardsWhileLeaving
  <1>1. Forwards(c)
    OBVIOUS
  <1>2. \A r \in Rntis : Leaving(c, r) => ueMan[c][r].rlc = Drbs
    BY DEF ContextsHaveRlc, Leaving, State, Known, NoRnti, Rntis
  <1>3. CASE \E r \in Rntis : Leaving(c, r)
    BY <1>1, <1>2, <1>3 DEF Forwards, Leaving, State
  <1>4. CASE \A r \in Rntis : ~Leaving(c, r)
    BY <1>1, <1>4 DEF Forwards, Leaving, State
  <1> QED
    BY <1>3, <1>4

\* A context that is replaced is in the state of the new one.
LEMMA OneContext ==
    ASSUME TypeOK, NEW c \in Cells, NEW r \in Rntis, NEW x,
           ueMan' = [ueMan EXCEPT ![c][r] = x]
    PROVE  /\ State(c, r)' = x.state
           /\ \A d \in Cells, q \in Rntis : <<d, q>> # <<c, r>> => State(d, q)' = State(d, q)
  BY ContextsAre DEF State

\* Which contexts are being left, and what is forwarded, changes only when a
\* context is left and when it is released.
LEMMA LeaversStay ==
    ASSUME ~RadioMayFail, Underway, CoordinatorEffect \/ CellEffect \/ UeEffect
    PROVE  \/ teidFwd' = teidFwd /\ \A c \in Cells, r \in Rntis : Leaving(c, r)' <=> Leaving(c, r)
           \/ \E a, c \in Cells, r \in Rntis : \E m \in Messages : Left(a, c, r, m)
           \/ \E c \in Cells, r \in Rntis : Released(c, r)
  <1> DEFINE Stay == /\ teidFwd' = teidFwd
                     /\ \A c \in Cells, r \in Rntis : Leaving(c, r)' <=> Leaving(c, r)
  <1>0. TypeOK
    BY DEF Underway
  <1>1. ASSUME UNCHANGED <<ueMan, teidFwd>> PROVE Stay
    BY <1>1 DEF Leaving, State
  <1>2. ASSUME NEW c \in Cells, NEW r \in Rntis, NEW x, ~Leaving(c, r),
               x.state # "HANDOVER_LEAVING", ueMan' = [ueMan EXCEPT ![c][r] = x],
               teidFwd' = teidFwd
        PROVE  Stay
    <2>1. State(c, r)' = x.state
      BY <1>0, <1>2, OneContext
    <2>2. ~Leaving(c, r)'
      BY <1>2, <2>1 DEF Leaving
    <2>3. \A d \in Cells, q \in Rntis : <<d, q>> # <<c, r>> => State(d, q)' = State(d, q)
      BY <1>0, <1>2, OneContext
    <2>4. \A d \in Cells, q \in Rntis : Leaving(d, q)' <=> Leaving(d, q)
      <3> TAKE d \in Cells, q \in Rntis
      <3>1. CASE d = c /\ q = r
        BY <1>2, <2>2, <3>1
      <3>2. CASE ~(d = c /\ q = r)
        BY <2>3, <3>2 DEF Leaving
      <3> QED
        BY <3>1, <3>2
    <2> QED
      BY <1>2, <2>4
  <1>3. CASE CoordinatorEffect
    BY <1>1, <1>3 DEF CoordinatorEffect, Quiet, Asked, SwitchedOff,
                      RecvSecondaryCellHandoverCompleted, contexts
  <1>4. CASE \/ \E c \in Cells, r \in Rntis : Unheard(c, r)
             \/ \E m \in rrcDown : Followed(m)
             \/ Reached \/ Missed
             \/ \E a, c \in Cells : Rejected(a, c)
    BY <1>1, <1>4 DEF Unheard, Followed, Reached, Missed, Rejected, contexts
  <1>5. ASSUME NEW c \in Cells, NEW r \in Rntis, JoiningExpired(c, r) \/ Removed(c, r)
        PROVE  FALSE
    BY <1>5, NothingFails DEF JoiningExpired, Removed
  <1>6. ASSUME NEW c \in Cells, NEW t \in Cells, NEW r \in Rntis, NEW net,
               Deferred(c, r, t, net)
        PROVE  FALSE
    BY <1>6, HomeRequested DEF Deferred
  <1>7. ASSUME NEW c \in Cells, NEW t \in Cells, NEW r \in Rntis,
               JoinedAndPrepared(c, r, t)
        PROVE  FALSE
    BY <1>7, TokenOn DEF JoinedAndPrepared, Underway
  <1>8. ASSUME NEW c \in Cells, NEW t \in Cells, NEW r \in Rntis, NEW net,
               Prepared(c, r, t, net)
        PROVE  Stay
    <2> DEFINE x == [ueMan[c][r] EXCEPT !.state = "HANDOVER_PREPARATION",
                                        !.target = t, !.rlcRequests = {}]
    <2>1. x.state = "HANDOVER_PREPARATION"
      BY <1>0, ContextsAre DEF Contexts
    <2>2. /\ ueMan' = [ueMan EXCEPT ![c][r] = x] /\ teidFwd' = teidFwd
          /\ ~Leaving(c, r)
      BY <1>8 DEF Prepared, Leaving
    <2> HIDE DEF x
    <2> QED
      BY <1>2, <2>1, <2>2
  <1>9. ASSUME NEW a \in Cells, NEW c \in Cells, NEW r \in Rntis, Admitted(a, c, r)
        PROVE  Stay
    <2>x. PICK x : x = JoiningContext(a, Head(x2[<<a, c>>]))
      OBVIOUS
    <2>1. /\ ueMan' = [ueMan EXCEPT ![c][r] = x] /\ x.state = "HANDOVER_JOINING"
          /\ teidFwd' = teidFwd /\ ~Leaving(c, r)
      BY <1>9, <2>x DEF Admitted, JoiningContext, Known, Leaving, State, NoRnti, Rntis
    <2> QED
      BY <1>2, <2>1
  <1>10. ASSUME NEW a \in Cells, NEW c \in Cells, NEW r \in Rntis, Resumed(a, c, r)
         PROVE  Stay
    <2>1. /\ Arrives(x2, a, c, "HandoverPreparationFailure")
          /\ r = Head(x2[<<a, c>>]).oldId /\ x2' = Taken(x2, a, c) /\ teidFwd' = teidFwd
      BY <1>10 DEF Resumed
    <2>2. State(c, r) = "HANDOVER_PREPARATION"
      BY <1>0, <2>1, LinkEmptied DEF Underway
    <2>3. ChangesState(c, r, "CONNECTED_NORMALLY")
      BY <1>10, <2>2 DEF Resumed, ChangesState
    <2> QED
      BY <1>0, <2>1, <2>2, <2>3, OneState DEF Leaving, State
  <1>11. ASSUME NEW c \in Cells, NEW r \in Rntis, Forwarding(c, r) PROVE Stay
    <2>x. PICK x, s : x = [ueMan[c][r] EXCEPT !.target = LteCell] /\ s = State(c, r)
      OBVIOUS
    <2>1. x.state = s
      BY <1>0, <2>x, ContextsAre DEF Contexts, State
    <2>2. ueMan' = [ueMan EXCEPT ![c][r] = x] /\ teidFwd' = teidFwd
      BY <1>11, <2>x DEF Forwarding
    <2>3. /\ State(c, r)' = s
          /\ \A d \in Cells, q \in Rntis : <<d, q>> # <<c, r>> => State(d, q)' = State(d, q)
      BY <1>0, <2>1, <2>2, OneContext
    <2>4. \A d \in Cells, q \in Rntis : State(d, q)' = State(d, q)
      BY <2>x, <2>3 DEF State
    <2> QED
      BY <2>2, <2>4 DEF Leaving
  <1>12. ASSUME NEW c \in Cells, NEW r \in Rntis, Joined(c, r) PROVE Stay
    <2>1. ChangesState(c, r, "CONNECTED_NORMALLY") /\ State(c, r) = "HANDOVER_JOINING"
      BY <1>12 DEF Joined, ChangesState
    <2> QED
      BY <1>0, <1>12, <2>1, OneState DEF Leaving, State, Joined
  <1> HIDE DEF Stay
  <1>13. CASE CellEffect
    BY <1>4, <1>6, <1>8, <1>9, <1>10, <1>11, <1>13 DEF CellEffect, Stay
  <1>14. CASE UeEffect
    BY <1>4, <1>5, <1>7, <1>12, <1>14 DEF UeEffect, Stay
  <1> QED
    BY <1>3, <1>13, <1>14 DEF Stay

\* A cell that leaves a context forwards all bearers from then on; when the
\* context is released it forwards none, for it leaves no other.
LEMMA ForwardsStep ==
    ASSUME ~RadioMayFail, Underway, Bearers, Order, \A c \in Cells : Forwards(c), [Next]_vars
    PROVE  \A c \in Cells : Forwards(c)'
  <1>0. TypeOK /\ teidFwd \in [Cells -> SUBSET Drbs] /\ ContextsHaveRlc
    BY DEF Underway, TypeOK, ContextsType, Bearers
  <1>1. CASE teidFwd' = teidFwd /\ \A c \in Cells, r \in Rntis : Leaving(c, r)' <=> Leaving(c, r)
    BY <1>1 DEF Forwards
  <1>2. ASSUME NEW a \in Cells, NEW c \in Cells, NEW r \in Rntis, NEW m \in Messages,
               Left(a, c, r, m)
        PROVE  \A d \in Cells : Forwards(d)'
    <2>1. /\ Arrives(x2, a, c, "HandoverRequestAck") /\ m = Head(x2[<<a, c>>])
          /\ r = m.oldId /\ x2' = Taken(x2, a, c)
          /\ ChangesState(c, r, "HANDOVER_LEAVING")
          /\ teidFwd' = [teidFwd EXCEPT ![c] = @ \cup ueMan[c][r].rlc]
      BY <1>2 DEF Left, ChangesState
    <2>2. State(c, r) = "HANDOVER_PREPARATION"
      BY <1>0, <2>1, LinkEmptied DEF Underway
    <2>3. ueMan[c][r].rlc = Drbs
      BY <1>0, <2>2 DEF ContextsHaveRlc, Known, State, NoRnti, Rntis
    <2>4. teidFwd'[c] = Drbs /\ \A d \in Cells : d # c => teidFwd'[d] = teidFwd[d]
      BY <1>0, <2>1, <2>3
    <2>5. /\ Leaving(c, r)'
          /\ \A d \in Cells, q \in Rntis : d # c => (Leaving(d, q)' <=> Leaving(d, q))
      BY <1>0, <2>1, OneState DEF Leaving, State
    <2> QED
      BY <2>4, <2>5 DEF Forwards
  <1>3. ASSUME NEW c \in Cells, NEW r \in Rntis, Released(c, r)
        PROVE  \A d \in Cells : Forwards(d)'
    <2>1. /\ Leaving(c, r) /\ ueMan' = [ueMan EXCEPT ![c][r] = NoContext]
          /\ teidFwd' = [teidFwd EXCEPT ![c] = @ \ ueMan[c][r].rlc]
      BY <1>3 DEF Released, RemoveUe, Leaving
    <2>2. ueMan[c][r].rlc = Drbs
      BY <1>0, <2>1 DEF ContextsHaveRlc, Known, Leaving, State, NoRnti, Rntis
    <2>3. teidFwd'[c] = {} /\ \A d \in Cells : d # c => teidFwd'[d] = teidFwd[d]
      BY <1>0, <2>1, <2>2
    <2>4. /\ State(c, r)' = "NONE"
          /\ \A d \in Cells, q \in Rntis : <<d, q>> # <<c, r>> => State(d, q)' = State(d, q)
      <3>x. PICK x : x = NoContext
        OBVIOUS
      <3>1. x.state = "NONE" /\ ueMan' = [ueMan EXCEPT ![c][r] = x]
        BY <2>1, <3>x DEF NoContext
      <3> QED
        BY <1>0, <3>1, OneContext
    <2>5. \A q \in Rntis : ~Leaving(c, q)'
      BY <2>1, <2>4, OneLeaver DEF Leaving
    <2> QED
      BY <2>3, <2>4, <2>5 DEF Forwards, Leaving
  <1>4. CoordinatorEffect \/ CellEffect \/ UeEffect
    BY <1>0, StepEffects
  <1> QED
    BY <1>1, <1>2, <1>3, <1>4, LeaversStay

\* At the start no one leaves.
LEMMA ForwardsInit == Init => \A c \in Cells : Forwards(c)
  <1> SUFFICES ASSUME Init PROVE \A c \in Cells : Forwards(c)
    OBVIOUS
  <1>1. \A c \in Cells : teidFwd[c] = {}
    BY DEF Init
  <1>2. \A c \in Cells, r \in Rntis : ~Leaving(c, r)
    BY HandoverAssumption DEF Init, Leaving, State, NoContext
  <1> QED
    BY <1>1, <1>2 DEF Forwards

\* Without RIC Control requests and failures of the radio, X2-U forwards the
\* bearers of exactly the contexts that are being left: no TEID is forwarded
\* twice, none is left behind when the context is removed.
THEOREM LeaversForward ==
    ASSUME ~RicControl, ~RadioMayFail
    PROVE  Spec => []ForwardsWhileLeaving
  <1> DEFINE F == \A c \in Cells : Forwards(c)
  <1>1. Init => F
    BY ForwardsInit
  <1>2. Underway /\ Bearers /\ Order /\ F /\ [Next]_vars => F'
    BY ForwardsStep
  <1>3. Spec => [](Underway /\ Bearers /\ Order)
    BY MessagesInOrder
  <1>4. Bearers /\ F => ForwardsWhileLeaving
    BY ForwardsAll DEF Bearers
  <1> HIDE DEF F
  <1> QED
    BY <1>1, <1>2, <1>3, <1>4, PTL DEF Spec
-----------------------------------------------------------------------------
(***************************************************************************)
(* No assertion fails when handovers are the coordinator's automatic ones, *)
(* every cell admits the UE and the radio is good.                         *)
(***************************************************************************)
Rejections == {"HandoverPreparationFailure"}

\* A message of another type is no rejection.
LEMMA SentNoRejection ==
    ASSUME NEW net \in Networks, NoneOf(net, Rejections), NEW a, NEW b,
           <<a, b>> \in Links, NEW m \in Messages, m.type \notin Rejections
    PROVE  NoneOf(Sent(net, a, b, m), Rejections)
  BY OnSent DEF NoneOf

\* A message that is taken leaves no rejection behind that was not there.
LEMMA TakenNoRejection ==
    ASSUME TypeOK, NoneOf(x2, Rejections), NEW a, NEW b, NEW type, Arrives(x2, a, b, type)
    PROVE  Taken(x2, a, b) \in Networks /\ NoneOf(Taken(x2, a, b), Rejections)
  BY LinkTaken DEF NoneOf

\* No step of a cell that admits the UE sends a rejection.
LEMMA NoRejectionStep ==
    ASSUME AdmittingCells = Cells, Underway, NoneOf(x2, Rejections), [Next]_vars
    PROVE  NoneOf(x2, Rejections)'
  <1>0. /\ TypeOK /\ Stages /\ x2 \in Networks /\ mmCell \in Cells /\ mmRnti \in Rntis
        /\ last = mmCell
        /\ \A c \in Cells : <<c, LteCell>> \in Links /\ <<LteCell, c>> \in Links
    BY LinkTypes DEF Underway, TypeOK, CoordinatorType, Home, CoordinatorAtHome
  <1>1. ASSUME x2' = x2 PROVE NoneOf(x2, Rejections)'
    BY <1>1 DEF NoneOf
  <1>2. ASSUME NEW a, NEW b, NEW type, Arrives(x2, a, b, type), x2' = Taken(x2, a, b)
        PROVE  NoneOf(x2, Rejections)'
    BY <1>0, <1>2, TakenNoRejection
  <1>3. ASSUME NEW net \in Networks, NoneOf(net, Rejections), NEW a, NEW b,
               <<a, b>> \in Links, NEW m \in Messages, m.type \notin Rejections,
               x2' = Sent(net, a, b, m)
        PROVE  NoneOf(x2, Rejections)'
    BY <1>3, SentNoRejection
  <1>4. CASE CoordinatorEffect
    <2>1. ASSUME NEW t \in Cells, Asked(t) PROVE NoneOf(x2, Rejections)'
      <3>m. PICK m : m = McHandoverRequest(t)
        OBVIOUS
      <3>1. /\ m \in Messages /\ m.type \notin Rejections
            /\ x2' = Sent(x2, LteCell, mmCell, m)
        BY <1>0, <2>1, <3>m DEF Messages, McHandoverRequest, Rejections, Asked, RequestHandover
      <3> QED
        BY <1>0, <1>3, <3>1
    <2>2. CASE SwitchedOff
      <3>m. PICK m : m = SwitchConnection(mmRnti)
        OBVIOUS
      <3>1. /\ m \in Messages /\ m.type \notin Rejections
            /\ x2' = Sent(x2, LteCell, mmCell, m)
        BY <1>0, <2>2, <3>m, OtherMessages DEF SwitchConnection, Rejections, SwitchedOff
      <3> QED
        BY <1>0, <1>3, <3>1
    <2>3. ASSUME NEW c \in Cells, RecvSecondaryCellHandoverCompleted(c)
          PROVE  NoneOf(x2, Rejections)'
      <3>m. PICK m, net, n : /\ m = Head(x2[<<c, LteCell>>]) /\ net = Taken(x2, c, LteCell)
                             /\ n = UeContextRelease(m.oldId)
        OBVIOUS
      <3>1. /\ Arrives(x2, c, LteCell, "SecondaryCellHandoverCompleted")
            /\ x2' = Sent(net, LteCell, mmCell, n)
        BY <2>3, <3>m DEF RecvSecondaryCellHandoverCompleted
      <3>2. m.oldId = mmRnti
        BY <3>1, <3>m, CompletionArrives
      <3>3. n \in Messages /\ n.type \notin Rejections
        BY <1>0, <3>m, <3>2, OtherMessages DEF UeContextRelease, Rejections
      <3>4. net \in Networks /\ NoneOf(net, Rejections)
        BY <1>0, <3>m, <3>1, TakenNoRejection
      <3> QED
        BY <1>0, <1>3, <3>1, <3>3, <3>4
    <2> QED
      BY <1>1, <1>4, <2>1, <2>2, <2>3 DEF CoordinatorEffect, Quiet
  <1>5. CASE CellEffect
    <2>1. ASSUME NEW c \in Cells, NEW t \in Cells, NEW r \in Rntis, NEW net,
                 Prepared(c, r, t, net)
          PROVE  NoneOf(x2, Rejections)'
      <3>m. PICK m : m = HandoverRequest(r, ueMan[c][r].rlcRequests)
        OBVIOUS
      <3>1. /\ net = Taken(x2, LteCell, c) /\ Arrives(x2, LteCell, c, "McHandoverRequest")
            /\ <<c, t>> \in Links /\ x2' = Sent(net, c, t, m)
        BY <2>1, <3>m DEF Prepared, MayPrepare, Underway
      <3>2. ueMan[c][r].rlcRequests \in SUBSET Drbs
        BY <1>0, ContextsAre DEF Contexts
      <3>3. m \in Messages /\ m.type \notin Rejections
        <4>1. m \in Messages
          BY <3>m, <3>2 DEF Messages
        <4> QED
          BY <3>m, <4>1 DEF HandoverRequest, Rejections
      <3>4. net \in Networks /\ NoneOf(net, Rejections)
        BY <1>0, <3>1, TakenNoRejection
      <3> QED
        BY <1>3, <3>1, <3>3, <3>4
    <2>2. ASSUME NEW c \in Cells, NEW t \in Cells, NEW r \in Rntis, NEW net,
                 Deferred(c, r, t, net)
          PROVE  FALSE
      BY <2>2, HomeRequested DEF Deferred
    <2>3. ASSUME NEW a \in Cells, NEW c \in Cells, Rejected(a, c) PROVE FALSE
      BY <2>3 DEF Rejected
    <2>4. ASSUME NEW a \in Cells, NEW c \in Cells, NEW r \in Rntis, Admitted(a, c, r)
          PROVE  NoneOf(x2, Rejections)'
      <3>m. PICK req, net, m : /\ req = Head(x2[<<a, c>>]) /\ net = Taken(x2, a, c)
                               /\ m = HandoverRequestAck(req.oldId, r)
        OBVIOUS
      <3>1. Arrives(x2, a, c, "HandoverRequest") /\ x2' = Sent(net, c, a, m)
        BY <2>4, <3>m DEF Admitted
      <3>2. /\ <<a, c>> \in Links /\ req \in Messages /\ req.type = "HandoverRequest"
        BY <1>0, <3>1, <3>m, LinkTaken
      <3>3. m \in Messages /\ m.type \notin Rejections
        <4>1. req.oldId \in Rntis
          BY <3>2, MessageTypes
        <4>2. m \in Messages
          BY <3>m, <4>1, OtherMessages
        <4> QED
          BY <3>m, <4>2 DEF HandoverRequestAck, Rejections
      <3>4. net \in Networks /\ NoneOf(net, Rejections) /\ <<c, a>> \in Links
        BY <1>0, <3>m, <3>1, <3>2, TakenNoRejection DEF Links
      <3> QED
        BY <1>3, <3>1, <3>3, <3>4
    <2>5. ASSUME NEW a \in Cells, NEW c \in Cells, NEW r \in Rntis,
                 (\E m \in Messages : Left(a, c, r, m)) \/ Resumed(a, c, r)
                 \/ Released(c, r) \/ Forwarding(c, r)
          PROVE  NoneOf(x2, Rejections)'
      BY <1>2, <2>5 DEF Left, Resumed, Released, Forwarding
    <2> QED
      BY <1>5, <2>1, <2>2, <2>3, <2>4, <2>5 DEF CellEffect
  <1>6. CASE UeEffect
    <2>1. ASSUME NEW c \in Cells, NEW r \in Rntis, Joined(c, r)
          PROVE  NoneOf(x2, Rejections)'
      <3>m. PICK m : m = SecondaryCellHandoverCompleted(ueMan[c][r].sourceId, r)
        OBVIOUS
      <3>1. x2' = Sent(x2, c, LteCell, m) /\ ueMan[c][r].sourceId \in Rntis
        BY <1>0, <2>1, <3>m, Arrival DEF Joined
      <3>2. m \in Messages /\ m.type \notin Rejections
        BY <3>m, <3>1 DEF Messages, SecondaryCellHandoverCompleted, Rejections
      <3> QED
        BY <1>0, <1>3, <3>1, <3>2
    <2>2. ASSUME NEW c \in Cells, NEW r \in Rntis, JoiningExpired(c, r)
          PROVE  NoneOf(x2, Rejections)'
      <3>1. HandoverFailed \in Messages /\ HandoverFailed.type \notin Rejections
        BY DEF Messages, HandoverFailed, Rejections
      <3> QED
        BY <1>0, <1>3, <2>2, <3>1 DEF JoiningExpired
    <2>3. ASSUME NEW c \in Cells, NEW t \in Cells, NEW r \in Rntis,
                 JoinedAndPrepared(c, r, t)
          PROVE  FALSE
      BY <2>3, TokenOn DEF JoinedAndPrepared, Underway
    <2> QED
      BY <1>1, <1>6, <2>1, <2>2, <2>3 DEF UeEffect, Unheard, Removed, Followed, Reached, Missed
  <1> QED
    BY <1>0, <1>4, <1>5, <1>6, StepEffects

\* What is allocated last is what the UE is known by.
LEMMA LastRntiStep ==
    ASSUME TypeOK, lastRnti = rntiOf, [Next]_vars
    PROVE  lastRnti' = rntiOf'
  <1>1. ASSUME UNCHANGED <<lastRnti, rntiOf>> PROVE lastRnti' = rntiOf'
    BY <1>1
  <1>2. CASE CoordinatorEffect
    BY <1>2 DEF CoordinatorEffect, Quiet, Asked, SwitchedOff,
                RecvSecondaryCellHandoverCompleted, contexts
  <1>3. CASE CellEffect
    <2>1. ASSUME NEW c \in Cells, NEW t \in Cells, NEW r \in Rntis, NEW net,
                 Prepared(c, r, t, net) \/ Deferred(c, r, t, net)
          PROVE  lastRnti' = rntiOf'
      BY <2>1 DEF Prepared, Deferred, contexts
    <2>2. ASSUME NEW a \in Cells, NEW c \in Cells, Rejected(a, c)
          PROVE  lastRnti' = rntiOf'
      BY <2>2 DEF Rejected, contexts
    <2>3. ASSUME NEW a \in Cells, NEW c \in Cells, NEW r \in Rntis, Admitted(a, c, r)
          PROVE  lastRnti' = rntiOf'
      BY <2>3 DEF Admitted, contexts
    <2>4. ASSUME NEW a \in Cells, NEW c \in Cells, NEW r \in Rntis, NEW m \in Messages,
                 Left(a, c, r, m)
          PROVE  lastRnti' = rntiOf'
      BY <2>4 DEF Left, contexts
    <2>5. ASSUME NEW a \in Cells, NEW c \in Cells, NEW r \in Rntis, Resumed(a, c, r)
          PROVE  lastRnti' = rntiOf'
      BY <2>5 DEF Resumed, contexts
    <2>6. ASSUME NEW c \in Cells, NEW r \in Rntis, Released(c, r) \/ Forwarding(c, r)
          PROVE  lastRnti' = rntiOf'
      BY <2>6 DEF Released, Forwarding, contexts
    <2> QED
      BY <1>3, <2>1, <2>2, <2>3, <2>4, <2>5, <2>6 DEF CellEffect
  <1>4. CASE UeEffect
    <2>1. ASSUME NEW c \in Cells, NEW r \in Rntis,
                 Joined(c, r) \/ Unheard(c, r) \/ JoiningExpired(c, r) \/ Removed(c, r)
          PROVE  lastRnti' = rntiOf'
      BY <2>1 DEF Joined, Unheard, JoiningExpired, Removed, contexts
    <2>2. ASSUME NEW c \in Cells, NEW t \in Cells, NEW r \in Rntis,
                 JoinedAndPrepared(c, r, t)
          PROVE  lastRnti' = rntiOf'
      BY <2>2 DEF JoinedAndPrepared, contexts
    <2> QED
      BY <1>4, <2>1, <2>2 DEF UeEffect, Followed, Reached, Missed, contexts
  <1> QED
    BY <1>2, <1>3, <1>4, StepEffects

\* One of the two values after a, counted modulo n, is neither 0 nor a.
LEMMA NextButOne ==
    ASSUME NEW n \in Nat, n >= 4, NEW a \in 0 .. n - 1
    PROVE  \E k \in 1 .. n - 2 : (a + k) % n \in 1 .. n - 1 /\ (a + k) % n # a
  <1>1. ASSUME NEW k \in {1, 2}, a + k < n PROVE (a + k) % n = a + k
    BY <1>1
  <1>2. ASSUME NEW k \in {1, 2}, a + k >= n PROVE (a + k) % n = a + k - n
    BY <1>2
  <1>3. CASE a + 1 < n
    <2>1. (a + 1) % n = a + 1 /\ 1 \in 1 .. n - 2
      BY <1>1, <1>3
    <2> QED
      BY <1>3, <2>1
  <1>4. CASE a + 1 >= n
    <2>1. 2 \in 1 .. n - 2 /\ a = n - 1
      BY <1>4
    <2>2. (a + 2) % n = 1
      BY <1>2, <2>1
    <2>3. 1 \in 1 .. n - 1 /\ 1 # a
      BY <2>1
    <2> QED
      BY <2>1, <2>2, <2>3
  <1> QED
    BY <1>3, <1>4

\* The cell that is asked to admit the UE has an RNTI for it: it holds no
\* other context than one that it is leaving, which was its last one.
LEMMA RntiIsFree ==
    ASSUME RntiSpace >= 4, ~RadioMayFail, Underway, Order, lastRnti = rntiOf,
           NEW a \in Cells, NEW c \in Cells, Arrives(x2, a, c, "HandoverRequest")
    PROVE  FreeSteps(c) # {}
  <1>0. /\ TypeOK /\ Stages /\ mmCell \in Cells /\ mmRnti \in Rntis
        /\ lastRnti \in [Cells -> Rntis \cup {NoRnti}]
    BY DEF Underway, TypeOK, CoordinatorType, ContextsType
  <1>m. PICK m : m = Head(x2[<<a, c>>])
    OBVIOUS
  <1>1. /\ <<a, c>> \in Links /\ m \in On(x2, <<a, c>>) /\ m \in Messages
        /\ m.type = "HandoverRequest"
    BY <1>0, <1>m, LinkTaken
  <1>2. a = mmCell /\ m.oldId = mmRnti /\ c # mmCell
    BY <1>1 DEF Underway, Home, MessagesPlaced, Placed, Links
  <1>3. State(mmCell, mmRnti) = "HANDOVER_PREPARATION"
    BY <1>0, <1>1, <1>2 DEF Stages, PreparationsHaveSource, Preparation
  <1>4. \A d \in Cells, s \in Rntis : State(d, s) # "HANDOVER_JOINING"
    BY <1>0, <1>1, OpenPreparation DEF OpenTypes
  <1>5. Idle(c)
    <2> SUFFICES ASSUME NEW q \in Rntis PROVE State(c, q) \in {"NONE", "HANDOVER_LEAVING"}
      BY DEF Idle
    <2>1. State(c, q) \in UeStates
      BY <1>0, ContextsAre DEF State, Contexts
    <2>2. ~Serving(c, q)
      BY <1>0, <1>2, <1>3, ServingIsAlone DEF Serving
    <2> QED
      BY <1>4, <2>1, <2>2 DEF UeStates, Serving
  <1>6. \A q \in Rntis : Known(c, q) => q = lastRnti[c]
    BY <1>2, <1>5 DEF Order, LeaverWasLast, Idle, Leaving, Known, State
  <1>7. lastRnti[c] \in 0 .. RntiSpace - 1 /\ RntiSpace \in Nat
    BY <1>0, RntiAssumption DEF Rntis, NoRnti
  <1>8. PICK k \in 1 .. RntiSpace - 2 :
            /\ (lastRnti[c] + k) % RntiSpace \in 1 .. RntiSpace - 1
            /\ (lastRnti[c] + k) % RntiSpace # lastRnti[c]
    BY <1>7, NextButOne
  <1>r. PICK r : r = (lastRnti[c] + k) % RntiSpace
    OBVIOUS
  <1>9. r \in Rntis /\ r # NoRnti /\ ~Known(c, r)
    BY <1>6, <1>8, <1>r DEF Rntis, NoRnti
  <1>10. k \in FreeSteps(c)
    BY <1>9, <1>r DEF FreeSteps
  <1> QED
    BY <1>10

\* What the cells start from when a message arrives.
Sound ==
    /\ Underway /\ Bearers /\ Order /\ Undisturbed
    /\ \A c \in Cells : Forwards(c)
    /\ NoneOf(x2, Rejections)
    /\ lastRnti = rntiOf

\* Home is asked for a handover, and to another cell.
LEMMA RequestIsServed ==
    ASSUME Sound, NEW c \in Cells, RecvMcHandoverRequest(c)
    PROVE  fault' = fault
  <1>0. TypeOK /\ Underway /\ mmCell \in Cells /\ mmRnti \in Rntis
    BY DEF Sound, Underway, TypeOK, CoordinatorType
  <1>m. PICK m, net : m = Head(x2[<<LteCell, c>>]) /\ net = Taken(x2, LteCell, c)
    OBVIOUS
  <1>1. /\ Arrives(x2, LteCell, c, "McHandoverRequest")
        /\ SendHandoverRequest(net, c, m.target)
    BY <1>m DEF RecvMcHandoverRequest
  <1>2. MayPrepare(c, net)
    BY <1>m, <1>1 DEF MayPrepare
  <1>3. /\ c = mmCell /\ rntiOf[c] = mmRnti /\ ~setup
        /\ State(mmCell, mmRnti) = "CONNECTED_NORMALLY"
    BY <1>0, <1>2, HomeRequested
  <1>4. /\ <<LteCell, c>> \in Links /\ m \in On(x2, <<LteCell, c>>)
        /\ m.type = "McHandoverRequest" /\ m \in Messages
    BY <1>0, <1>m, <1>1, LinkTaken
  <1>5. m.target = asked /\ m.target \in Cells
    <2>1. MovesTo(<<LteCell, c>>, m) = m.target
      BY <1>4 DEF MovesTo
    <2>2. MovesTo(<<LteCell, c>>, m) = asked
      BY <1>0, <1>4, TokenOn DEF Underway, HandoverTypes
    <2> QED
      BY <1>4, <2>1, <2>2, MessageTypes
  <1>6. m.target # c
    BY <1>0, <1>3, <1>5 DEF Sound, Undisturbed, Underway, Home, CoordinatorAtHome
  <1>7. <<c, m.target>> \in Links
    BY <1>5, <1>6 DEF Links, Nodes
  <1>8. Known(c, rntiOf[c]) /\ ueMan[c][rntiOf[c]].state = "CONNECTED_NORMALLY"
    BY <1>0, <1>3 DEF Known, State, NoRnti, Rntis
  <1>9. PrepareHandover(ueMan, net, c, rntiOf[c], m.target)
    BY <1>1, <1>8 DEF SendHandoverRequest
  <1> QED
    BY <1>7, <1>8, <1>9 DEF PrepareHandover

\* The cell admits the UE, and home lets it go.
LEMMA UeIsAdmitted ==
    ASSUME AdmittingCells = Cells, RntiSpace >= 4, ~RadioMayFail, Sound,
           NEW a \in Cells, NEW c \in Cells, RecvFromCell(a, c)
    PROVE  fault' = fault
  <1>0. /\ TypeOK /\ Stages /\ Underway /\ Order /\ mmCell \in Cells /\ mmRnti \in Rntis
        /\ lastRnti = rntiOf
    BY DEF Sound, Underway, TypeOK, CoordinatorType
  <1>1. CASE RecvHandoverRequest(a, c)
    <2>1. Arrives(x2, a, c, "HandoverRequest")
      BY <1>1 DEF RecvHandoverRequest
    <2>2. FreeSteps(c) # {}
      BY <1>0, <2>1, RntiIsFree
    <2> QED
      BY <1>1, <2>2 DEF RecvHandoverRequest
  <1>2. CASE RecvHandoverRequestAck(a, c)
    <2>m. PICK m, r : m = Head(x2[<<a, c>>]) /\ r = m.oldId
      OBVIOUS
    <2>1. Arrives(x2, a, c, "HandoverRequestAck")
      BY <1>2 DEF RecvHandoverRequestAck
    <2>2. /\ <<a, c>> \in Links /\ m \in On(x2, <<a, c>>) /\ m \in Messages
          /\ m.type = "HandoverRequestAck"
      BY <1>0, <2>m, <2>1, LinkTaken
    <2>3. c = mmCell /\ r = mmRnti
      BY <2>m, <2>2 DEF Underway, Sound, Home, MessagesPlaced, Placed
    <2>4. State(mmCell, mmRnti) = "HANDOVER_PREPARATION"
      BY <1>0, <2>m, <2>2, <2>3 DEF Stages, PreparationsHaveSource, Preparation
    <2>5. \A q \in Rntis : ~Leaving(c, q)
      BY <1>0, <2>3, <2>4 DEF Order, LeaversAreReleased, Leaving
    <2>6. teidFwd[c] = {}
      BY <2>5 DEF Sound, Forwards
    <2>7. Known(c, r)
      BY <1>0, <2>3, <2>4 DEF Known, State, NoRnti, Rntis
    <2>8. ~(~Known(c, r)) /\ ueMan[c][r].rlc \cap teidFwd[c] = {}
      BY <2>6, <2>7
    <2> QED
      BY <1>2, <2>m, <2>8 DEF RecvHandoverRequestAck
  <1>3. ASSUME RecvHandoverPreparationFailure(a, c) PROVE FALSE
    <2>1. Arrives(x2, a, c, "HandoverPreparationFailure")
      BY <1>3 DEF RecvHandoverPreparationFailure
    <2>m. PICK m : m = Head(x2[<<a, c>>])
      OBVIOUS
    <2>2. /\ <<a, c>> \in Links /\ m \in On(x2, <<a, c>>)
          /\ m.type = "HandoverPreparationFailure"
      BY <1>0, <2>1, <2>m, LinkTaken
    <2> QED
      BY <2>2 DEF Sound, NoneOf, Rejections
  <1> QED
    BY <1>1, <1>2, <1>3 DEF RecvFromCell

\* The coordinator has the old context released, or tells it of a switch.
LEMMA CoordinatorIsObeyed ==
    ASSUME Sound, NEW c \in Cells, RecvUeContextRelease(c) \/ RecvConnectionSwitchToMmWave(c)
    PROVE  fault' = fault
  <1>0. TypeOK /\ Order /\ ContextsHaveRlc
    BY DEF Sound, Underway, Bearers
  <1>1. CASE RecvUeContextRelease(c)
    <2>m. PICK m, r : m = Head(x2[<<LteCell, c>>]) /\ r = m.oldId
      OBVIOUS
    <2>1. Arrives(x2, LteCell, c, "UeContextRelease")
      BY <1>1 DEF RecvUeContextRelease
    <2>2. /\ m \in On(x2, <<LteCell, c>>) /\ m \in Messages /\ m.type = "UeContextRelease"
      BY <1>0, <2>m, <2>1, LinkTaken
    <2>3. r \in Rntis /\ Leaving(c, r)
      BY <1>0, <2>m, <2>2, MessageTypes DEF Order, CoordinatorIsHeard
    <2>4. Known(c, r) /\ ueMan[c][r].state = "HANDOVER_LEAVING"
      BY <2>3 DEF Leaving, State, Known, NoRnti, Rntis
    <2>5. ueMan[c][r].rlc = Drbs /\ teidFwd[c] = Drbs
      BY <1>0, <2>3, <2>4 DEF ContextsHaveRlc, Sound, Forwards
    <2>6. ueMan[c][r].rlc \subseteq teidFwd[c]
      BY <2>5
    <2> QED
      BY <1>1, <2>m, <2>4, <2>6 DEF RecvUeContextRelease
  <1>2. CASE RecvConnectionSwitchToMmWave(c)
    <2>m. PICK m, r : m = Head(x2[<<LteCell, c>>]) /\ r = m.rnti
      OBVIOUS
    <2>1. Arrives(x2, LteCell, c, "SwitchConnection")
      BY <1>2 DEF RecvConnectionSwitchToMmWave
    <2>2. /\ m \in On(x2, <<LteCell, c>>) /\ m \in Messages /\ m.type = "SwitchConnection"
      BY <1>0, <2>m, <2>1, LinkTaken
    <2>3. r \in Rntis /\ State(c, r) # "NONE"
      BY <1>0, <2>m, <2>2, MessageTypes DEF Order, CoordinatorIsHeard
    <2>4. Known(c, r)
      BY <2>3 DEF State, Known, NoRnti, Rntis
    <2>5. ueMan[c][r].rlc = Drbs
      BY <1>0, <2>3, <2>4 DEF ContextsHaveRlc
    <2> QED
      BY <1>2, <2>m, <2>4, <2>5 DEF RecvConnectionSwitchToMmWave
  <1> QED
    BY <1>1, <1>2

\* The UE arrives where it is waited for, and is told to move only when it is
\* connected.
LEMMA UeIsServed ==
    ASSUME Sound, RecvReconfigurationCompleted \/ UeRecvReconfiguration
    PROVE  fault' = fault
  <1>0. TypeOK /\ Stages /\ HandoverToken
    BY DEF Sound, Underway
  <1>1. CASE RecvReconfigurationCompleted
    <2>1. PICK m \in rrcUp : RecvReconfigurationCompleted!(m)
      BY <1>1 DEF RecvReconfigurationCompleted
    <2>c. PICK c, r : c = m.cell /\ r = m.rnti
      OBVIOUS
    <2>2. c \in Cells /\ r \in Rntis /\ m = [cell |-> c, rnti |-> r]
      BY <1>0, <2>c DEF TypeOK, MessagesType
    <2>3. State(c, r) = "HANDOVER_JOINING"
      BY <1>0, <2>2, Arrival
    <2>4. ueMan[c][r].state = "HANDOVER_JOINING" /\ ueMan[c][r].queued = NoCell
      BY <1>0, <2>2, <2>3, TokenOn DEF State
    <2> QED
      BY <2>1, <2>c, <2>4
  <1>2. CASE UeRecvReconfiguration
    <2>1. ue.state = "CONNECTED_NORMALLY" \/ rrcDown = {}
      BY <1>0 DEF Stages, AirFollowsStages, UeAt
    <2> QED
      BY <1>2, <2>1 DEF UeRecvReconfiguration
  <1> QED
    BY <1>1, <1>2

\* A step that stops the simulation with an assertion is none of them.
LEMMA FaultStep ==
    ASSUME ~RicControl, ~FileControl, ~RadioMayFail, AdmittingCells = Cells,
           RntiSpace >= 4, Sound, [Next]_vars
    PROVE  fault' = fault
  <1>0. TypeOK /\ Underway /\ Undisturbed /\ e2Event = NoEvent
    BY DEF Sound, Underway
  <1>1. CASE UNCHANGED vars
    BY <1>1 DEF vars
  <1>2. CASE Next
    <2>1. CASE Decide
      BY <2>1 DEF Decide, SwitchToLte, SwitchBackToMmWave, HandoverFromLte,
                  ThresholdHandover, TttBasedHandover
    <2>2. CASE Control
      BY <2>2 DEF Control, ReadControlFile, ControlMessageReceived
    <2>3. CASE PerformHandover
      BY <1>0, <2>3 DEF PerformHandover, Undisturbed, EventFitsServingCell
    <2>4. CASE PerformE2RCHO
      BY <1>0, <2>4 DEF PerformE2RCHO
    <2>5. ASSUME NEW c \in Cells, RecvFromLte(c) PROVE fault' = fault
      BY <2>5, RequestIsServed, CoordinatorIsObeyed DEF RecvFromLte
    <2>6. ASSUME NEW c \in Cells, RecvAtLte(c) PROVE fault' = fault
      <3>1. ~FailedFrom(c)
        BY <1>0, NothingFails
      <3>2. ASSUME RecvHandoverFailed(c) PROVE FALSE
        <4>1. Arrives(x2, c, LteCell, "HandoverFailed")
          BY <3>2 DEF RecvHandoverFailed
        <4>m. PICK m : m = Head(x2[<<c, LteCell>>])
          OBVIOUS
        <4>2. m \in On(x2, <<c, LteCell>>) /\ m \in Messages /\ m.type = "HandoverFailed"
          BY <1>0, <4>1, <4>m, LinkTaken
        <4>3. m = HandoverFailed
          BY <4>2 DEF Messages, McHandoverRequest, HandoverRequest, HandoverRequestAck,
             HandoverPreparationFailure, SecondaryCellHandoverCompleted,
             UeContextRelease, SwitchConnection, HandoverFailed
        <4> QED
          BY <3>1, <4>2, <4>3 DEF FailedFrom
      <3> QED
        BY <2>6, <3>2 DEF RecvAtLte, RecvSecondaryCellHandoverCompleted
    <2>7. ASSUME NEW a \in Cells, NEW c \in Cells, RecvFromCell(a, c) PROVE fault' = fault
      BY <2>7, UeIsAdmitted
    <2>8. CASE RecvReconfigurationCompleted \/ UeRecvReconfiguration
      BY <2>8, UeIsServed
    <2>9. CASE UeRecvRrcConnectionSwitch \/ RandomAccessSuccessful \/ RandomAccessFailed
      BY <2>9 DEF UeRecvRrcConnectionSwitch, RandomAccessSuccessful, RandomAccessFailed
    <2>10. CASE Expire
      BY <1>0, <2>10, NothingFails
         DEF Expire, HandoverJoiningTimeout, HandoverLeavingTimeout, ScheduledRemoveUe
    <2> QED
      BY <1>2, <2>1, <2>2, <2>3, <2>4, <2>5, <2>6, <2>7, <2>8, <2>9, <2>10, Zenon
         DEF Next, Deliver
  <1> QED
    BY <1>1, <1>2

\* With automatic handovers only, cells that admit the UE, a good radio and at
\* least three RNTIs in every cell, no assertion and no fatal error of the code
\* is ever hit.
THEOREM NothingAsserts ==
    ASSUME ~RicControl, ~FileControl, ~RadioMayFail, AdmittingCells = Cells,
           RntiSpace >= 4
    PROVE  Spec => []NoAssertionFails
  <1> DEFINE F == /\ \A c \in Cells : Forwards(c)
                  /\ NoneOf(x2, Rejections)
                  /\ lastRnti = rntiOf
                  /\ Undisturbed /\ NoAssertionFails
  <1>1. Init => F
    <2> SUFFICES ASSUME Init PROVE F
      OBVIOUS
    <2>1. NoneOf(x2, Rejections)
      BY DEF Init, NoTraffic, NoneOf, On
    <2>2. lastRnti = rntiOf /\ NoAssertionFails
      BY DEF Init, NoAssertionFails
    <2> QED
      BY <2>1, <2>2, ForwardsInit, UndisturbedInit
  <1>2. Underway /\ Bearers /\ Order /\ F /\ [Next]_vars => F'
    <2> SUFFICES ASSUME Underway, Bearers, Order, F, [Next]_vars PROVE F'
      OBVIOUS
    <2>1. TypeOK /\ HandoverToken /\ Sound
      BY DEF Underway, Sound
    <2>2. (\A c \in Cells : Forwards(c))'
      BY ForwardsStep
    <2>3. NoneOf(x2, Rejections)'
      BY NoRejectionStep
    <2>4. lastRnti' = rntiOf' /\ Undisturbed'
      BY <2>1, LastRntiStep, UndisturbedStep
    <2>5. NoAssertionFails'
      BY <2>1, FaultStep DEF NoAssertionFails
    <2> QED
      BY <2>2, <2>3, <2>4, <2>5
  <1>3. Spec => [](Underway /\ Bearers /\ Order)
    BY MessagesInOrder
  <1>4. F => NoAssertionFails
    OBVIOUS
  <1> HIDE DEF F
  <1> QED
    BY <1>1, <1>2, <1>3, <1>4, PTL DEF Spec
=============================================================================
