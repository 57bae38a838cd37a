---------------------- MODULE SecondaryHandover_proof ----------------------
(***************************************************************************)
(* Lemmas about the links of X2Network, and theorems about                 *)
(* SecondaryHandover.                                                      *)
(***************************************************************************)
EXTENDS SecondaryHandover, TLAPS

-----------------------------------------------------------------------------
(***************************************************************************)
(* The X2 links: what sending and taking a message preserves.              *)
(***************************************************************************)
\* The fields of a message that arrives have their types.
LEMMA MessageTypes ==
    ASSUME NEW m \in Messages
    PROVE  /\ m.type = "McHandoverRequest" => m.target \in Cells
           /\ m.type = "HandoverRequest" => m.oldId \in Rntis /\ m.rlc \in SUBSET Drbs
           /\ m.type = "HandoverRequestAck" => m.oldId \in Rntis /\ m.newId \in Rntis
           /\ m.type = "HandoverPreparationFailure" => m.oldId \in Rntis
           /\ m.type = "SecondaryCellHandoverCompleted"
                => m.oldId \in Rntis /\ m.rnti \in Rntis
           /\ m.type = "UeContextRelease" => m.oldId \in Rntis
           /\ m.type = "SwitchConnection" => m.rnti \in Rntis
  BY DEF Messages, McHandoverRequest, HandoverRequest, HandoverRequestAck,
         HandoverPreparationFailure, SecondaryCellHandoverCompleted,
         UeContextRelease, SwitchConnection, HandoverFailed

\* The messages that carry no handover forward are none of HandoverTypes.
LEMMA OtherMessages ==
    ASSUME NEW r \in Rntis, NEW s \in Rntis
    PROVE  /\ HandoverRequestAck(r, s) \in Messages
           /\ HandoverRequestAck(r, s).type \notin HandoverTypes
           /\ HandoverPreparationFailure(r) \in Messages
           /\ HandoverPreparationFailure(r).type \notin HandoverTypes
           /\ UeContextRelease(r) \in Messages
           /\ UeContextRelease(r).type \notin HandoverTypes
           /\ SwitchConnection(r) \in Messages
           /\ SwitchConnection(r).type \notin HandoverTypes
           /\ HandoverFailed \in Messages
           /\ HandoverFailed.type \notin HandoverTypes
  <1>1. /\ HandoverRequestAck(r, s) \in Messages
        /\ HandoverPreparationFailure(r) \in Messages
        /\ UeContextRelease(r) \in Messages
        /\ SwitchConnection(r) \in Messages
        /\ HandoverFailed \in Messages
    BY DEF Messages
  <1>2. /\ HandoverRequestAck(r, s).type = "HandoverRequestAck"
        /\ HandoverPreparationFailure(r).type = "HandoverPreparationFailure"
        /\ UeContextRelease(r).type = "UeContextRelease"
        /\ SwitchConnection(r).type = "SwitchConnection"
        /\ HandoverFailed.type = "HandoverFailed"
    BY DEF HandoverRequestAck, HandoverPreparationFailure, UeContextRelease,
           SwitchConnection, HandoverFailed
  <1> QED
    BY <1>1, <1>2 DEF HandoverTypes

\* The message at the head of a link is a message, and its link exists.
LEMMA ArrivesType ==
    ASSUME NEW net \in Networks, NEW a, NEW b, NEW type, Arrives(net, a, b, type)
    PROVE  /\ <<a, b>> \in Links
           /\ net[<<a, b>>] \in Seq(Messages) /\ net[<<a, b>>] # <<>>
           /\ Head(net[<<a, b>>]) \in Messages /\ Head(net[<<a, b>>]).type = type
  BY DEF Arrives, Networks

\* Sending a message on any link and taking one from a link that has some
\* leaves the links well typed.
LEMMA SentType ==
    ASSUME NEW net \in Networks, NEW a, NEW b, NEW m \in Messages
    PROVE  Sent(net, a, b, m) \in Networks
  <1>1. \A l \in Links : net[l] \in Seq(Messages) /\ Append(net[l], m) \in Seq(Messages)
    BY DEF Networks
  <1>2. Sent(net, a, b, m)
            = [l \in Links |-> IF l = <<a, b>> THEN Append(net[l], m) ELSE net[l]]
    BY DEF Sent, Networks
  <1> QED
    BY <1>1, <1>2 DEF Networks

\* What is left of a link after a message was taken are messages.
LEMMA TakenType ==
    ASSUME NEW net \in Networks, NEW a, NEW b, <<a, b>> \in Links, net[<<a, b>>] # <<>>
    PROVE  Taken(net, a, b) \in Networks
  BY DEF Taken, Networks

\* What is on the links after a send: the old messages, and the new one at
\* the end of its link.
LEMMA SentMessages ==
    ASSUME NEW net \in Networks, NEW a, NEW b, NEW m \in Messages,
           NEW l \in Links, NEW i \in 1 .. Len(Sent(net, a, b, m)[l])
    PROVE  \/ i \in 1 .. Len(net[l]) /\ Sent(net, a, b, m)[l][i] = net[l][i]
           \/ /\ l = <<a, b>> /\ i = Len(net[l]) + 1
              /\ Sent(net, a, b, m)[l][i] = m
  <1>1. net[l] \in Seq(Messages)
    BY DEF Networks
  <1>2. CASE l = <<a, b>>
    <2>1. Sent(net, a, b, m)[l] = Append(net[l], m)
      BY <1>2 DEF Sent, Networks
    <2> QED
      BY <1>1, <1>2, <2>1
  <1>3. CASE l # <<a, b>>
    <2>1. Sent(net, a, b, m)[l] = net[l]
      BY <1>3 DEF Sent, Networks
    <2> QED
      BY <2>1
  <1> QED
    BY <1>2, <1>3

\* What is on the links after a take: the old messages but the head of the
\* link taken from, whose messages move up by one place.
LEMMA TakenMessages ==
    ASSUME NEW net \in Networks, NEW a, NEW b, <<a, b>> \in Links, net[<<a, b>>] # <<>>,
           NEW l \in Links, NEW i \in 1 .. Len(Taken(net, a, b)[l])
    PROVE  \/ /\ l = <<a, b>> /\ i + 1 \in 1 .. Len(net[l]) /\ i + 1 # 1
              /\ Taken(net, a, b)[l][i] = net[l][i + 1]
           \/ /\ l # <<a, b>> /\ i \in 1 .. Len(net[l])
              /\ Taken(net, a, b)[l][i] = net[l][i]
  <1>1. net[l] \in Seq(Messages)
    BY DEF Networks
  <1>2. CASE l = <<a, b>>
    <2>1. Taken(net, a, b)[l] = Tail(net[l])
      BY <1>2 DEF Taken, Networks
    <2> QED
      BY <1>1, <1>2, <2>1
  <1>3. CASE l # <<a, b>>
    <2>1. Taken(net, a, b)[l] = net[l]
      BY <1>3 DEF Taken, Networks
    <2> QED
      BY <1>3, <2>1
  <1> QED
    BY <1>2, <1>3

-----------------------------------------------------------------------------
\* A message that carries no handover forward changes nothing of them.
LEMMA SentOther ==
    ASSUME NEW net \in Networks, NEW a, NEW b, NEW m \in Messages,
           m.type \notin HandoverTypes, NEW target
    PROVE  /\ NoHandover(net) => NoHandover(Sent(net, a, b, m))
           /\ AtMostOneHandover(net) => AtMostOneHandover(Sent(net, a, b, m))
           /\ HandoversGoTo(net, target) => HandoversGoTo(Sent(net, a, b, m), target)
  <1> DEFINE new == Sent(net, a, b, m)
  <1>1. \A l \in Links : \A i \in 1 .. Len(new[l]) :
            new[l][i].type \in HandoverTypes =>
                i \in 1 .. Len(net[l]) /\ new[l][i] = net[l][i]
    BY SentMessages
  <1> HIDE DEF new
  <1>2. NoHandover(net) => NoHandover(new)
    BY <1>1 DEF NoHandover
  <1>3. AtMostOneHandover(net) => AtMostOneHandover(new)
    BY <1>1 DEF AtMostOneHandover
  <1>4. HandoversGoTo(net, target) => HandoversGoTo(new, target)
    BY <1>1 DEF HandoversGoTo
  <1> QED
    BY <1>2, <1>3, <1>4 DEF new

\* The first handover message on links without any is the only one.
LEMMA SentHandover ==
    ASSUME NEW net \in Networks, NEW a, NEW b, NEW m \in Messages, NoHandover(net)
    PROVE  /\ AtMostOneHandover(Sent(net, a, b, m))
           /\ HandoversGoTo(Sent(net, a, b, m), MovesTo(<<a, b>>, m))
  <1> DEFINE new == Sent(net, a, b, m)
  <1>1. \A l \in Links : \A i \in 1 .. Len(new[l]) :
            new[l][i].type \in HandoverTypes =>
                l = <<a, b>> /\ i = Len(net[l]) + 1 /\ new[l][i] = m
    BY SentMessages DEF NoHandover
  <1> HIDE DEF new
  <1>2. AtMostOneHandover(new)
    BY <1>1 DEF AtMostOneHandover
  <1>3. HandoversGoTo(new, MovesTo(<<a, b>>, m))
    BY <1>1 DEF HandoversGoTo
  <1> QED
    BY <1>2, <1>3 DEF new

\* Taking a message adds none.
LEMMA TakenKeeps ==
    ASSUME NEW net \in Networks, NEW a, NEW b, <<a, b>> \in Links, net[<<a, b>>] # <<>>,
           NEW target
    PROVE  /\ NoHandover(net) => NoHandover(Taken(net, a, b))
           /\ AtMostOneHandover(net) => AtMostOneHandover(Taken(net, a, b))
           /\ HandoversGoTo(net, target) => HandoversGoTo(Taken(net, a, b), target)
  <1> DEFINE new == Taken(net, a, b)
  <1> DEFINE place(l, i) == IF l = <<a, b>> THEN i + 1 ELSE i
  <1>1. \A l \in Links : \A i \in 1 .. Len(new[l]) :
            place(l, i) \in 1 .. Len(net[l]) /\ new[l][i] = net[l][place(l, i)]
    BY TakenMessages
  <1>2. \A l \in Links : \A i, j \in 1 .. Len(new[l]) :
            place(l, i) = place(l, j) => i = j
    OBVIOUS
  <1> HIDE DEF new, place
  <1>3. NoHandover(net) => NoHandover(new)
    BY <1>1 DEF NoHandover
  <1>4. ASSUME AtMostOneHandover(net) PROVE AtMostOneHandover(new)
    <2> SUFFICES ASSUME NEW l \in Links, NEW k \in Links,
                        NEW i \in 1 .. Len(new[l]), NEW j \in 1 .. Len(new[k]),
                        new[l][i].type \in HandoverTypes,
                        new[k][j].type \in HandoverTypes
                 PROVE  l = k /\ i = j
      BY DEF AtMostOneHandover
    <2>1. /\ place(l, i) \in 1 .. Len(net[l]) /\ new[l][i] = net[l][place(l, i)]
          /\ place(k, j) \in 1 .. Len(net[k]) /\ new[k][j] = net[k][place(k, j)]
      BY <1>1
    <2>2. net[l][place(l, i)].type \in HandoverTypes
          /\ net[k][place(k, j)].type \in HandoverTypes
      BY <2>1
    <2>3. l = k /\ place(l, i) = place(k, j)
      BY <1>4, <2>1, <2>2 DEF AtMostOneHandover
    <2> QED
      BY <1>2, <2>3
  <1>5. HandoversGoTo(net, target) => HandoversGoTo(new, target)
    BY <1>1 DEF HandoversGoTo
  <1> QED
    BY <1>3, <1>4, <1>5 DEF new

\* When the only handover message is taken, none is left.
LEMMA TakenHandover ==
    ASSUME NEW net \in Networks, NEW a, NEW b, <<a, b>> \in Links, net[<<a, b>>] # <<>>,
           AtMostOneHandover(net), Head(net[<<a, b>>]).type \in HandoverTypes
    PROVE  NoHandover(Taken(net, a, b))
  <1> DEFINE new == Taken(net, a, b)
  <1>1. net[<<a, b>>] \in Seq(Messages) /\ 1 \in 1 .. Len(net[<<a, b>>])
        /\ Head(net[<<a, b>>]) = net[<<a, b>>][1]
    BY DEF Networks
  <1>2. \A l \in Links : \A i \in 1 .. Len(new[l]) :
            \E j \in 1 .. Len(net[l]) :
                new[l][i] = net[l][j] /\ ~(l = <<a, b>> /\ j = 1)
    BY TakenMessages
  <1> HIDE DEF new
  <1>3. \A l \in Links : \A j \in 1 .. Len(net[l]) :
            net[l][j].type \in HandoverTypes => l = <<a, b>> /\ j = 1
    BY <1>1 DEF AtMostOneHandover
  <1>4. NoHandover(new)
    <2> SUFFICES ASSUME NEW l \in Links, NEW i \in 1 .. Len(new[l]),
                        new[l][i].type \in HandoverTypes
                 PROVE  FALSE
      BY DEF NoHandover
    <2>1. PICK j \in 1 .. Len(net[l]) :
              new[l][i] = net[l][j] /\ ~(l = <<a, b>> /\ j = 1)
      BY <1>2
    <2> QED
      BY <1>3, <2>1
  <1> QED
    BY <1>4 DEF new
-----------------------------------------------------------------------------
(***************************************************************************)
(* The links seen as sets: which messages are on a link, and how many of a *)
(* set of types are on all of them.                                        *)
(***************************************************************************)
On(net, l) == {net[l][i] : i \in 1 .. Len(net[l])}

NoneOf(net, types) == \A l \in Links : \A m \in On(net, l) : m.type \notin types

AtMostOneOf(net, types) ==
    \A l, k \in Links : \A i \in 1 .. Len(net[l]), j \in 1 .. Len(net[k]) :
        net[l][i].type \in types /\ net[k][j].type \in types => l = k /\ i = j

\* On the link s no message of type Q is ahead of one of type P.
Precedes(s, P, Q) ==
    \A i, j \in 1 .. Len(s) : s[i].type = P /\ s[j].type = Q => i < j

\* Two messages of a set of types of which at most one is on the links are the
\* same message on the same link.
LEMMA OnlyOne ==
    ASSUME NEW net, NEW types, AtMostOneOf(net, types),
           NEW l \in Links, NEW k \in Links, NEW m \in On(net, l), NEW n \in On(net, k),
           m.type \in types, n.type \in types
    PROVE  l = k /\ m = n
  BY DEF On, AtMostOneOf

\* What is on a link is a message.
LEMMA OnType ==
    ASSUME NEW net \in Networks, NEW l \in Links
    PROVE  On(net, l) \subseteq Messages
  BY DEF On, Networks

\* The head of a link is on it.
LEMMA HeadOn ==
    ASSUME NEW net \in Networks, NEW l \in Links, net[l] # <<>>
    PROVE  Head(net[l]) \in On(net, l)
  <1>1. net[l] \in Seq(Messages)
    BY DEF Networks
  <1>2. Head(net[l]) = net[l][1] /\ 1 \in 1 .. Len(net[l])
    BY <1>1
  <1> QED
    BY <1>2 DEF On

\* A send adds its message to its link.
LEMMA OnSent ==
    ASSUME NEW net \in Networks, NEW a, NEW b, NEW m \in Messages, <<a, b>> \in Links
    PROVE  /\ Sent(net, a, b, m) \in Networks
           /\ m \in On(Sent(net, a, b, m), <<a, b>>)
           /\ \A l \in Links : On(net, l) \subseteq On(Sent(net, a, b, m), l)
           /\ \A l \in Links : \A n \in On(Sent(net, a, b, m), l) :
                 n \in On(net, l) \/ (l = <<a, b>> /\ n = m)
  <1> DEFINE new == Sent(net, a, b, m)
  <1>1. \A l \in Links : net[l] \in Seq(Messages)
    BY DEF Networks
  <1>2. new[<<a, b>>] = Append(net[<<a, b>>], m)
        /\ \A l \in Links : l # <<a, b>> => new[l] = net[l]
    BY DEF Sent, Networks
  <1>3. \A i \in 1 .. Len(net[<<a, b>>]) :
            i \in 1 .. Len(new[<<a, b>>]) /\ new[<<a, b>>][i] = net[<<a, b>>][i]
    BY <1>1, <1>2
  <1>4. /\ Len(new[<<a, b>>]) \in 1 .. Len(new[<<a, b>>])
        /\ new[<<a, b>>][Len(new[<<a, b>>])] = m
    BY <1>1, <1>2
  <1>5. \A l \in Links : \A i \in 1 .. Len(new[l]) :
            \/ i \in 1 .. Len(net[l]) /\ new[l][i] = net[l][i]
            \/ l = <<a, b>> /\ new[l][i] = m
    BY SentMessages
  <1>6. new \in Networks
    BY SentType
  <1> HIDE DEF new
  <1>7. m \in On(new, <<a, b>>)
    BY <1>4 DEF On
  <1>8. ASSUME NEW l \in Links PROVE On(net, l) \subseteq On(new, l)
    BY <1>2, <1>3 DEF On
  <1>9. ASSUME NEW l \in Links, NEW n \in On(new, l)
        PROVE  n \in On(net, l) \/ (l = <<a, b>> /\ n = m)
    BY <1>5 DEF On
  <1> QED
    BY <1>6, <1>7, <1>8, <1>9 DEF new

\* A take adds nothing, and takes only the head of its link.
LEMMA OnTaken ==
    ASSUME NEW net \in Networks, NEW a, NEW b, <<a, b>> \in Links, net[<<a, b>>] # <<>>
    PROVE  /\ Taken(net, a, b) \in Networks
           /\ Head(net[<<a, b>>]) \in On(net, <<a, b>>)
           /\ \A l \in Links : On(Taken(net, a, b), l) \subseteq On(net, l)
           /\ \A l \in Links : \A n \in On(net, l) :
                 n \in On(Taken(net, a, b), l) \/ (l = <<a, b>> /\ n = Head(net[l]))
  <1> DEFINE new == Taken(net, a, b)
  <1>1. net[<<a, b>>] \in Seq(Messages)
    BY DEF Networks
  <1>2. new[<<a, b>>] = Tail(net[<<a, b>>])
        /\ \A l \in Links : l # <<a, b>> => new[l] = net[l]
    BY DEF Taken, Networks
  <1>3. \A i \in 1 .. Len(net[<<a, b>>]) :
            \/ i = 1 /\ net[<<a, b>>][i] = Head(net[<<a, b>>])
            \/ /\ i - 1 \in 1 .. Len(new[<<a, b>>])
               /\ new[<<a, b>>][i - 1] = net[<<a, b>>][i]
    BY <1>1, <1>2
  <1>4. \A l \in Links : \A i \in 1 .. Len(new[l]) :
            \E j \in 1 .. Len(net[l]) : new[l][i] = net[l][j]
    BY TakenMessages
  <1>5. new \in Networks /\ Head(net[<<a, b>>]) \in On(net, <<a, b>>)
    BY TakenType, HeadOn
  <1> HIDE DEF new
  <1>6. ASSUME NEW l \in Links PROVE On(new, l) \subseteq On(net, l)
    BY <1>4 DEF On
  <1>7. ASSUME NEW l \in Links, NEW n \in On(net, l)
        PROVE  n \in On(new, l) \/ (l = <<a, b>> /\ n = Head(net[l]))
    <2>1. PICK i \in 1 .. Len(net[l]) : n = net[l][i]
      BY DEF On
    <2> QED
      BY <1>2, <1>3, <2>1 DEF On
  <1> QED
    BY <1>5, <1>6, <1>7 DEF new

\* A send keeps at most one message of a set of types on the links if there
\* was none, or if the message is not of these types.
LEMMA SentKeepsOne ==
    ASSUME NEW net \in Networks, NEW a, NEW b, NEW m \in Messages, NEW types,
           \/ AtMostOneOf(net, types) /\ m.type \notin types
           \/ NoneOf(net, types)
    PROVE  AtMostOneOf(Sent(net, a, b, m), types)
  <1> DEFINE new == Sent(net, a, b, m)
  <1>1. \A l \in Links : \A i \in 1 .. Len(new[l]) :
            \/ i \in 1 .. Len(net[l]) /\ new[l][i] = net[l][i]
            \/ l = <<a, b>> /\ i = Len(net[l]) + 1 /\ new[l][i] = m
    BY SentMessages
  <1> HIDE DEF new
  <1>2. ASSUME AtMostOneOf(net, types), m.type \notin types
        PROVE  AtMostOneOf(new, types)
    <2>1. \A l \in Links : \A i \in 1 .. Len(new[l]) :
              new[l][i].type \in types => i \in 1 .. Len(net[l]) /\ new[l][i] = net[l][i]
      BY <1>1, <1>2
    <2>2. ASSUME NEW l \in Links, NEW k \in Links,
                 NEW i \in 1 .. Len(new[l]), NEW j \in 1 .. Len(new[k]),
                 new[l][i].type \in types, new[k][j].type \in types
          PROVE  l = k /\ i = j
      <3>1. i \in 1 .. Len(net[l]) /\ net[l][i].type \in types
        BY <2>1, <2>2
      <3>2. j \in 1 .. Len(net[k]) /\ net[k][j].type \in types
        BY <2>1, <2>2
      <3> QED
        BY <1>2, <3>1, <3>2 DEF AtMostOneOf
    <2> QED
      BY <2>2 DEF AtMostOneOf
  <1>3. ASSUME NoneOf(net, types)
        PROVE  AtMostOneOf(new, types)
    <2>1. \A l \in Links : \A i \in 1 .. Len(net[l]) : net[l][i].type \notin types
      BY <1>3 DEF NoneOf, On
    <2>2. \A l \in Links : \A i \in 1 .. Len(new[l]) :
              new[l][i].type \in types => l = <<a, b>> /\ i = Len(net[l]) + 1
      BY <1>1, <2>1
    <2>3. ASSUME NEW l \in Links, NEW k \in Links,
                 NEW i \in 1 .. Len(new[l]), NEW j \in 1 .. Len(new[k]),
                 new[l][i].type \in types, new[k][j].type \in types
          PROVE  l = k /\ i = j
      <3>1. l = <<a, b>> /\ i = Len(net[l]) + 1
        BY <2>2, <2>3
      <3>2. k = <<a, b>> /\ j = Len(net[k]) + 1
        BY <2>2, <2>3
      <3> QED
        BY <3>1, <3>2
    <2> QED
      BY <2>3 DEF AtMostOneOf
  <1>4. AtMostOneOf(new, types)
    BY <1>2, <1>3
  <1> QED
    BY <1>4 DEF new

\* A take keeps at most one, and leaves none if it takes that one.
LEMMA TakenKeepsOne ==
    ASSUME NEW net \in Networks, NEW a, NEW b, <<a, b>> \in Links, net[<<a, b>>] # <<>>,
           NEW types, AtMostOneOf(net, types)
    PROVE  /\ AtMostOneOf(Taken(net, a, b), types)
           /\ Head(net[<<a, b>>]).type \in types => NoneOf(Taken(net, a, b), types)
  <1> DEFINE new == Taken(net, a, b)
             place(l, i) == IF l = <<a, b>> THEN i + 1 ELSE i
  <1>1. \A l \in Links : \A i \in 1 .. Len(new[l]) :
            /\ place(l, i) \in 1 .. Len(net[l]) /\ new[l][i] = net[l][place(l, i)]
            /\ ~(l = <<a, b>> /\ place(l, i) = 1)
    BY TakenMessages
  <1>2. \A l \in Links : \A i, j \in 1 .. Len(new[l]) :
            place(l, i) = place(l, j) => i = j
    OBVIOUS
  <1>3. /\ 1 \in 1 .. Len(net[<<a, b>>])
        /\ Head(net[<<a, b>>]) = net[<<a, b>>][1]
    BY DEF Networks
  <1> HIDE DEF new, place
  <1>4. AtMostOneOf(new, types)
    <2> SUFFICES ASSUME NEW l \in Links, NEW k \in Links,
                        NEW i \in 1 .. Len(new[l]), NEW j \in 1 .. Len(new[k]),
                        new[l][i].type \in types, new[k][j].type \in types
                 PROVE  l = k /\ i = j
      BY DEF AtMostOneOf
    <2>1. /\ place(l, i) \in 1 .. Len(net[l]) /\ new[l][i] = net[l][place(l, i)]
          /\ place(k, j) \in 1 .. Len(net[k]) /\ new[k][j] = net[k][place(k, j)]
      BY <1>1
    <2>2. net[l][place(l, i)].type \in types /\ net[k][place(k, j)].type \in types
      BY <2>1
    <2>3. l = k /\ place(l, i) = place(k, j)
      BY <2>1, <2>2 DEF AtMostOneOf
    <2> QED
      BY <1>2, <2>3
  <1>5. ASSUME Head(net[<<a, b>>]).type \in types PROVE NoneOf(new, types)
    <2> SUFFICES ASSUME NEW l \in Links, NEW i \in 1 .. Len(new[l]),
                        new[l][i].type \in types
                 PROVE  FALSE
      BY DEF NoneOf, On
    <2>1. net[l][place(l, i)].type \in types
      BY <1>1
    <2>2. l = <<a, b>> /\ place(l, i) = 1
      BY <1>1, <1>3, <1>5, <2>1 DEF AtMostOneOf
    <2> QED
      BY <1>1, <2>2
  <1> QED
    BY <1>4, <1>5 DEF new

\* The order of two types on every link is kept by a take, and by a send
\* unless it puts a message of type P on a link that has one of type Q.
LEMMA TakenKeepsOrder ==
    ASSUME NEW net \in Networks, NEW a, NEW b, <<a, b>> \in Links, net[<<a, b>>] # <<>>,
           NEW P, NEW Q, \A l \in Links : Precedes(net[l], P, Q)
    PROVE  \A l \in Links : Precedes(Taken(net, a, b)[l], P, Q)
  <1> DEFINE new == Taken(net, a, b)
             place(l, i) == IF l = <<a, b>> THEN i + 1 ELSE i
  <1>1. \A l \in Links : \A i \in 1 .. Len(new[l]) :
            place(l, i) \in 1 .. Len(net[l]) /\ new[l][i] = net[l][place(l, i)]
    BY TakenMessages
  <1>2. \A l \in Links : \A i, j \in 1 .. Len(new[l]) :
            place(l, i) < place(l, j) => i < j
    OBVIOUS
  <1> HIDE DEF new, place
  <1>3. \A l \in Links : Precedes(new[l], P, Q)
    <2> SUFFICES ASSUME NEW l \in Links,
                        NEW i \in 1 .. Len(new[l]), NEW j \in 1 .. Len(new[l]),
                        new[l][i].type = P, new[l][j].type = Q
                 PROVE  i < j
      BY DEF Precedes
    <2>1. /\ place(l, i) \in 1 .. Len(net[l]) /\ new[l][i] = net[l][place(l, i)]
          /\ place(l, j) \in 1 .. Len(net[l]) /\ new[l][j] = net[l][place(l, j)]
      BY <1>1
    <2>2. net[l][place(l, i)].type = P /\ net[l][place(l, j)].type = Q
      BY <2>1
    <2>3. place(l, i) < place(l, j)
      BY <2>1, <2>2 DEF Precedes
    <2> QED
      BY <1>2, <2>3
  <1> QED
    BY <1>3 DEF new

\* A message that is sent comes after those on the link.
LEMMA SentKeepsOrder ==
    ASSUME NEW net \in Networks, NEW a, NEW b, NEW m \in Messages,
           NEW P, NEW Q, P # Q, \A l \in Links : Precedes(net[l], P, Q),
           m.type = P => \A n \in On(net, <<a, b>>) : n.type # Q
    PROVE  \A l \in Links : Precedes(Sent(net, a, b, m)[l], P, Q)
  <1> DEFINE new == Sent(net, a, b, m)
  <1>1. \A l \in Links : \A i \in 1 .. Len(new[l]) :
            \/ i \in 1 .. Len(net[l]) /\ new[l][i] = net[l][i]
            \/ l = <<a, b>> /\ i = Len(net[l]) + 1 /\ new[l][i] = m
    BY SentMessages
  <1>2. \A l \in Links : Len(net[l]) \in Nat
    BY DEF Networks
  <1> HIDE DEF new
  <1>3. ASSUME NEW l \in Links, NEW i \in 1 .. Len(new[l]), NEW j \in 1 .. Len(new[l]),
               new[l][i].type = P, new[l][j].type = Q
        PROVE  i < j
    <2>1. CASE i \in 1 .. Len(net[l]) /\ new[l][i] = net[l][i]
      BY <1>1, <1>2, <1>3, <2>1 DEF Precedes
    <2>2. CASE l = <<a, b>> /\ i = Len(net[l]) + 1 /\ new[l][i] = m
      <3>1. ~(j \in 1 .. Len(net[l]) /\ new[l][j] = net[l][j])
        BY <1>3, <2>2 DEF On
      <3> QED
        BY <1>1, <1>3, <2>2, <3>1
    <2> QED
      BY <1>1, <2>1, <2>2
  <1>4. \A l \in Links : Precedes(new[l], P, Q)
    BY <1>3 DEF Precedes
  <1> QED
    BY <1>4 DEF new
-----------------------------------------------------------------------------
(***************************************************************************)
(* The order of what the coordinator tells a cell: at most one release,    *)
(* behind every switch that is about the same context, and ahead of every  *)
(* request for the next handover.                                          *)
(***************************************************************************)
InOrder(s) ==
    \A i, j \in 1 .. Len(s) : s[i].type = "UeContextRelease" =>
        /\ s[j].type = "UeContextRelease" => i = j
        /\ s[j].type = "McHandoverRequest" => i < j
        /\ s[j] = SwitchConnection(s[i].oldId) => j < i

\* A send keeps the order unless it puts a release behind another one or
\* behind a request, or a switch behind the release of its context.
LEMMA SentInOrder ==
    ASSUME NEW net \in Networks, NEW a, NEW b, NEW m \in Messages,
           \A l \in Links : InOrder(net[l]),
           \A n \in On(net, <<a, b>>) :
               /\ m.type = "UeContextRelease" =>
                      n.type \notin {"UeContextRelease", "McHandoverRequest"}
               /\ n.type = "UeContextRelease" => m # SwitchConnection(n.oldId)
    PROVE  \A l \in Links : InOrder(Sent(net, a, b, m)[l])
  <1> DEFINE new == Sent(net, a, b, m)
  <1>1. \A l \in Links : \A i \in 1 .. Len(new[l]) :
            \/ i \in 1 .. Len(net[l]) /\ new[l][i] = net[l][i]
            \/ l = <<a, b>> /\ i = Len(net[l]) + 1 /\ new[l][i] = m
    BY SentMessages
  <1>2. \A l \in Links : Len(net[l]) \in Nat
    BY DEF Networks
  <1>3. \A n : n = SwitchConnection(n.oldId) => n.type # "UeContextRelease"
    BY DEF SwitchConnection
  <1> HIDE DEF new
  <1>4. ASSUME NEW l \in Links, NEW i \in 1 .. Len(new[l]), NEW j \in 1 .. Len(new[l]),
               new[l][i].type = "UeContextRelease"
        PROVE  /\ new[l][j].type = "UeContextRelease" => i = j
               /\ new[l][j].type = "McHandoverRequest" => i < j
               /\ new[l][j] = SwitchConnection(new[l][i].oldId) => j < i
    <2>1. CASE i \in 1 .. Len(net[l]) /\ new[l][i] = net[l][i]
      <3>1. CASE j \in 1 .. Len(net[l]) /\ new[l][j] = net[l][j]
        BY <1>4, <2>1, <3>1 DEF InOrder
      <3>2. CASE l = <<a, b>> /\ j = Len(net[l]) + 1 /\ new[l][j] = m
        <4>1. net[l][i] \in On(net, <<a, b>>)
          BY <2>1, <3>2 DEF On
        <4> QED
          BY <1>2, <1>4, <2>1, <3>2, <4>1
      <3> QED
        BY <1>1, <3>1, <3>2
    <2>2. CASE l = <<a, b>> /\ i = Len(net[l]) + 1 /\ new[l][i] = m
      <3>1. CASE j \in 1 .. Len(net[l]) /\ new[l][j] = net[l][j]
        <4>1. net[l][j] \in On(net, <<a, b>>)
          BY <2>2, <3>1 DEF On
        <4> QED
          BY <1>2, <1>4, <2>2, <3>1, <4>1
      <3>2. CASE l = <<a, b>> /\ j = Len(net[l]) + 1 /\ new[l][j] = m
        BY <1>3, <1>4, <2>2, <3>2
      <3> QED
        BY <1>1, <3>1, <3>2
    <2> QED
      BY <1>1, <2>1, <2>2
  <1>5. \A l \in Links : InOrder(new[l])
    BY <1>4 DEF InOrder
  <1> QED
    BY <1>5 DEF new

\* A take keeps the order.  If it takes a release, neither a release nor a
\* switch of the same context is left; and a request is taken only from a link
\* without a release.
LEMMA TakenInOrder ==
    ASSUME NEW net \in Networks, NEW a, NEW b, <<a, b>> \in Links, net[<<a, b>>] # <<>>,
           \A l \in Links : InOrder(net[l]), NEW m, m = Head(net[<<a, b>>])
    PROVE  /\ \A l \in Links : InOrder(Taken(net, a, b)[l])
           /\ m.type = "UeContextRelease" =>
                 \A n \in On(Taken(net, a, b), <<a, b>>) :
                     n.type # "UeContextRelease" /\ n # SwitchConnection(m.oldId)
           /\ m.type = "McHandoverRequest" =>
                 \A n \in On(net, <<a, b>>) : n.type # "UeContextRelease"
  <1> DEFINE new == Taken(net, a, b)
             place(l, i) == IF l = <<a, b>> THEN i + 1 ELSE i
  <1>1. \A l \in Links : \A i \in 1 .. Len(new[l]) :
            /\ place(l, i) \in 1 .. Len(net[l]) /\ new[l][i] = net[l][place(l, i)]
            /\ ~(l = <<a, b>> /\ place(l, i) = 1)
    BY TakenMessages
  <1>2. \A l \in Links : \A i, j \in 1 .. Len(new[l]) :
            /\ place(l, i) < place(l, j) => i < j
            /\ place(l, i) = place(l, j) => i = j
    OBVIOUS
  <1>3. /\ 1 \in 1 .. Len(net[<<a, b>>]) /\ net[<<a, b>>][1] = m
        /\ Len(net[<<a, b>>]) \in Nat
    BY DEF Networks
  <1>4. \A i \in 1 .. Len(new[<<a, b>>]) : place(<<a, b>>, i) > 1
    OBVIOUS
  <1> HIDE DEF new, place
  <1>5. \A l \in Links : InOrder(new[l])
    <2> SUFFICES ASSUME NEW l \in Links,
                        NEW i \in 1 .. Len(new[l]), NEW j \in 1 .. Len(new[l]),
                        new[l][i].type = "UeContextRelease"
                 PROVE  /\ new[l][j].type = "UeContextRelease" => i = j
                        /\ new[l][j].type = "McHandoverRequest" => i < j
                        /\ new[l][j] = SwitchConnection(new[l][i].oldId) => j < i
      BY DEF InOrder
    <2>1. /\ place(l, i) \in 1 .. Len(net[l]) /\ new[l][i] = net[l][place(l, i)]
          /\ place(l, j) \in 1 .. Len(net[l]) /\ new[l][j] = net[l][place(l, j)]
      BY <1>1
    <2>2. /\ new[l][j].type = "UeContextRelease" => place(l, i) = place(l, j)
          /\ new[l][j].type = "McHandoverRequest" => place(l, i) < place(l, j)
          /\ new[l][j] = SwitchConnection(new[l][i].oldId) => place(l, j) < place(l, i)
      BY <2>1 DEF InOrder
    <2> QED
      BY <1>2, <2>2
  <1>6. ASSUME m.type = "UeContextRelease", NEW n \in On(new, <<a, b>>)
        PROVE  n.type # "UeContextRelease" /\ n # SwitchConnection(m.oldId)
    <2>1. PICK i \in 1 .. Len(new[<<a, b>>]) : n = new[<<a, b>>][i]
      BY DEF On
    <2>2. PICK j \in 1 .. Len(net[<<a, b>>]) : n = net[<<a, b>>][j] /\ j > 1
      BY <1>1, <1>4, <2>1
    <2> QED
      BY <1>3, <1>6, <2>2 DEF InOrder
  <1>7. ASSUME m.type = "McHandoverRequest", NEW n \in On(net, <<a, b>>)
        PROVE  n.type # "UeContextRelease"
    <2>1. PICK j \in 1 .. Len(net[<<a, b>>]) : n = net[<<a, b>>][j]
      BY DEF On
    <2> QED
      BY <1>3, <1>7, <2>1 DEF InOrder
  <1> QED
    BY <1>5, <1>6, <1>7 DEF new

-----------------------------------------------------------------------------
(***************************************************************************)
(* Type correctness                                                        *)
(***************************************************************************)
\* Some field of a context may change.
LEMMA ContextType ==
    ASSUME NEW man \in UeManagers, NEW c \in Cells, NEW r \in Rntis
    PROVE  /\ man[c][r] \in Contexts
           /\ \A x \in Contexts : [man EXCEPT ![c][r] = x] \in UeManagers
           /\ \A s \in UeStates : [man[c][r] EXCEPT !.state = s] \in Contexts
           /\ \A t \in Nodes : [man[c][r] EXCEPT !.target = t] \in Contexts
           /\ \A t \in Cells : [man[c][r] EXCEPT !.queued = t] \in Contexts
           /\ NoContext \in Contexts
  <1>1. man[c][r] \in Contexts
    BY DEF UeManagers
  <1>2. ASSUME NEW x \in Contexts PROVE [man EXCEPT ![c][r] = x] \in UeManagers
    <2>1. man[c] \in [Rntis -> Contexts]
      BY DEF UeManagers
    <2>2. [man[c] EXCEPT ![r] = x] \in [Rntis -> Contexts]
      BY <1>2, <2>1
    <2> QED
      BY <2>2 DEF UeManagers
  <1>3. \A s \in UeStates : [man[c][r] EXCEPT !.state = s] \in Contexts
    BY <1>1 DEF Contexts
  <1>4. \A t \in Nodes : [man[c][r] EXCEPT !.target = t] \in Contexts
    BY <1>1 DEF Contexts
  <1>5. \A t \in Cells : [man[c][r] EXCEPT !.queued = t] \in Contexts
    BY <1>1 DEF Contexts
  <1>6. NoContext \in Contexts
    BY DEF NoContext, Contexts, UeStates
  <1> QED
    BY <1>1, <1>2, <1>3, <1>4, <1>5, <1>6

\* What is there at the start has its types.
LEMMA InitType == Init => TypeOK
  <1> SUFFICES ASSUME Init PROVE TypeOK
    OBVIOUS
  <1> USE CellsAssumption, RntiAssumption, HandoverAssumption
  <1>1. FirstCell \in Cells /\ 1 \in Rntis
    BY DEF Rntis
  <1>2. CoordinatorType
    BY <1>1 DEF Init, CoordinatorType
  <1>3. ContextsType
    <2>1. NoContext \in Contexts
        /\ [NoContext EXCEPT !.state = "CONNECTED_NORMALLY", !.rlc = Drbs,
                             !.rlcRequests = Drbs] \in Contexts
      BY DEF Contexts, NoContext, UeStates
    <2>2. ueMan \in UeManagers
      BY <2>1 DEF Init, UeManagers
    <2>3. \A c \in Cells, r \in Rntis : ueMan[c][r].state # "HANDOVER_JOINING"
      BY DEF Init, NoContext
    <2> QED
      BY <1>1, <2>2, <2>3 DEF Init, ContextsType, JoinersKnowSource
  <1>4. TerminalType
    BY <1>1 DEF Init, TerminalType
  <1>5. MessagesType
    BY DEF Init, MessagesType, NoTraffic, Networks
  <1> QED
    BY <1>2, <1>3, <1>4, <1>5 DEF TypeOK

\* A change of the state, the target or the queued target of a context that
\* is not waiting for the UE keeps the types.
LEMMA PrepareHandoverType ==
    ASSUME NEW man \in UeManagers, NEW net \in Networks,
           NEW c \in Cells, NEW r \in Rntis, NEW target \in Cells,
           TypeOK, PrepareHandover(man, net, c, r, target), JoinersKnowSource(man)
    PROVE  ueMan' \in UeManagers /\ JoinersKnowSource(ueMan)' /\ x2' \in Networks
  <1> DEFINE context == man[c][r]
  <1>0. ueMan \in UeManagers /\ x2 \in Networks
    BY DEF TypeOK, ContextsType, MessagesType
  <1>1. ASSUME context.state = "CONNECTED_NORMALLY", <<c, target>> \in Links,
               ueMan' = [man EXCEPT ![c][r] =
                   [@ EXCEPT !.state = "HANDOVER_PREPARATION",
                             !.target = target, !.rlcRequests = {}]],
               x2' = Sent(net, c, target, HandoverRequest(r, context.rlcRequests))
        PROVE  ueMan' \in UeManagers /\ JoinersKnowSource(ueMan)' /\ x2' \in Networks
    <2> DEFINE new == [context EXCEPT !.state = "HANDOVER_PREPARATION",
                                      !.target = target, !.rlcRequests = {}]
    <2>0. context \in Contexts
      BY ContextType
    <2>1. context \in Contexts /\ new \in Contexts
      <3>1. "HANDOVER_PREPARATION" \in UeStates /\ target \in Nodes /\ {} \in SUBSET Drbs
        BY DEF UeStates, Nodes
      <3> QED
        BY <2>0, <3>1 DEF Contexts
    <2>2. ueMan' = [man EXCEPT ![c][r] = new]
      BY <1>1
    <2>3. HandoverRequest(r, context.rlcRequests) \in Messages
      BY <2>1 DEF Contexts, Messages
    <2> QED
      BY <1>1, <2>1, <2>2, <2>3, ContextType, SentType DEF UeManagers, JoinersKnowSource
  <1>2. ASSUME context.state = "HANDOVER_JOINING", x2' = net,
               ueMan' = [man EXCEPT ![c][r] = [@ EXCEPT !.queued = target]]
        PROVE  ueMan' \in UeManagers /\ JoinersKnowSource(ueMan)' /\ x2' \in Networks
    <2>1. context \in Contexts /\ [context EXCEPT !.queued = target] \in Contexts
      BY ContextType
    <2>2. ueMan' \in UeManagers
      BY <1>2, <2>1, ContextType
    <2> QED
      BY <1>2, <2>1, <2>2 DEF UeManagers, Contexts, JoinersKnowSource
  <1>3. ASSUME UNCHANGED <<ueMan, x2>>
        PROVE  ueMan' \in UeManagers /\ JoinersKnowSource(ueMan)' /\ x2' \in Networks
    BY <1>3 DEF TypeOK, ContextsType, MessagesType
  <1> QED
    BY <1>1, <1>2, <1>3 DEF PrepareHandover

-----------------------------------------------------------------------------
\* The coordinator's own actions.
LEMMA DecideType ==
    ASSUME TypeOK, Decide \/ PerformHandover \/ ReadControlFile
    PROVE  TypeOK'
  <1> USE CellsAssumption, RntiAssumption, HandoverAssumption
  <1> USE DEF TypeOK, CoordinatorType, coordinator, contexts, terminal, air
  <1>1. ASSUME NEW target \in Cells, RequestHandover(target)
        PROVE  x2' \in Networks /\ setup' \in BOOLEAN /\ asked' \in Cells
    <2>1. McHandoverRequest(target) \in Messages
      BY DEF Messages
    <2> QED
      BY <1>1, <2>1, SentType DEF RequestHandover, MessagesType
  <1>2. ASSUME NEW useMmWave \in BOOLEAN, SendRrcConnectionSwitch(useMmWave)
        PROVE  /\ x2' \in Networks /\ switchDown' \in Seq(BOOLEAN)
               /\ pdcp' \in [Drbs -> [cell : Cells, rnti : Rntis, mm : BOOLEAN]]
               /\ usingLte' \in BOOLEAN
    <2>1. SwitchConnection(mmRnti) \in Messages
      BY DEF Messages
    <2>2. x2' \in Networks
      BY <1>2, <2>1, SentType DEF SendRrcConnectionSwitch, MessagesType
    <2>3. switchDown' \in Seq(BOOLEAN) /\ usingLte' \in BOOLEAN
      BY <1>2 DEF SendRrcConnectionSwitch, MessagesType
    <2>4. pdcp' = [d \in Drbs |-> [pdcp[d] EXCEPT !.mm = useMmWave]]
      BY <1>2 DEF SendRrcConnectionSwitch
    <2> QED
      BY <2>2, <2>3, <2>4
  <1>3. CASE SwitchToLte
    BY <1>2, <1>3 DEF SwitchToLte, CancelHandoverEvent, ContextsType, TerminalType, MessagesType
  <1>4. CASE SwitchBackToMmWave
    BY <1>2, <1>4 DEF SwitchBackToMmWave, ContextsType, TerminalType, MessagesType
  <1>5. CASE HandoverFromLte
    BY <1>1, <1>5 DEF HandoverFromLte, ContextsType, TerminalType, MessagesType
  <1>6. CASE ThresholdHandover
    BY <1>1, <1>6 DEF ThresholdHandover, ContextsType, TerminalType, MessagesType
  <1>7. CASE TttBasedHandover
    BY <1>7 DEF TttBasedHandover, CancelHandoverEvent, ContextsType, TerminalType, MessagesType
  <1>8. CASE PerformHandover
    BY <1>1, <1>8 DEF PerformHandover, Stop, NoEvent, ContextsType, TerminalType,
                      MessagesType
  <1>9. CASE ReadControlFile
    BY <1>1, <1>9 DEF ReadControlFile, ContextsType, TerminalType, MessagesType
  <1> QED
    BY <1>3, <1>4, <1>5, <1>6, <1>7, <1>8, <1>9 DEF Decide

\* RemoveUe leaves a context out and takes its messages off the air.
LEMMA RemoveUeType ==
    ASSUME TypeOK, NEW c \in Cells, NEW r \in Rntis, RemoveUe(c, r)
    PROVE  /\ ueMan' \in UeManagers /\ JoinersKnowSource(ueMan)'
           /\ rrcDown' \subseteq rrcDown /\ rrcUp' \subseteq rrcUp
  <1>1. ueMan \in UeManagers /\ JoinersKnowSource(ueMan)
    BY DEF TypeOK, ContextsType
  <1>2. ueMan' = [ueMan EXCEPT ![c][r] = NoContext]
    BY DEF RemoveUe
  <1>3. ueMan' \in UeManagers
    BY <1>1, <1>2, ContextType
  <1>4. JoinersKnowSource(ueMan)'
    BY <1>1, <1>2, <1>3 DEF JoinersKnowSource, UeManagers, NoContext
  <1> QED
    BY <1>3, <1>4 DEF RemoveUe

\* A context that changes to a typed one which, when it waits for the UE, knows
\* its source.
LEMMA ContextChange ==
    ASSUME TypeOK, NEW c \in Cells, NEW r \in Rntis, NEW x \in Contexts,
           x.state = "HANDOVER_JOINING" => x.sourceId # NoRnti,
           NEW man, man = [ueMan EXCEPT ![c][r] = x]
    PROVE  man \in UeManagers /\ JoinersKnowSource(man)
  <1>1. ueMan \in UeManagers /\ JoinersKnowSource(ueMan)
    BY DEF TypeOK, ContextsType
  <1>2. man \in UeManagers
    BY <1>1, ContextType
  <1> QED
    BY <1>1, <1>2 DEF JoinersKnowSource, UeManagers

\* Nothing but the fault changes when the simulation stops.
LEMMA StopType ==
    ASSUME TypeOK, NEW why, Stop(why)
    PROVE  TypeOK'
  BY DEF Stop, TypeOK, CoordinatorType, ContextsType, JoinersKnowSource, TerminalType,
         MessagesType, coordinator, contexts, terminal, air

\* The messages that a mmWave cell receives over X2.
LEMMA RecvType ==
    ASSUME TypeOK, NEW c \in Cells, NEW a \in Cells,
           RecvFromLte(c) \/ RecvFromCell(a, c) \/ RecvAtLte(c)
    PROVE  TypeOK'
  <1> USE CellsAssumption, RntiAssumption, HandoverAssumption
  <1> USE DEF TypeOK, coordinator, contexts, terminal, air
  <1>0. /\ x2 \in Networks /\ ueMan \in UeManagers /\ JoinersKnowSource(ueMan)
        /\ NoRnti \notin Rntis
    BY DEF MessagesType, ContextsType, NoRnti, Rntis
  <1>1. CASE RecvMcHandoverRequest(c)
    <2> DEFINE target == Head(x2[<<LteCell, c>>]).target
               net == Taken(x2, LteCell, c)
    <2>1. net \in Networks /\ target \in Cells
      BY <1>0, <1>1, ArrivesType, TakenType, MessageTypes DEF RecvMcHandoverRequest
    <2>2. ueMan' \in UeManagers /\ JoinersKnowSource(ueMan)' /\ x2' \in Networks
      <3>1. SendHandoverRequest(net, c, target)
        BY <1>1 DEF RecvMcHandoverRequest
      <3>2. CASE Known(c, rntiOf[c])
        <4>1. rntiOf[c] \in Rntis
          BY <3>2 DEF Known, ContextsType
        <4>2. PrepareHandover(ueMan, net, c, rntiOf[c], target)
          BY <3>1, <3>2 DEF SendHandoverRequest
        <4> QED
          BY <1>0, <2>1, <4>1, <4>2, PrepareHandoverType
      <3>3. CASE ~Known(c, rntiOf[c])
        BY <1>0, <3>1, <3>3 DEF SendHandoverRequest, JoinersKnowSource
      <3> QED
        BY <3>2, <3>3
    <2> QED
      BY <1>1, <2>2 DEF RecvMcHandoverRequest, CoordinatorType, ContextsType,
                        TerminalType, MessagesType
  <1>2. CASE RecvUeContextRelease(c)
    <2> DEFINE r == Head(x2[<<LteCell, c>>]).oldId
    <2>1. Taken(x2, LteCell, c) \in Networks /\ r \in Rntis
      BY <1>0, <1>2, ArrivesType, TakenType, MessageTypes DEF RecvUeContextRelease
    <2>2. CASE \E why : Stop(why)
      BY <2>2, StopType
    <2>3. CASE /\ RemoveUe(c, r)
               /\ timers' = timers \ {Timer("leaving", c, r)}
               /\ teidFwd' = [teidFwd EXCEPT ![c] = @ \ ueMan[c][r].rlc]
               /\ x2' = Taken(x2, LteCell, c)
               /\ UNCHANGED <<coordinator, lastRnti, rntiOf, e2Event, terminal,
                              switchDown>>
      <3>1. /\ ueMan' \in UeManagers /\ JoinersKnowSource(ueMan)'
            /\ rrcDown' \subseteq rrcDown /\ rrcUp' \subseteq rrcUp
        BY <2>1, <2>3, RemoveUeType
      <3>2. teidFwd' \in [Cells -> SUBSET Drbs]
        BY <2>3 DEF ContextsType
      <3> QED
        BY <2>1, <2>3, <3>1, <3>2 DEF CoordinatorType, ContextsType, TerminalType,
                                      MessagesType
    <2> QED
      BY <1>2, <2>2, <2>3 DEF RecvUeContextRelease, RemoveTeids
  <1>3. CASE RecvConnectionSwitchToMmWave(c)
    <2> DEFINE r == Head(x2[<<LteCell, c>>]).rnti
               x == [ueMan[c][r] EXCEPT !.target = LteCell]
    <2>1. Taken(x2, LteCell, c) \in Networks /\ r \in Rntis
      BY <1>0, <1>3, ArrivesType, TakenType, MessageTypes
      DEF RecvConnectionSwitchToMmWave
    <2>2. CASE \E why : Stop(why)
      BY <2>2, StopType
    <2>3. CASE /\ ueMan' = [ueMan EXCEPT ![c][r] = x]
               /\ x2' = Taken(x2, LteCell, c)
               /\ UNCHANGED <<coordinator, lastRnti, rntiOf, teidFwd, timers,
                              e2Event, terminal, air>>
      <3>1. ueMan[c][r] \in Contexts /\ LteCell \in Nodes
        BY <1>0, <2>1, ContextType DEF Nodes
      <3>2. x \in Contexts /\ x.state = ueMan[c][r].state
            /\ x.sourceId = ueMan[c][r].sourceId
        BY <3>1 DEF Contexts
      <3>3. x.state = "HANDOVER_JOINING" => x.sourceId # NoRnti
        BY <1>0, <2>1, <3>2 DEF JoinersKnowSource
      <3>4. ueMan' \in UeManagers /\ JoinersKnowSource(ueMan)'
        BY <2>1, <2>3, <3>2, <3>3, ContextChange
      <3> QED
        BY <2>1, <2>3, <3>4 DEF CoordinatorType, ContextsType, TerminalType,
                                MessagesType
    <2> QED
      BY <1>3, <2>2, <2>3 DEF RecvConnectionSwitchToMmWave
  <1>4. CASE RecvHandoverRequest(a, c)
    <2> DEFINE m == Head(x2[<<a, c>>])
               net == Taken(x2, a, c)
    <2>1. net \in Networks /\ m.oldId \in Rntis /\ m.rlc \in SUBSET Drbs
      BY <1>0, <1>4, ArrivesType, TakenType, MessageTypes DEF RecvHandoverRequest
    <2>2. ASSUME x2' = Sent(net, c, a, HandoverPreparationFailure(m.oldId))
          PROVE  x2' \in Networks
      <3>1. HandoverPreparationFailure(m.oldId) \in Messages
        BY <2>1 DEF Messages
      <3> QED
        BY <2>1, <2>2, <3>1, SentType
    <2>3. ASSUME NEW r \in Rntis,
                 ueMan' = [ueMan EXCEPT ![c][r] = JoiningContext(a, m)],
                 timers' = timers \cup {Timer("joining", c, r)},
                 x2' = Sent(net, c, a, HandoverRequestAck(m.oldId, r))
          PROVE  /\ ueMan' \in UeManagers /\ JoinersKnowSource(ueMan)'
                 /\ x2' \in Networks
                 /\ timers' \subseteq Timers
      <3>2. JoiningContext(a, m) \in Contexts /\ JoiningContext(a, m).sourceId # NoRnti
        BY <1>0, <2>1 DEF Contexts, UeStates, JoiningContext
      <3>3. HandoverRequestAck(m.oldId, r) \in Messages
        BY <2>1 DEF Messages
      <3>4. x2' \in Networks
        BY <2>1, <2>3, <3>3, SentType
      <3>5. ueMan' \in UeManagers /\ JoinersKnowSource(ueMan)'
        BY <2>3, <3>2, ContextChange
      <3>6. timers' \subseteq Timers
        BY <2>3 DEF ContextsType, Timers, Timer
      <3> QED
        BY <3>4, <3>5, <3>6
    <2>4. CASE /\ x2' = Sent(net, c, a, HandoverPreparationFailure(m.oldId))
               /\ UNCHANGED <<contexts, coordinator, e2Event, terminal, air>>
      BY <1>0, <2>2, <2>4 DEF CoordinatorType, ContextsType, JoinersKnowSource,
                              TerminalType, MessagesType
    <2>5. CASE UNCHANGED <<x2, contexts, coordinator, e2Event, terminal, air>>
      BY <1>0, <2>5 DEF CoordinatorType, ContextsType, JoinersKnowSource,
                        TerminalType, MessagesType
    <2>6. ASSUME NEW r \in Rntis,
                 ueMan' = [ueMan EXCEPT ![c][r] = JoiningContext(a, m)],
                 lastRnti' = [lastRnti EXCEPT ![c] = r],
                 rntiOf' = [rntiOf EXCEPT ![c] = r],
                 timers' = timers \cup {Timer("joining", c, r)},
                 x2' = Sent(net, c, a, HandoverRequestAck(m.oldId, r)),
                 UNCHANGED <<teidFwd, coordinator, e2Event, terminal, air>>
          PROVE  TypeOK'
      <3>1. /\ ueMan' \in UeManagers /\ JoinersKnowSource(ueMan)'
            /\ x2' \in Networks /\ timers' \subseteq Timers
        BY <2>3, <2>6
      <3> QED
        BY <2>6, <3>1 DEF CoordinatorType, ContextsType, TerminalType, MessagesType
    <2> QED
      BY <1>4, <2>4, <2>5, <2>6 DEF RecvHandoverRequest
  <1>5. CASE RecvHandoverRequestAck(a, c)
    <2> DEFINE m == Head(x2[<<a, c>>])
               r == m.oldId
               x == [ueMan[c][r] EXCEPT !.state = "HANDOVER_LEAVING"]
    <2>1. Taken(x2, a, c) \in Networks /\ r \in Rntis /\ m.newId \in Rntis
      BY <1>0, <1>5, ArrivesType, TakenType, MessageTypes DEF RecvHandoverRequestAck
    <2>2. CASE \E why : Stop(why)
      BY <2>2, StopType
    <2>3. CASE /\ rrcDown' = rrcDown \cup
                     {[cell |-> c, rnti |-> r, target |-> a, newRnti |-> m.newId]}
               /\ ueMan' = [ueMan EXCEPT ![c][r] = x]
               /\ timers' = timers \cup {Timer("leaving", c, r)}
               /\ teidFwd' = [teidFwd EXCEPT ![c] = @ \cup ueMan[c][r].rlc]
               /\ x2' = Taken(x2, a, c)
               /\ UNCHANGED <<coordinator, lastRnti, rntiOf, e2Event, terminal,
                              rrcUp, switchDown>>
      <3>1. ueMan[c][r] \in Contexts /\ "HANDOVER_LEAVING" \in UeStates
        BY <1>0, <2>1, ContextType DEF UeStates
      <3>2. x \in Contexts /\ x.state = "HANDOVER_LEAVING" /\ ueMan[c][r].rlc \in SUBSET Drbs
        BY <3>1 DEF Contexts
      <3>3. ueMan' \in UeManagers /\ JoinersKnowSource(ueMan)'
        BY <2>1, <2>3, <3>2, ContextChange
      <3>4. teidFwd' \in [Cells -> SUBSET Drbs] /\ timers' \subseteq Timers
        <4>1. teidFwd' \in [Cells -> SUBSET Drbs]
          BY <2>3, <3>2 DEF ContextsType
        <4>2. timers' \subseteq Timers
          BY <2>1, <2>3 DEF ContextsType, Timers, Timer
        <4> QED
          BY <4>1, <4>2
      <3>5. rrcDown' \subseteq [cell : Cells, rnti : Rntis, target : Cells, newRnti : Rntis]
        BY <2>1, <2>3 DEF MessagesType
      <3> QED
        BY <2>1, <2>3, <3>3, <3>4, <3>5 DEF CoordinatorType, ContextsType,
                                            TerminalType, MessagesType
    <2> QED
      BY <1>5, <2>2, <2>3 DEF RecvHandoverRequestAck, StartLeaving
  <1>6. CASE RecvHandoverPreparationFailure(a, c)
    <2> DEFINE r == Head(x2[<<a, c>>]).oldId
               state == ueMan[c][r].state
               x == [ueMan[c][r] EXCEPT !.state =
                       IF state = "HANDOVER_PREPARATION"
                       THEN "CONNECTED_NORMALLY" ELSE state]
    <2>1. Taken(x2, a, c) \in Networks /\ r \in Rntis
      BY <1>0, <1>6, ArrivesType, TakenType, MessageTypes
      DEF RecvHandoverPreparationFailure
    <2>2. CASE \E why : Stop(why)
      BY <2>2, StopType
    <2>3. CASE /\ ueMan' = [ueMan EXCEPT ![c][r] = x]
               /\ x2' = Taken(x2, a, c)
               /\ UNCHANGED <<coordinator, lastRnti, rntiOf, teidFwd, timers,
                              e2Event, terminal, air>>
      <3>1. ueMan[c][r] \in Contexts /\ "CONNECTED_NORMALLY" \in UeStates
        BY <1>0, <2>1, ContextType DEF UeStates
      <3>2. /\ x \in Contexts /\ x.sourceId = ueMan[c][r].sourceId
            /\ x.state = "HANDOVER_JOINING" => ueMan[c][r].state = "HANDOVER_JOINING"
        BY <3>1 DEF Contexts
      <3>3. x.state = "HANDOVER_JOINING" => x.sourceId # NoRnti
        BY <1>0, <2>1, <3>2 DEF JoinersKnowSource
      <3>4. ueMan' \in UeManagers /\ JoinersKnowSource(ueMan)'
        BY <2>1, <2>3, <3>2, <3>3, ContextChange
      <3> QED
        BY <2>1, <2>3, <3>4 DEF CoordinatorType, ContextsType, TerminalType,
                                MessagesType
    <2> QED
      BY <1>6, <2>2, <2>3 DEF RecvHandoverPreparationFailure
  <1>7. CASE RecvSecondaryCellHandoverCompleted(c)
    <2> DEFINE m == Head(x2[<<c, LteCell>>])
    <2>1. Taken(x2, c, LteCell) \in Networks /\ m.oldId \in Rntis /\ m.rnti \in Rntis
      BY <1>0, <1>7, ArrivesType, TakenType, MessageTypes
      DEF RecvSecondaryCellHandoverCompleted
    <2>2. UeContextRelease(m.oldId) \in Messages
      BY <2>1 DEF Messages
    <2>3. x2' \in Networks
      BY <1>7, <2>1, <2>2, SentType DEF RecvSecondaryCellHandoverCompleted
    <2>4. /\ mmCell' \in Cells /\ mmRnti' \in Rntis /\ last' \in Cells
          /\ setup' \in BOOLEAN /\ usingLte' \in BOOLEAN
      BY <1>7, <2>1 DEF RecvSecondaryCellHandoverCompleted, CoordinatorType
    <2>5. pdcp' \in [Drbs -> [cell : Cells, rnti : Rntis, mm : BOOLEAN]]
      <3> DEFINE bearer == Moved(pdcp[FirstDrb], c, m.rnti)
      <3>1. pdcp \in [Drbs -> [cell : Cells, rnti : Rntis, mm : BOOLEAN]]
        BY DEF CoordinatorType
      <3>2. FirstDrb \in Drbs => bearer \in [cell : Cells, rnti : Rntis, mm : BOOLEAN]
        BY <2>1, <3>1 DEF Moved
      <3>3. pdcp' = [pdcp EXCEPT ![FirstDrb] = bearer] \/ pdcp' = pdcp
        BY <1>7 DEF RecvSecondaryCellHandoverCompleted
      <3> QED
        BY <3>1, <3>2, <3>3
    <2> QED
      BY <1>0, <1>7, <2>3, <2>4, <2>5
      DEF RecvSecondaryCellHandoverCompleted, CoordinatorType, ContextsType,
          JoinersKnowSource, TerminalType, MessagesType
  <1>8. CASE RecvHandoverFailed(c)
    BY <1>8, StopType DEF RecvHandoverFailed
  <1> QED
    BY <1>1, <1>2, <1>3, <1>4, <1>5, <1>6, <1>7, <1>8
    DEF RecvFromLte, RecvFromCell, RecvAtLte

\* The confirmation of the UE, and the RIC Control requests.
LEMMA CompletedType ==
    ASSUME TypeOK, RecvReconfigurationCompleted
    PROVE  TypeOK'
  <1> USE CellsAssumption
  <1> USE DEF TypeOK, coordinator, contexts, terminal, air
  <1>0. x2 \in Networks /\ ueMan \in UeManagers /\ JoinersKnowSource(ueMan)
    BY DEF MessagesType, ContextsType
  <1>1. PICK m \in rrcUp : RecvReconfigurationCompleted!(m)
    BY DEF RecvReconfigurationCompleted
  <1> DEFINE c == m.cell
             r == m.rnti
             context == ueMan[c][r]
             x == [context EXCEPT !.state = "CONNECTED_NORMALLY"]
             man == [ueMan EXCEPT ![c][r] = x]
             net == Sent(x2, c, LteCell, SecondaryCellHandoverCompleted(context.sourceId, r))
  <1>2. c \in Cells /\ r \in Rntis
    BY DEF MessagesType
  <1>3. context \in Contexts /\ x \in Contexts /\ x.state = "CONNECTED_NORMALLY"
    <2>1. context \in Contexts /\ "CONNECTED_NORMALLY" \in UeStates
      BY <1>0, <1>2, ContextType DEF UeStates
    <2> QED
      BY <2>1 DEF Contexts
  <1>4. man \in UeManagers /\ JoinersKnowSource(man)
    BY <1>2, <1>3, ContextChange
  <1>5. ASSUME context.state = "HANDOVER_JOINING" PROVE net \in Networks
    <2>1. context.sourceId \in Rntis
      BY <1>0, <1>2, <1>3, <1>5 DEF JoinersKnowSource, Contexts
    <2>2. SecondaryCellHandoverCompleted(context.sourceId, r) \in Messages
      BY <1>2, <2>1 DEF Messages
    <2> QED
      BY <1>0, <2>2, SentType
  <1>6. ueMan' \in UeManagers /\ JoinersKnowSource(ueMan)' /\ x2' \in Networks
        /\ timers' \subseteq Timers
    <2>1. CASE context.state = "HANDOVER_JOINING" /\ context.queued = NoCell
      <3>1. ueMan' = man /\ x2' = net /\ timers' \subseteq timers
        BY <1>1, <2>1
      <3> QED
        BY <1>4, <1>5, <2>1, <3>1 DEF ContextsType
    <2>2. CASE context.state = "HANDOVER_JOINING" /\ context.queued # NoCell
      <3>1. PrepareHandover(man, net, c, r, context.queued) /\ timers' \subseteq timers
        BY <1>1, <2>2
      <3>2. context.queued \in Cells
        BY <1>3, <2>2 DEF Contexts
      <3> QED
        BY <1>2, <1>4, <1>5, <2>2, <3>1, <3>2, PrepareHandoverType DEF ContextsType
    <2>3. CASE context.state # "HANDOVER_JOINING"
      <3>1. UNCHANGED <<timers, ueMan, x2>>
        BY <1>1, <2>3
      <3> QED
        BY <1>0, <3>1 DEF JoinersKnowSource, ContextsType
    <2> QED
      BY <2>1, <2>2, <2>3
  <1>7. rrcUp' \subseteq rrcUp
        /\ UNCHANGED <<coordinator, lastRnti, rntiOf, teidFwd, e2Event, terminal,
                       rrcDown, switchDown>>
    BY <1>1
  <1> QED
    BY <1>6, <1>7 DEF CoordinatorType, ContextsType, TerminalType, MessagesType

\* A command of the RIC keeps the types.
LEMMA RicType ==
    ASSUME TypeOK, PerformE2RCHO \/ \E c \in Cells : ControlMessageReceived(c)
    PROVE  TypeOK'
  <1> USE DEF TypeOK, coordinator, contexts, terminal, air
  <1>0. x2 \in Networks /\ ueMan \in UeManagers /\ JoinersKnowSource(ueMan)
    BY DEF MessagesType, ContextsType
  <1>1. CASE PerformE2RCHO
    <2> DEFINE c == e2Event.source
               target == e2Event.target
    <2>1. c \in Cells /\ target \in Cells
      BY <1>1 DEF PerformE2RCHO, ContextsType
    <2>2. ueMan' \in UeManagers /\ JoinersKnowSource(ueMan)' /\ x2' \in Networks
      <3>1. CASE UNCHANGED <<ueMan, x2>>
        BY <1>0, <3>1 DEF JoinersKnowSource
      <3>2. CASE Known(c, rntiOf[c]) /\ PrepareHandover(ueMan, x2, c, rntiOf[c], target)
        <4>1. rntiOf[c] \in Rntis
          BY <2>1, <3>2 DEF Known, ContextsType
        <4> QED
          BY <1>0, <2>1, <3>2, <4>1, PrepareHandoverType
      <3> QED
        BY <1>1, <3>1, <3>2 DEF PerformE2RCHO, SendHandoverRequest
    <2> QED
      BY <1>1, <2>2 DEF PerformE2RCHO, CoordinatorType, ContextsType, TerminalType,
                        MessagesType
  <1>2. CASE \E c \in Cells : ControlMessageReceived(c)
    BY <1>2 DEF ControlMessageReceived, CoordinatorType, ContextsType,
                JoinersKnowSource, TerminalType, MessagesType
  <1> QED
    BY <1>1, <1>2

\* The timers of the mmWave cells.
LEMMA ExpireType ==
    ASSUME TypeOK, Expire
    PROVE  TypeOK'
  <1> USE DEF TypeOK, coordinator, contexts, terminal, air
  <1>0. PICK c \in Cells, r \in Rntis :
            \/ HandoverJoiningTimeout(c, r)
            \/ HandoverLeavingTimeout(c, r)
            \/ ScheduledRemoveUe(c, r)
    BY DEF Expire
  <1>1. CASE HandoverJoiningTimeout(c, r) /\ ueMan[c][r].state = "HANDOVER_JOINING"
    <2>1. HandoverFailed \in Messages /\ x2 \in Networks
      BY DEF Messages, MessagesType
    <2>2. x2' \in Networks
      BY <1>1, <2>1, SentType DEF HandoverJoiningTimeout
    <2>3. timers' \subseteq Timers
      BY <1>1 DEF HandoverJoiningTimeout, ContextsType, Timers, Timer
    <2> QED
      BY <1>1, <2>2, <2>3 DEF HandoverJoiningTimeout, CoordinatorType, ContextsType,
                              JoinersKnowSource, TerminalType, MessagesType
  <1>2. CASE \E why : Stop(why)
    BY <1>2, StopType
  <1>3. CASE /\ RemoveUe(c, r) /\ timers' \subseteq timers
             /\ UNCHANGED <<coordinator, lastRnti, rntiOf, teidFwd, e2Event,
                            terminal, x2, switchDown>>
    BY <1>3, RemoveUeType DEF CoordinatorType, ContextsType, TerminalType, MessagesType
  <1> QED
    BY <1>0, <1>1, <1>2, <1>3
    DEF HandoverJoiningTimeout, HandoverLeavingTimeout, ScheduledRemoveUe

\* The UE.
LEMMA UeType ==
    ASSUME TypeOK, UeRecvReconfiguration \/ UeRecvRrcConnectionSwitch
                   \/ RandomAccessSuccessful \/ RandomAccessFailed
    PROVE  TypeOK'
  <1> USE DEF TypeOK, coordinator, contexts, terminal, air
  <1>1. CASE UeRecvReconfiguration
    <2>1. PICK m \in rrcDown : UeRecvReconfiguration!(m)
      BY <1>1 DEF UeRecvReconfiguration
    <2>2. CASE \E why : Stop(why)
      BY <2>2, StopType
    <2>3. CASE ue.state = "CONNECTED_NORMALLY"
      <3>1. m.target \in Cells /\ m.newRnti \in Rntis
        BY DEF MessagesType
      <3> QED
        BY <2>1, <2>3, <3>1 DEF CoordinatorType, ContextsType, JoinersKnowSource,
                                TerminalType, MessagesType
    <2> QED
      BY <2>1, <2>2, <2>3
  <1>2. CASE UeRecvRrcConnectionSwitch
    BY <1>2 DEF UeRecvRrcConnectionSwitch, CoordinatorType, ContextsType,
                JoinersKnowSource, TerminalType, MessagesType
  <1>3. CASE RandomAccessSuccessful
    <2>1. TerminalType'
      BY <1>3 DEF RandomAccessSuccessful, TerminalType
    <2>2. MessagesType'
      BY <1>3 DEF RandomAccessSuccessful, TerminalType, MessagesType
    <2> QED
      BY <1>3, <2>1, <2>2 DEF RandomAccessSuccessful, CoordinatorType, ContextsType,
                              JoinersKnowSource
  <1>4. CASE RandomAccessFailed
    BY <1>4 DEF RandomAccessFailed, CoordinatorType, ContextsType,
                JoinersKnowSource, TerminalType, MessagesType
  <1> QED
    BY <1>1, <1>2, <1>3, <1>4

\* The variables always have their types, for every choice of the constants:
\* whatever the RIC, the control file and the radio do.
THEOREM TypeCorrect == Spec => []TypeOK
  <1>1. Init => TypeOK
    BY InitType
  <1>2. TypeOK /\ [Next]_vars => TypeOK'
    <2> SUFFICES ASSUME TypeOK, [Next]_vars PROVE TypeOK'
      OBVIOUS
    <2>1. CASE Next
      <3>1. CASE Decide \/ PerformHandover \/ ReadControlFile
        BY <3>1, DecideType
      <3>2. CASE \E c, a \in Cells : RecvFromLte(c) \/ RecvFromCell(a, c) \/ RecvAtLte(c)
        BY <3>2, RecvType
      <3>3. CASE RecvReconfigurationCompleted
        BY <3>3, CompletedType
      <3>4. CASE PerformE2RCHO \/ \E c \in Cells : ControlMessageReceived(c)
        BY <3>4, RicType
      <3>5. CASE Expire
        BY <3>5, ExpireType
      <3>6. CASE UeRecvReconfiguration \/ UeRecvRrcConnectionSwitch
                 \/ RandomAccessSuccessful \/ RandomAccessFailed
        BY <3>6, UeType
      <3> QED
        BY <2>1, <3>1, <3>2, <3>3, <3>4, <3>5, <3>6, Zenon DEF Next, Control, Deliver
    <2>2. CASE UNCHANGED vars
      BY <2>2 DEF vars, coordinator, contexts, terminal, air, TypeOK, CoordinatorType,
                  ContextsType, JoinersKnowSource, TerminalType, MessagesType
    <2> QED
      BY <2>1, <2>2
  <1> QED
    BY <1>1, <1>2, PTL DEF Spec

-----------------------------------------------------------------------------
(***************************************************************************)
(* The handover token.  HandoverToken is inductive relative to TypeOK when *)
(* no RIC Control request can start a second handover.  Most steps leave   *)
(* the token where it is: what they do to the links adds no handover       *)
(* message (LinksKeepToken), and no context starts to wait for the UE      *)
(* (NoNewJoiner).                                                          *)
(***************************************************************************)
LinksKeepToken ==
    /\ NoHandover(x2) => NoHandover(x2')
    /\ AtMostOneHandover(x2) => AtMostOneHandover(x2')
    /\ HandoversGoTo(x2, asked) => HandoversGoTo(x2', asked)

NoNewJoiner ==
    \A c \in Cells, r \in Rntis :
        ueMan'[c][r].state = "HANDOVER_JOINING" =>
            /\ ueMan[c][r].state = "HANDOVER_JOINING"
            /\ ueMan'[c][r].queued = ueMan[c][r].queued

\* A step that neither moves the token nor changes what the coordinator
\* believes about the handover.
LEMMA TokenStays ==
    ASSUME HandoverToken, LinksKeepToken, NoNewJoiner, UNCHANGED <<setup, asked>>
    PROVE  HandoverToken'
  BY DEF HandoverToken, LinksKeepToken, NoNewJoiner

\* The ways in which such a step changes the links.
LEMMA LinksKept ==
    ASSUME TypeOK,
           \/ x2' = x2
           \/ \E a, b : /\ <<a, b>> \in Links /\ x2[<<a, b>>] # <<>>
                        /\ x2' = Taken(x2, a, b)
           \/ \E a, b : \E m \in Messages : /\ m.type \notin HandoverTypes
                                            /\ x2' = Sent(x2, a, b, m)
           \/ \E a, b, c, d : \E m \in Messages :
                  /\ <<a, b>> \in Links /\ x2[<<a, b>>] # <<>>
                  /\ m.type \notin HandoverTypes
                  /\ x2' = Sent(Taken(x2, a, b), c, d, m)
    PROVE  LinksKeepToken
  <1>0. x2 \in Networks
    BY DEF TypeOK, MessagesType
  <1>1. CASE x2' = x2
    BY <1>1 DEF LinksKeepToken
  <1>2. ASSUME NEW a, NEW b, <<a, b>> \in Links, x2[<<a, b>>] # <<>>,
               x2' = Taken(x2, a, b)
        PROVE  LinksKeepToken
    BY <1>0, <1>2, TakenKeeps DEF LinksKeepToken
  <1>3. ASSUME NEW a, NEW b, NEW m \in Messages, m.type \notin HandoverTypes,
               x2' = Sent(x2, a, b, m)
        PROVE  LinksKeepToken
    BY <1>0, <1>3, SentOther DEF LinksKeepToken
  <1>4. ASSUME NEW a, NEW b, NEW c, NEW d, NEW m \in Messages,
               <<a, b>> \in Links, x2[<<a, b>>] # <<>>, m.type \notin HandoverTypes,
               x2' = Sent(Taken(x2, a, b), c, d, m)
        PROVE  LinksKeepToken
    <2>1. Taken(x2, a, b) \in Networks
      BY <1>0, <1>4, TakenType
    <2> QED
      BY <1>0, <1>4, <2>1, TakenKeeps, SentOther DEF LinksKeepToken
  <1> QED
    BY <1>1, <1>2, <1>3, <1>4

\* The coordinator asks for a handover: the token appears as the request.
LEMMA TokenRequested ==
    ASSUME TypeOK, HandoverToken, setup, NEW target \in Cells, RequestHandover(target),
           ueMan' = ueMan
    PROVE  HandoverToken'
  <1>1. x2 \in Networks /\ McHandoverRequest(target) \in Messages
    BY DEF TypeOK, MessagesType, Messages
  <1>2. NoHandover(x2)
    BY DEF HandoverToken
  <1>3. MovesTo(<<LteCell, last>>, McHandoverRequest(target)) = target
    BY DEF MovesTo, McHandoverRequest
  <1>4. AtMostOneHandover(x2') /\ HandoversGoTo(x2', target)
    BY <1>1, <1>2, <1>3, SentHandover DEF RequestHandover
  <1> QED
    BY <1>4 DEF HandoverToken, RequestHandover

\* The serving cell passes the token on to the target.
LEMMA TokenPrepared ==
    ASSUME TypeOK, HandoverToken, NEW c \in Cells, RecvMcHandoverRequest(c)
    PROVE  HandoverToken'
  <1> DEFINE target == Head(x2[<<LteCell, c>>]).target
             net == Taken(x2, LteCell, c)
             r == rntiOf[c]
  <1>0. x2 \in Networks /\ ueMan \in UeManagers /\ UNCHANGED <<setup, asked>>
    BY DEF TypeOK, MessagesType, ContextsType, RecvMcHandoverRequest, coordinator
  <1>1. /\ <<LteCell, c>> \in Links /\ x2[<<LteCell, c>>] # <<>>
        /\ x2[<<LteCell, c>>] \in Seq(Messages)
        /\ Head(x2[<<LteCell, c>>]).type = "McHandoverRequest"
        /\ target \in Cells
    BY <1>0, ArrivesType, MessageTypes DEF RecvMcHandoverRequest
  <1>2. net \in Networks /\ NoHandover(net)
    BY <1>0, <1>1, TakenType, TakenHandover DEF HandoverToken, HandoverTypes
  <1>3. target = asked /\ ~NoHandover(x2)
    <2>1. 1 \in 1 .. Len(x2[<<LteCell, c>>]) /\
          Head(x2[<<LteCell, c>>]) = x2[<<LteCell, c>>][1]
      BY <1>1
    <2>2. MovesTo(<<LteCell, c>>, Head(x2[<<LteCell, c>>])) = target
      BY <1>1 DEF MovesTo
    <2> QED
      BY <1>1, <2>1, <2>2 DEF HandoverToken, HandoversGoTo, NoHandover, HandoverTypes
  <1>4. ~setup /\ \A d \in Cells, s \in Rntis : ueMan[d][s].state # "HANDOVER_JOINING"
    BY <1>3 DEF HandoverToken
  <1>5. CASE UNCHANGED <<ueMan, x2>>
    BY <1>0, <1>5 DEF HandoverToken
  <1>6. CASE /\ Known(c, r)
             /\ ueMan' = [ueMan EXCEPT ![c][r] =
                    [@ EXCEPT !.state = "HANDOVER_PREPARATION",
                              !.target = target, !.rlcRequests = {}]]
             /\ x2' = Sent(net, c, target, HandoverRequest(r, ueMan[c][r].rlcRequests))
    <2>1. r \in Rntis /\ ueMan[c][r] \in Contexts
      BY <1>0, <1>6, ContextType DEF Known, TypeOK, ContextsType
    <2>2. HandoverRequest(r, ueMan[c][r].rlcRequests) \in Messages
      BY <2>1 DEF Messages, Contexts
    <2>3. MovesTo(<<c, target>>, HandoverRequest(r, ueMan[c][r].rlcRequests)) = target
      BY DEF MovesTo, HandoverRequest
    <2>4. AtMostOneHandover(x2') /\ HandoversGoTo(x2', target)
      BY <1>2, <1>6, <2>2, <2>3, SentHandover
    <2>5. \A d \in Cells, s \in Rntis : ueMan'[d][s].state # "HANDOVER_JOINING"
      BY <1>0, <1>4, <1>6, <2>1 DEF UeManagers, Contexts
    <2> QED
      BY <1>0, <1>3, <1>4, <2>4, <2>5 DEF HandoverToken
  <1>7. CASE Known(c, r) /\ ueMan[c][r].state = "HANDOVER_JOINING"
    <2>1. r \in Rntis
      BY <1>7 DEF Known, TypeOK, ContextsType
    <2> QED
      BY <1>4, <1>7, <2>1
  <1> QED
    BY <1>5, <1>6, <1>7
    DEF RecvMcHandoverRequest, SendHandoverRequest, PrepareHandover

\* The target takes the token off the links: a context waits for the UE.
LEMMA TokenAdmitted ==
    ASSUME TypeOK, HandoverToken, NEW a \in Cells, NEW c \in Cells,
           RecvHandoverRequest(a, c)
    PROVE  HandoverToken'
  <1> DEFINE m == Head(x2[<<a, c>>])
             net == Taken(x2, a, c)
  <1>0. x2 \in Networks /\ ueMan \in UeManagers /\ UNCHANGED <<setup, asked>>
    BY DEF TypeOK, MessagesType, ContextsType, RecvHandoverRequest, coordinator
  <1>1. /\ <<a, c>> \in Links /\ x2[<<a, c>>] # <<>>
        /\ x2[<<a, c>>] \in Seq(Messages)
        /\ m.type = "HandoverRequest" /\ m.oldId \in Rntis
    <2>1. Arrives(x2, a, c, "HandoverRequest")
      BY DEF RecvHandoverRequest
    <2> QED
      BY <1>0, <2>1, ArrivesType, MessageTypes
  <1>2. net \in Networks /\ NoHandover(net)
    BY <1>0, <1>1, TakenType, TakenHandover DEF HandoverToken, HandoverTypes
  <1>3. c = asked /\ ~NoHandover(x2)
    <2>1. 1 \in 1 .. Len(x2[<<a, c>>]) /\ Head(x2[<<a, c>>]) = x2[<<a, c>>][1]
      BY <1>1
    <2>2. MovesTo(<<a, c>>, Head(x2[<<a, c>>])) = c
      BY <1>1 DEF MovesTo
    <2> QED
      BY <1>1, <2>1, <2>2 DEF HandoverToken, HandoversGoTo, NoHandover, HandoverTypes
  <1>4. ~setup /\ \A d \in Cells, s \in Rntis : ueMan[d][s].state # "HANDOVER_JOINING"
    BY <1>3 DEF HandoverToken
  <1>5. CASE ueMan' = ueMan /\ x2' = x2
    BY <1>0, <1>5 DEF HandoverToken
  <1>6. CASE /\ ueMan' = ueMan
             /\ x2' = Sent(net, c, a, HandoverPreparationFailure(m.oldId))
    <2>1. /\ HandoverPreparationFailure(m.oldId) \in Messages
          /\ HandoverPreparationFailure(m.oldId).type \notin HandoverTypes
      BY <1>1, OtherMessages
    <2>2. LinksKeepToken
      BY <1>1, <1>6, <2>1, LinksKept
    <2>3. NoNewJoiner
      BY <1>6 DEF NoNewJoiner
    <2> QED
      BY <1>0, <2>2, <2>3, TokenStays
  <1>7. ASSUME NEW r \in Rntis,
               ueMan' = [ueMan EXCEPT ![c][r] = JoiningContext(a, m)],
               x2' = Sent(net, c, a, HandoverRequestAck(m.oldId, r))
        PROVE  HandoverToken'
    <2>1. /\ HandoverRequestAck(m.oldId, r) \in Messages
          /\ HandoverRequestAck(m.oldId, r).type \notin HandoverTypes
      BY <1>1, <1>7, OtherMessages
    <2>2. NoHandover(x2')
      BY <1>2, <1>7, <2>1, SentOther
    <2>3. AtMostOneHandover(x2') /\ HandoversGoTo(x2', asked)
      BY <2>2 DEF NoHandover, AtMostOneHandover, HandoversGoTo
    <2>4. ueMan'[c][r] = JoiningContext(a, m)
      BY <1>0, <1>7 DEF UeManagers
    <2>5. \A d \in Cells, s \in Rntis :
            <<d, s>> # <<c, r>> => ueMan'[d][s].state # "HANDOVER_JOINING"
      BY <1>0, <1>4, <1>7 DEF UeManagers
    <2> QED
      BY <1>0, <1>3, <1>4, <2>2, <2>3, <2>4, <2>5 DEF HandoverToken, JoiningContext
  <1> QED
    BY <1>5, <1>6, <1>7 DEF RecvHandoverRequest, contexts

\* The UE arrives: the token goes back on the links, to the coordinator.
LEMMA TokenCompleted ==
    ASSUME TypeOK, HandoverToken, RecvReconfigurationCompleted
    PROVE  HandoverToken'
  <1>0. x2 \in Networks /\ ueMan \in UeManagers
    BY DEF TypeOK, MessagesType, ContextsType
  <1>1. PICK m \in rrcUp : RecvReconfigurationCompleted!(m)
    BY DEF RecvReconfigurationCompleted
  <1> DEFINE c == m.cell
             r == m.rnti
             context == ueMan[c][r]
             msg == SecondaryCellHandoverCompleted(context.sourceId, r)
  <1>2. c \in Cells /\ r \in Rntis /\ UNCHANGED <<setup, asked>>
    BY <1>1 DEF TypeOK, MessagesType, coordinator
  <1>3. CASE context.state = "HANDOVER_JOINING"
    <2>1. /\ c = asked /\ ~setup /\ NoHandover(x2) /\ context.queued = NoCell
          /\ \A s \in Rntis : ueMan[c][s].state = "HANDOVER_JOINING" => s = r
          /\ \A d \in Cells, s \in Rntis :
                ueMan[d][s].state = "HANDOVER_JOINING" => d = c
      BY <1>2, <1>3 DEF HandoverToken
    <2>2. /\ ueMan' = [ueMan EXCEPT ![c][r] = [@ EXCEPT !.state = "CONNECTED_NORMALLY"]]
          /\ x2' = Sent(x2, c, LteCell, msg)
      BY <1>1, <1>3, <2>1
    <2>3. msg \in Messages
      <3>1. context \in Contexts /\ context.sourceId # NoRnti
        BY <1>0, <1>2, <1>3, ContextType DEF TypeOK, ContextsType, JoinersKnowSource
      <3> QED
        BY <1>2, <3>1 DEF Messages, Contexts
    <2>4. MovesTo(<<c, LteCell>>, msg) = c
      BY DEF MovesTo, SecondaryCellHandoverCompleted
    <2>5. AtMostOneHandover(x2') /\ HandoversGoTo(x2', asked)
      BY <1>0, <2>1, <2>2, <2>3, <2>4, SentHandover
    <2>6. ueMan'[c][r].state # "HANDOVER_JOINING"
      BY <1>0, <1>2, <2>2 DEF UeManagers, Contexts
    <2>7. ASSUME NEW d \in Cells, NEW s \in Rntis
          PROVE  ueMan'[d][s].state # "HANDOVER_JOINING"
      <3>1. <<d, s>> # <<c, r>> =>
                /\ ueMan'[d][s] = ueMan[d][s]
                /\ ueMan[d][s].state # "HANDOVER_JOINING"
        BY <1>0, <1>2, <2>1, <2>2 DEF UeManagers
      <3>2. <<d, s>> = <<c, r>> => ueMan'[d][s].state # "HANDOVER_JOINING"
        BY <2>6
      <3> QED
        BY <3>1, <3>2
    <2> QED
      BY <1>2, <2>1, <2>5, <2>7 DEF HandoverToken
  <1>4. CASE context.state # "HANDOVER_JOINING"
    <2>1. UNCHANGED <<ueMan, x2>>
      BY <1>1, <1>4
    <2> QED
      BY <1>2, <2>1 DEF HandoverToken
  <1> QED
    BY <1>3, <1>4

\* The coordinator takes the token back.
LEMMA TokenReturned ==
    ASSUME TypeOK, HandoverToken, NEW c \in Cells, RecvSecondaryCellHandoverCompleted(c)
    PROVE  /\ HandoverToken'
           /\ ~setup /\ c = asked /\ asked' = asked
  <1> DEFINE m == Head(x2[<<c, LteCell>>])
             net == Taken(x2, c, LteCell)
  <1>0. x2 \in Networks /\ ueMan' = ueMan /\ asked' = asked
    BY DEF TypeOK, MessagesType, RecvSecondaryCellHandoverCompleted, contexts
  <1>1. /\ <<c, LteCell>> \in Links /\ x2[<<c, LteCell>>] # <<>>
        /\ x2[<<c, LteCell>>] \in Seq(Messages)
        /\ m.type = "SecondaryCellHandoverCompleted" /\ m.oldId \in Rntis
    BY <1>0, ArrivesType, MessageTypes DEF RecvSecondaryCellHandoverCompleted
  <1>2. net \in Networks /\ NoHandover(net)
    BY <1>0, <1>1, TakenType, TakenHandover DEF HandoverToken, HandoverTypes
  <1>3. c = asked /\ ~NoHandover(x2)
    <2>1. 1 \in 1 .. Len(x2[<<c, LteCell>>])
          /\ Head(x2[<<c, LteCell>>]) = x2[<<c, LteCell>>][1]
      BY <1>1
    <2>2. MovesTo(<<c, LteCell>>, Head(x2[<<c, LteCell>>])) = c
      BY <1>1 DEF MovesTo
    <2> QED
      BY <1>1, <2>1, <2>2 DEF HandoverToken, HandoversGoTo, NoHandover, HandoverTypes
  <1>4. ~setup /\ \A d \in Cells, s \in Rntis : ueMan[d][s].state # "HANDOVER_JOINING"
    BY <1>3 DEF HandoverToken
  <1>5. /\ UeContextRelease(m.oldId) \in Messages
        /\ UeContextRelease(m.oldId).type \notin HandoverTypes
    BY <1>1, OtherMessages
  <1>6. NoHandover(x2')
    BY <1>2, <1>5, SentOther DEF RecvSecondaryCellHandoverCompleted
  <1>7. AtMostOneHandover(x2') /\ HandoversGoTo(x2', asked')
    BY <1>6 DEF NoHandover, AtMostOneHandover, HandoversGoTo
  <1> QED
    BY <1>0, <1>3, <1>4, <1>6, <1>7 DEF HandoverToken

\* A step that leaves the contexts and the token alone.
LEMMA TokenUntouched ==
    ASSUME HandoverToken, UNCHANGED <<x2, ueMan, setup, asked>>
    PROVE  HandoverToken'
  BY DEF HandoverToken

\* The coordinator's own actions.
LEMMA TokenDecided ==
    ASSUME TypeOK, HandoverToken, Decide \/ PerformHandover \/ ReadControlFile
    PROVE  HandoverToken'
  <1> USE DEF coordinator, contexts, air
  <1>0. TypeOK /\ CoordinatorType /\ mmRnti \in Rntis
    BY DEF TypeOK, CoordinatorType
  <1>1. ASSUME NEW useMmWave \in BOOLEAN, SendRrcConnectionSwitch(useMmWave),
               UNCHANGED <<setup, asked, ueMan>>
        PROVE  HandoverToken'
    <2>1. SwitchConnection(mmRnti) \in Messages
          /\ SwitchConnection(mmRnti).type \notin HandoverTypes
      BY <1>0, OtherMessages
    <2>2. x2' = x2 \/ x2' = Sent(x2, LteCell, mmCell, SwitchConnection(mmRnti))
      BY <1>1 DEF SendRrcConnectionSwitch
    <2>3. LinksKeepToken
      BY <2>1, <2>2, LinksKept
    <2>4. NoNewJoiner
      BY <1>1 DEF NoNewJoiner
    <2> QED
      BY <1>1, <2>3, <2>4, TokenStays
  <1>2. CASE SwitchToLte
    BY <1>1, <1>2 DEF SwitchToLte, CancelHandoverEvent
  <1>3. CASE SwitchBackToMmWave
    BY <1>1, <1>3 DEF SwitchBackToMmWave
  <1>4. CASE HandoverFromLte
    BY <1>4, TokenRequested DEF HandoverFromLte
  <1>5. CASE ThresholdHandover
    BY <1>5, TokenRequested DEF ThresholdHandover
  <1>6. CASE TttBasedHandover
    BY <1>6, TokenUntouched DEF TttBasedHandover, CancelHandoverEvent
  <1>7. CASE PerformHandover
    <2>1. hoEvent.target \in Cells
      BY <1>0, <1>7 DEF PerformHandover, CoordinatorType
    <2>2. \/ setup /\ RequestHandover(hoEvent.target) /\ ueMan' = ueMan
          \/ UNCHANGED <<x2, ueMan, setup, asked>>
      BY <1>7 DEF PerformHandover, Stop
    <2> QED
      BY <2>1, <2>2, TokenRequested, TokenUntouched
  <1>8. CASE ReadControlFile
    <2>1. \/ \E target \in Cells : setup /\ RequestHandover(target) /\ ueMan' = ueMan
          \/ UNCHANGED <<x2, ueMan, setup, asked>>
      BY <1>8 DEF ReadControlFile
    <2> QED
      BY <2>1, TokenRequested, TokenUntouched
  <1> QED
    BY <1>2, <1>3, <1>4, <1>5, <1>6, <1>7, <1>8 DEF Decide

\* The messages of a mmWave cell that only tidy up after the UE.
LEMMA TokenIgnored ==
    ASSUME TypeOK, HandoverToken, NEW c \in Cells, NEW a \in Cells,
           \/ RecvUeContextRelease(c) \/ RecvConnectionSwitchToMmWave(c)
           \/ RecvHandoverRequestAck(a, c) \/ RecvHandoverPreparationFailure(a, c)
           \/ RecvHandoverFailed(c)
    PROVE  HandoverToken'
  <1> USE DEF coordinator, contexts, air
  <1>0. x2 \in Networks /\ ueMan \in UeManagers
    BY DEF TypeOK, MessagesType, ContextsType
  <1>1. CASE UNCHANGED <<x2, ueMan, setup, asked>>
    BY <1>1, TokenUntouched
  <1>2. ASSUME NEW b, NEW type, Arrives(x2, b, c, type), x2' = Taken(x2, b, c),
               NEW r \in Rntis, NEW x,
               x.state = "HANDOVER_JOINING" =>
                   /\ ueMan[c][r].state = "HANDOVER_JOINING"
                   /\ x.queued = ueMan[c][r].queued,
               ueMan' = [ueMan EXCEPT ![c][r] = x],
               UNCHANGED <<setup, asked>>
        PROVE  HandoverToken'
    <2>1. LinksKeepToken
      BY <1>0, <1>2, ArrivesType, LinksKept
    <2>2. NoNewJoiner
      BY <1>0, <1>2 DEF NoNewJoiner, UeManagers
    <2> QED
      BY <1>2, <2>1, <2>2, TokenStays
  <1>3. CASE RecvUeContextRelease(c)
    <2> DEFINE r == Head(x2[<<LteCell, c>>]).oldId
    <2>1. Arrives(x2, LteCell, c, "UeContextRelease")
      BY <1>3 DEF RecvUeContextRelease
    <2>2. r \in Rntis
      BY <1>0, <2>1, ArrivesType, MessageTypes
    <2>3. NoContext.state # "HANDOVER_JOINING"
      BY DEF NoContext
    <2>4. \/ UNCHANGED <<x2, ueMan, setup, asked>>
          \/ /\ x2' = Taken(x2, LteCell, c)
             /\ ueMan' = [ueMan EXCEPT ![c][r] = NoContext]
             /\ UNCHANGED <<setup, asked>>
      BY <1>3 DEF RecvUeContextRelease, Stop, RemoveUe, RemoveTeids
    <2> HIDE DEF r
    <2> QED
      BY <1>1, <1>2, <2>1, <2>2, <2>3, <2>4
  <1>4. CASE RecvConnectionSwitchToMmWave(c)
    <2> DEFINE r == Head(x2[<<LteCell, c>>]).rnti
               x == [ueMan[c][r] EXCEPT !.target = LteCell]
    <2>1. Arrives(x2, LteCell, c, "SwitchConnection")
      BY <1>4 DEF RecvConnectionSwitchToMmWave
    <2>2. r \in Rntis
      BY <1>0, <2>1, ArrivesType, MessageTypes
    <2>3. x.state = ueMan[c][r].state /\ x.queued = ueMan[c][r].queued
      BY <1>0, <2>2, ContextType DEF Contexts
    <2>4. \/ UNCHANGED <<x2, ueMan, setup, asked>>
          \/ /\ x2' = Taken(x2, LteCell, c)
             /\ ueMan' = [ueMan EXCEPT ![c][r] = x]
             /\ UNCHANGED <<setup, asked>>
      BY <1>4 DEF RecvConnectionSwitchToMmWave, Stop
    <2> HIDE DEF r, x
    <2> QED
      BY <1>1, <1>2, <2>1, <2>2, <2>3, <2>4
  <1>5. CASE RecvHandoverRequestAck(a, c)
    <2> DEFINE r == Head(x2[<<a, c>>]).oldId
               x == [ueMan[c][r] EXCEPT !.state = "HANDOVER_LEAVING"]
    <2>1. Arrives(x2, a, c, "HandoverRequestAck")
      BY <1>5 DEF RecvHandoverRequestAck
    <2>2. r \in Rntis
      BY <1>0, <2>1, ArrivesType, MessageTypes
    <2>3. x.state # "HANDOVER_JOINING"
      BY <1>0, <2>2, ContextType DEF Contexts
    <2>4. \/ UNCHANGED <<x2, ueMan, setup, asked>>
          \/ /\ x2' = Taken(x2, a, c)
             /\ ueMan' = [ueMan EXCEPT ![c][r] = x]
             /\ UNCHANGED <<setup, asked>>
      BY <1>5 DEF RecvHandoverRequestAck, StartLeaving, Stop
    <2> HIDE DEF r, x
    <2> QED
      BY <1>1, <1>2, <2>1, <2>2, <2>3, <2>4
  <1>6. CASE RecvHandoverPreparationFailure(a, c)
    <2> DEFINE r == Head(x2[<<a, c>>]).oldId
               state == ueMan[c][r].state
               x == [ueMan[c][r] EXCEPT !.state =
                       IF state = "HANDOVER_PREPARATION"
                       THEN "CONNECTED_NORMALLY" ELSE state]
    <2>1. Arrives(x2, a, c, "HandoverPreparationFailure")
      BY <1>6 DEF RecvHandoverPreparationFailure
    <2>2. r \in Rntis
      BY <1>0, <2>1, ArrivesType, MessageTypes
    <2>3. /\ x.queued = ueMan[c][r].queued
          /\ x.state = "HANDOVER_JOINING" => state = "HANDOVER_JOINING"
      BY <1>0, <2>2, ContextType DEF Contexts
    <2>4. \/ UNCHANGED <<x2, ueMan, setup, asked>>
          \/ /\ x2' = Taken(x2, a, c)
             /\ ueMan' = [ueMan EXCEPT ![c][r] = x]
             /\ UNCHANGED <<setup, asked>>
      BY <1>6 DEF RecvHandoverPreparationFailure, Stop
    <2> HIDE DEF r, x
    <2> QED
      BY <1>1, <1>2, <2>1, <2>2, <2>3, <2>4
  <1>7. CASE RecvHandoverFailed(c)
    BY <1>1, <1>7 DEF RecvHandoverFailed, Stop
  <1> QED
    BY <1>3, <1>4, <1>5, <1>6, <1>7

\* Timers and the UE.
LEMMA TokenElsewhere ==
    ASSUME TypeOK, HandoverToken,
           \/ Expire \/ UeRecvReconfiguration \/ UeRecvRrcConnectionSwitch
           \/ RandomAccessSuccessful \/ RandomAccessFailed
    PROVE  HandoverToken'
  <1> USE DEF coordinator, contexts, air
  <1>0. x2 \in Networks /\ ueMan \in UeManagers
    BY DEF TypeOK, MessagesType, ContextsType
  <1>1. CASE UNCHANGED <<x2, ueMan, setup, asked>>
    BY <1>1, TokenUntouched
  <1>2. CASE Expire
    <2>0. PICK c \in Cells, r \in Rntis :
            \/ HandoverJoiningTimeout(c, r)
            \/ HandoverLeavingTimeout(c, r)
            \/ ScheduledRemoveUe(c, r)
      BY <1>2 DEF Expire
    <2>1. CASE HandoverJoiningTimeout(c, r) /\ ueMan[c][r].state = "HANDOVER_JOINING"
      <3>1. LinksKeepToken
        BY <2>1, OtherMessages, LinksKept DEF HandoverJoiningTimeout
      <3>2. NoNewJoiner /\ UNCHANGED <<setup, asked>>
        BY <2>1 DEF NoNewJoiner, HandoverJoiningTimeout
      <3> QED
        BY <3>1, <3>2, TokenStays
    <2>2. CASE /\ ueMan' = [ueMan EXCEPT ![c][r] = NoContext]
               /\ UNCHANGED <<x2, setup, asked>>
      <3>1. LinksKeepToken
        BY <2>2, LinksKept
      <3>2. NoNewJoiner
        BY <1>0, <2>2 DEF NoNewJoiner, UeManagers, NoContext
      <3> QED
        BY <2>2, <3>1, <3>2, TokenStays
    <2>3. CASE \E why : Stop(why)
      BY <1>1, <2>3 DEF Stop
    <2> QED
      BY <1>1, <2>0, <2>1, <2>2, <2>3 DEF HandoverJoiningTimeout, HandoverLeavingTimeout, ScheduledRemoveUe,
                                    RemoveUe, Stop
  <1> QED
    BY <1>1, <1>2 DEF UeRecvReconfiguration, UeRecvRrcConnectionSwitch, Stop,
                      RandomAccessSuccessful, RandomAccessFailed

\* Every step is accounted for.
LEMMA TokenStep ==
    ASSUME ~RicControl, TypeOK, HandoverToken, e2Event = NoEvent, [Next]_vars
    PROVE  HandoverToken' /\ e2Event' = NoEvent
  <1>1. CASE UNCHANGED vars
    BY <1>1, TokenUntouched DEF vars, coordinator, contexts
  <1>2. CASE Next
    <2>1. CASE Decide \/ PerformHandover \/ ReadControlFile
      <3>1. e2Event' = e2Event
        BY <2>1 DEF Decide, SwitchToLte, SwitchBackToMmWave, HandoverFromLte,
                    ThresholdHandover, TttBasedHandover, PerformHandover,
                    ReadControlFile, Stop
      <3> QED
        BY <2>1, <3>1, TokenDecided
    <2>2. CASE \E c, a \in Cells : RecvFromLte(c) \/ RecvFromCell(a, c) \/ RecvAtLte(c)
      <3>1. PICK c \in Cells, a \in Cells :
                RecvFromLte(c) \/ RecvFromCell(a, c) \/ RecvAtLte(c)
        BY <2>2
      <3>2. e2Event' = e2Event
        BY <3>1 DEF RecvFromLte, RecvFromCell, RecvAtLte, RecvMcHandoverRequest,
                    RecvUeContextRelease, RecvConnectionSwitchToMmWave,
                    RecvHandoverRequest, RecvHandoverRequestAck,
                    RecvHandoverPreparationFailure,
                    RecvSecondaryCellHandoverCompleted, RecvHandoverFailed, Stop
      <3>3. CASE RecvMcHandoverRequest(c)
        BY <3>2, <3>3, TokenPrepared
      <3>4. CASE RecvHandoverRequest(a, c)
        BY <3>2, <3>4, TokenAdmitted
      <3>5. CASE RecvSecondaryCellHandoverCompleted(c)
        BY <3>2, <3>5, TokenReturned
      <3>6. CASE \/ RecvUeContextRelease(c) \/ RecvConnectionSwitchToMmWave(c)
                 \/ RecvHandoverRequestAck(a, c) \/ RecvHandoverPreparationFailure(a, c)
                 \/ RecvHandoverFailed(c)
        BY <3>2, <3>6, TokenIgnored
      <3> QED
        BY <3>1, <3>3, <3>4, <3>5, <3>6 DEF RecvFromLte, RecvFromCell, RecvAtLte
    <2>3. CASE RecvReconfigurationCompleted
      <3>1. e2Event' = e2Event
        BY <2>3 DEF RecvReconfigurationCompleted
      <3> QED
        BY <2>3, <3>1, TokenCompleted
    <2>4. CASE PerformE2RCHO \/ \E c \in Cells : ControlMessageReceived(c)
      BY <2>4 DEF PerformE2RCHO, ControlMessageReceived
    <2>5. CASE \/ Expire \/ UeRecvReconfiguration \/ UeRecvRrcConnectionSwitch
               \/ RandomAccessSuccessful \/ RandomAccessFailed
      <3>1. e2Event' = e2Event
        BY <2>5 DEF Expire, HandoverJoiningTimeout, HandoverLeavingTimeout,
                    ScheduledRemoveUe, UeRecvReconfiguration, Stop,
                    UeRecvRrcConnectionSwitch, RandomAccessSuccessful,
                    RandomAccessFailed
      <3> QED
        BY <2>5, <3>1, TokenElsewhere
    <2> QED
      BY <1>2, <2>1, <2>2, <2>3, <2>4, <2>5, Zenon DEF Next, Control, Deliver
  <1> QED
    BY <1>1, <1>2

\* At the start there is one token and no event.
LEMMA TokenInit == Init => HandoverToken /\ e2Event = NoEvent
  <1> SUFFICES ASSUME Init PROVE HandoverToken /\ e2Event = NoEvent
    OBVIOUS
  <1>1. \A l \in Links : x2[l] = <<>>
    BY DEF Init, NoTraffic
  <1>2. NoHandover(x2) /\ AtMostOneHandover(x2) /\ HandoversGoTo(x2, asked)
    BY <1>1 DEF NoHandover, AtMostOneHandover, HandoversGoTo
  <1>3. \A c \in Cells, r \in Rntis : ueMan[c][r].state # "HANDOVER_JOINING"
    BY DEF Init, NoContext
  <1> QED
    BY <1>2, <1>3 DEF Init, HandoverToken

\* Without RIC Control requests there is at most one handover under way, it
\* is under way only while the coordinator knows of it, and it leads to the
\* cell that the coordinator asked for; whatever the control file and the
\* radio do.
THEOREM OneHandoverAtATime ==
    ASSUME ~RicControl
    PROVE  Spec => []HandoverToken
  <1> DEFINE IInv == TypeOK /\ HandoverToken /\ e2Event = NoEvent
  <1>1. Init => IInv
    BY InitType, TokenInit
  <1>2. TypeOK /\ IInv /\ [Next]_vars => (HandoverToken /\ e2Event = NoEvent)'
    BY TokenStep
  <1>3. Spec => []TypeOK
    BY TypeCorrect
  <1> QED
    BY <1>1, <1>2, <1>3, PTL DEF Spec

-----------------------------------------------------------------------------
(***************************************************************************)
(* What the coordinator does, seen on its own: only its decisions and the  *)
(* end of a handover change its state.                                     *)
(***************************************************************************)
LEMMA CoordinatorFrame ==
    ASSUME [Next]_vars
    PROVE  \/ Decide \/ PerformHandover \/ ReadControlFile
           \/ \E c \in Cells : RecvSecondaryCellHandoverCompleted(c)
           \/ UNCHANGED coordinator
  <1> USE DEF Stop
  <1>1. CASE Deliver
    <2>1. ASSUME NEW c \in Cells, RecvFromLte(c) PROVE UNCHANGED coordinator
      BY <2>1 DEF RecvFromLte, RecvMcHandoverRequest, RecvUeContextRelease,
                  RecvConnectionSwitchToMmWave
    <2>2. ASSUME NEW s \in Cells, NEW c \in Cells, RecvFromCell(s, c)
          PROVE  UNCHANGED coordinator
      BY <2>2 DEF RecvFromCell, RecvHandoverRequest, RecvHandoverRequestAck,
                  RecvHandoverPreparationFailure
    <2>3. ASSUME NEW c \in Cells, RecvHandoverFailed(c) PROVE UNCHANGED coordinator
      BY <2>3 DEF RecvHandoverFailed
    <2>4. CASE RecvReconfigurationCompleted \/ UeRecvReconfiguration
               \/ UeRecvRrcConnectionSwitch
      BY <2>4 DEF RecvReconfigurationCompleted, UeRecvReconfiguration,
                  UeRecvRrcConnectionSwitch
    <2> QED
      BY <1>1, <2>1, <2>2, <2>3, <2>4 DEF Deliver, RecvAtLte
  <1>2. CASE Control
    BY <1>2 DEF Control, ControlMessageReceived
  <1>3. CASE PerformE2RCHO \/ RandomAccessSuccessful \/ RandomAccessFailed
    BY <1>3 DEF PerformE2RCHO, RandomAccessSuccessful, RandomAccessFailed
  <1>4. CASE Expire
    BY <1>4 DEF Expire, HandoverJoiningTimeout, HandoverLeavingTimeout, ScheduledRemoveUe
  <1>5. CASE UNCHANGED vars
    BY <1>5 DEF vars
  <1> QED
    BY <1>1, <1>2, <1>3, <1>4, <1>5 DEF Next

(***************************************************************************)
(* With neither RIC Control requests nor a control file: a scheduled event *)
(* fits the serving cell, only time-to-trigger handovers are scheduled,    *)
(* and a handover leads away from the serving cell.                        *)
(***************************************************************************)
Undisturbed ==
    /\ EventFitsServingCell
    /\ Mode # "Ttt" => hoEvent = NoEvent
    /\ ~setup => asked # last

\* At the start nothing is disturbed.
LEMMA UndisturbedInit == Init => Undisturbed
  BY DEF Init, Undisturbed, EventFitsServingCell

\* Every step of an undisturbed system keeps it so.
LEMMA UndisturbedStep ==
    ASSUME ~FileControl, TypeOK, HandoverToken, Undisturbed, [Next]_vars
    PROVE  Undisturbed'
  <1> USE DEF coordinator, Undisturbed, EventFitsServingCell
  <1>0. CoordinatorType /\ HandoverAssumption
    BY HandoverAssumption DEF TypeOK
  <1>1. CASE SwitchToLte
    BY <1>1 DEF SwitchToLte, CancelHandoverEvent
  <1>2. CASE SwitchBackToMmWave
    BY <1>2 DEF SwitchBackToMmWave, SendRrcConnectionSwitch
  <1>3. CASE HandoverFromLte
    BY <1>3 DEF HandoverFromLte, RequestHandover
  <1>4. CASE ThresholdHandover
    BY <1>4 DEF ThresholdHandover, RequestHandover
  <1>5. CASE TttBasedHandover
    BY <1>5 DEF TttBasedHandover, CancelHandoverEvent
  <1>6. CASE PerformHandover
    BY <1>6 DEF PerformHandover, RequestHandover, Stop
  <1>7. ASSUME NEW c \in Cells, RecvSecondaryCellHandoverCompleted(c)
        PROVE  Undisturbed'
    <2>1. ~setup /\ c = asked /\ asked' = asked
      BY <1>7, TokenReturned
    <2> QED
      BY <1>7, <2>1 DEF RecvSecondaryCellHandoverCompleted
  <1>8. CASE UNCHANGED coordinator
    BY <1>8
  <1> QED
    BY <1>1, <1>2, <1>3, <1>4, <1>5, <1>6, <1>7, <1>8, CoordinatorFrame
    DEF Decide, ReadControlFile

\* A scheduled handover event always fits the cell that serves the UE: no
\* handover and no switch to LTE can overtake it.
THEOREM EventsFit ==
    ASSUME ~RicControl, ~FileControl
    PROVE  Spec => []EventFitsServingCell
  <1>1. Init => Undisturbed
    BY UndisturbedInit
  <1>2. TypeOK /\ HandoverToken /\ Undisturbed /\ [Next]_vars => Undisturbed'
    BY UndisturbedStep
  <1>3. Undisturbed => EventFitsServingCell
    BY DEF Undisturbed
  <1>4. Spec => []TypeOK
    BY TypeCorrect
  <1>5. Spec => []HandoverToken
    BY OneHandoverAtATime
  <1> QED
    BY <1>1, <1>2, <1>3, <1>4, <1>5, PTL DEF Spec

\* The coordinator implements the abstract secondary cell.
THEOREM Refinement ==
    ASSUME ~RicControl, ~FileControl
    PROVE  Spec => ImplementsSecondaryCell
  <1>1. Init => Abstract!Init
    BY DEF Init, Abstract!Init
  <1>2. ASSUME TypeOK, HandoverToken, Undisturbed, [Next]_vars
        PROVE  [Abstract!Next]_Abstract!vars
    <2> USE DEF coordinator, Abstract!vars, Abstract!Next
    <2>0. CoordinatorType
      BY <1>2 DEF TypeOK
    <2>1. CASE SwitchToLte
      BY <2>1 DEF SwitchToLte, CancelHandoverEvent, SendRrcConnectionSwitch, Abstract!FallBackToLte
    <2>2. CASE SwitchBackToMmWave
      BY <2>2 DEF SwitchBackToMmWave, SendRrcConnectionSwitch, Abstract!ReturnToMmWave
    <2>3. CASE HandoverFromLte
      BY <2>3 DEF HandoverFromLte, RequestHandover, Abstract!Start
    <2>4. CASE ThresholdHandover
      BY <2>4 DEF ThresholdHandover, RequestHandover, Abstract!Start
    <2>5. CASE TttBasedHandover
      BY <2>5 DEF TttBasedHandover, CancelHandoverEvent
    <2>6. CASE PerformHandover
      <3>1. \/ UNCHANGED <<last, setup, usingLte, asked>>
            \/ /\ setup /\ last # hoEvent.target
               /\ hoEvent.target \in Cells
               /\ RequestHandover(hoEvent.target)
               /\ UNCHANGED <<last, usingLte>>
        BY <2>0, <2>6 DEF PerformHandover, Stop, CoordinatorType
      <3> QED
        BY <3>1 DEF RequestHandover, Abstract!Start
    <2>7. ASSUME NEW c \in Cells, RecvSecondaryCellHandoverCompleted(c)
          PROVE  Abstract!Complete
      <3>1. ~setup /\ c = asked /\ asked' = asked
        BY <1>2, <2>7, TokenReturned
      <3>2. last # c
        BY <1>2, <3>1 DEF Undisturbed
      <3> QED
        BY <2>7, <3>1, <3>2 DEF RecvSecondaryCellHandoverCompleted, Abstract!Complete
    <2>8. CASE UNCHANGED coordinator
      BY <2>8
    <2> QED
      BY <1>2, <2>1, <2>2, <2>3, <2>4, <2>5, <2>6, <2>7, <2>8, CoordinatorFrame
      DEF Decide, ReadControlFile
  <1>3. Init => Undisturbed
    BY UndisturbedInit
  <1>4. TypeOK /\ HandoverToken /\ Undisturbed /\ [Next]_vars => Undisturbed'
    BY UndisturbedStep
  <1>5. Spec => []TypeOK
    BY TypeCorrect
  <1>6. Spec => []HandoverToken
    BY OneHandoverAtATime
  <1> QED
    BY <1>1, <1>2, <1>3, <1>4, <1>5, <1>6, PTL
    DEF Spec, ImplementsSecondaryCell, Abstract!Spec
=============================================================================
