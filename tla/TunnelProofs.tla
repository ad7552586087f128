---------------------------- MODULE TunnelProofs ----------------------------
(***************************************************************************)
(* Theorems about Tunnel: its safety invariants hold for any deadlines,    *)
(* paths and whitelists, however datagrams are lost, repeated or reordered.*)
(* TunnelInv says what every datagram in flight proves about its sender.   *)
(* Together two tunnels implement SecureLink.                              *)
(***************************************************************************)
EXTENDS Tunnel, TLAPS

\* What a datagram in flight shows: its sender has begun, an acknowledgement's
\* has a session, and one that came over the relay, that both were learned.
Good(f) ==
    /\ f.typ # "clear"
    /\ f.typ # "announce" => state[f.from] # "unknown"
    /\ f.typ = "helloAck" => session[f.from]
    /\ f.path = "up" => paths.relay
    /\ f.path = "down" => paths.relay /\ learned = Node

\* What is true of one client's peer.
PeerOK(n) ==
    /\ state[n] = "connected" =>
        /\ session[n]
        /\ IF relayed[n] THEN paths.relay /\ learned = Node ELSE remote[n]
    /\ session[n] => state[n] # "unknown" /\ state[Other(n)] # "unknown"

TunnelInv ==
    /\ TunnelTypeOK
    /\ \A f \in net : Good(f)
    /\ \A n \in Node : PeerOK(n)
    /\ KeptOut

\* The two clients are each other's peers.
LEMMA OtherFacts ==
    ASSUME NEW n \in Node
    PROVE  /\ Other(n) \in Node
           /\ Other(n) # n
           /\ Node = {n, Other(n)}
           /\ Other(Other(n)) = n
<1>1. PICK a, b \in Node : a # b /\ Node = {a, b}
  BY NodeAssumption
<1>2. \A m \in Node : Other(m) \in Node /\ Other(m) # m
  BY <1>1 DEF Other
<1> QED BY <1>1, <1>2

-----------------------------------------------------------------------------
(* Types                                                                   *)

\* Datagrams of the types and paths a client uses are frames.
LEMMA ReplyType ==
    ASSUME NEW n \in Node, NEW typ \in Type
    PROVE  Reply(n, typ) \subseteq Frame /\ ToRelay(n, typ) \subseteq Frame
BY DEF Reply, ToRelay, Frame, Path

\* The tunnels start with values of the right types.
LEMMA InitType == Init => TunnelTypeOK
BY BoundAssumption DEF Init, TunnelTypeOK, Paths, Frame

\* A frame that arrives sets its receiver's path and nothing else of a type.
LEMMA ArrivesType ==
    ASSUME TunnelTypeOK, NEW n \in Node, NEW f \in net, Arrives(n, f)
    PROVE  /\ relayed' \in [Node -> BOOLEAN]
           /\ remote' \in [Node -> BOOLEAN]
BY DEF TunnelTypeOK, Arrives

\* handleFrame keeps the types.
LEMMA HandleFrameType ==
    ASSUME TunnelTypeOK, NEW n \in Node, NEW f \in net, HandleFrame(n, f)
    PROVE  TunnelTypeOK'
<1>1. Arrives(n, f)
  BY DEF HandleFrame, HandleHello, HandleHelloAck, HandlePing, HandleOther
<1>2. relayed' \in [Node -> BOOLEAN] /\ remote' \in [Node -> BOOLEAN]
  BY <1>1, ArrivesType
<1>3. /\ Reply(n, "helloAck") \subseteq Frame
      /\ Reply(n, "ping") \subseteq Frame
      /\ Reply(n, "quiet") \subseteq Frame
  BY ReplyType DEF Type
<1>4. net' \subseteq Frame
  BY <1>3 DEF TunnelTypeOK, HandleFrame, HandleHello, HandleHelloAck, HandlePing,
              HandleOther, Answers, Reject
<1>5. state' \in [Node -> {"unknown", "connecting", "connected", "failed"}]
  BY DEF TunnelTypeOK, HandleFrame, HandleHello, HandleHelloAck, HandlePing,
         HandleOther, Connect, Reject
<1>6. session' \in [Node -> BOOLEAN]
  BY DEF TunnelTypeOK, HandleFrame, HandleHello, HandleHelloAck, HandlePing,
         HandleOther, Connect, Reject
<1> QED BY <1>1, <1>2, <1>4, <1>5, <1>6 DEF TunnelTypeOK, Arrives

\* The relay's copy of a frame is a frame, as it never copies announcements.
LEMMA RelayType ==
    ASSUME TunnelTypeOK, NEW f \in net, Relay(f)
    PROVE  TunnelTypeOK'
<1>1. f \in Frame
  BY DEF TunnelTypeOK
<1>2. f.from \in Node
  BY <1>1 DEF Frame, Announcement
<1>3. Forwards(f) => [f EXCEPT !.path = "down"] \in Frame
  BY <1>1 DEF Forwards, Frame, Announcement, Path
<1>4. net' \subseteq Frame
  BY <1>3 DEF Relay, TunnelTypeOK
<1> QED BY <1>2, <1>4 DEF Relay, TunnelTypeOK, peerVars

\* Each step keeps the types.
LEMMA NextType == TunnelTypeOK /\ [Next]_vars => TunnelTypeOK'
<1> SUFFICES ASSUME TunnelTypeOK, [Next]_vars PROVE TunnelTypeOK'
    OBVIOUS
<1>1. ASSUME NEW n \in Node, BeginConnect(n) PROVE TunnelTypeOK'
  BY <1>1 DEF BeginConnect, TunnelTypeOK, Paths
<1>2. ASSUME NEW n \in Node, PunchLook(n) PROVE TunnelTypeOK'
  <2>1. ToRelay(n, "hello") \subseteq Frame
    BY ReplyType DEF Type
  <2>2. [typ |-> "hello", from |-> n, path |-> "punch"] \in Frame
    BY DEF Frame, Type, Path
  <2>3. net' \subseteq Frame
    BY <1>2, <2>1, <2>2 DEF PunchLook, TunnelTypeOK
  <2> QED BY <1>2, <2>3 DEF PunchLook, TunnelTypeOK, peerVars
<1>3. ASSUME NEW n \in Node, PunchAgain(n) PROVE TunnelTypeOK'
  BY <1>3 DEF PunchAgain, TunnelTypeOK, peerVars
<1>4. ASSUME NEW n \in Node, DirectDeadline(n) PROVE TunnelTypeOK'
  BY <1>4 DEF DirectDeadline, TunnelTypeOK
<1>5. ASSUME NEW n \in Node, RelayDeadline(n) PROVE TunnelTypeOK'
  BY <1>5 DEF RelayDeadline, GivesUp, TunnelTypeOK
<1>6. ASSUME NEW n \in Node, SendData(n) PROVE TunnelTypeOK'
  <2>1. Reply(n, DataFrame(n)) \subseteq Frame
    BY ReplyType DEF DataFrame, Type
  <2> QED BY <1>6, <2>1 DEF SendData, TunnelTypeOK, peerVars
<1>7. ASSUME NEW n \in Node, SetFriends(n) PROVE TunnelTypeOK'
  BY <1>7, BoundAssumption DEF SetFriends, TunnelTypeOK, Paths, peerVars
<1>8. ASSUME NEW n \in Node, NEW f \in net, HandleFrame(n, f) PROVE TunnelTypeOK'
  BY <1>8, HandleFrameType
<1>9. ASSUME NEW f \in net, Relay(f) PROVE TunnelTypeOK'
  BY <1>9, RelayType
<1>10. ASSUME NEW f \in net, Lose(f) PROVE TunnelTypeOK'
  BY <1>10, BoundAssumption DEF Lose, TunnelTypeOK, Paths, peerVars
<1>11. CASE UNCHANGED vars
  BY <1>11 DEF vars, peerVars, TunnelTypeOK
<1> QED BY <1>1, <1>2, <1>3, <1>4, <1>5, <1>6, <1>7, <1>8, <1>9, <1>10, <1>11 DEF Next

\* Every variable keeps its type, and every datagram is a frame the code sends.
THEOREM TunnelTypeCorrect == Spec => []TunnelTypeOK
BY InitType, NextType, PTL DEF Spec

-----------------------------------------------------------------------------
(* What a step never takes back                                            *)

\* The relay setting stays; what began or has a session, or was learned, too.
Progress ==
    /\ paths' = paths
    /\ \A n \in Node : state[n] # "unknown" => state'[n] # "unknown"
    /\ \A n \in Node : session[n] => session'[n]
    /\ learned \subseteq learned' /\ learned' \subseteq Node

\* Each step is one of progress: nothing in the code undoes these.
LEMMA NextProgress == ASSUME TunnelTypeOK, [Next]_vars PROVE Progress
<1> USE DEF TunnelTypeOK, Progress, peerVars
<1>1. ASSUME NEW n \in Node, BeginConnect(n) PROVE Progress
  BY <1>1 DEF BeginConnect
<1>2. ASSUME NEW n \in Node, PunchLook(n) \/ PunchAgain(n) \/ SendData(n) \/ SetFriends(n)
      PROVE  Progress
  BY <1>2 DEF PunchLook, PunchAgain, SendData, SetFriends
<1>3. ASSUME NEW n \in Node, DirectDeadline(n) PROVE Progress
  BY <1>3 DEF DirectDeadline, StillPunching
<1>4. ASSUME NEW n \in Node, RelayDeadline(n) PROVE Progress
  BY <1>4 DEF RelayDeadline, GivesUp
<1>5. ASSUME NEW n \in Node, NEW f \in net, HandleFrame(n, f) PROVE Progress
  BY <1>5 DEF HandleFrame, HandleHello, HandleHelloAck, HandlePing, HandleOther,
              Arrives, Connect, Reject
<1>6. ASSUME NEW f \in net, Relay(f) PROVE Progress
  BY <1>6 DEF Relay, Frame, Announcement
<1>7. ASSUME NEW f \in net, Lose(f) PROVE Progress
  BY <1>7 DEF Lose
<1>8. CASE UNCHANGED vars
  BY <1>8 DEF vars
<1> QED BY <1>1, <1>2, <1>3, <1>4, <1>5, <1>6, <1>7, <1>8 DEF Next

\* So what a datagram in flight shows stays true until it arrives, or for ever.
LEMMA GoodStays ==
    ASSUME Progress, NEW f \in Frame, Good(f)
    PROVE  Good(f)'
<1>1. f.from \in Node
  BY DEF Frame, Announcement
<1> QED BY <1>1 DEF Progress, Good

\* Peers whose own fields stay as they are stay all right.
LEMMA PeerStays ==
    ASSUME Progress, NEW n \in Node, PeerOK(n),
           state'[n] = state[n] \/ state'[n] # "connected",
           relayed'[n] = relayed[n] \/ state'[n] # "connected",
           remote'[n] = remote[n], session'[n] = session[n]
    PROVE  PeerOK(n)'
<1>1. Other(n) \in Node
  BY OtherFacts
<1> QED BY <1>1 DEF Progress, PeerOK

-----------------------------------------------------------------------------
(* The invariant                                                           *)

\* Before any client begins only announcements are in flight.
LEMMA InitInv == Init => TunnelInv
<1> SUFFICES ASSUME Init PROVE TunnelInv
    OBVIOUS
<1>1. TunnelTypeOK
  BY InitType
<1>2. \A f \in net : Good(f)
  BY DEF Init, Good, Announcement
<1>3. (\A n \in Node : PeerOK(n)) /\ KeptOut
  BY DEF Init, PeerOK, KeptOut
<1> QED BY <1>1, <1>2, <1>3 DEF TunnelInv

\* What a client sends after its step is good, if it has begun, and has a
\* session when it acknowledges.
LEMMA ReplyGood ==
    ASSUME NEW n \in Node, NEW typ \in Type, typ # "clear",
           paths' = paths, state'[n] # "unknown", typ = "helloAck" => session'[n]
    PROVE  /\ \A f \in Reply(n, typ) : Good(f)'
           /\ \A f \in ToRelay(n, typ) : Good(f)'
BY DEF Reply, ToRelay, Good, Type

\* BeginConnect: a client that begins is not connected yet.
LEMMA BeginConnectInv ==
    ASSUME TunnelInv, NEW n \in Node, BeginConnect(n), Progress
    PROVE  (\A f \in net' : Good(f)') /\ (\A m \in Node : PeerOK(m)') /\ KeptOut'
<1> USE DEF TunnelInv
<1>1. \A f \in net' : Good(f)'
  BY GoodStays DEF BeginConnect, TunnelTypeOK
<1>2. ASSUME NEW m \in Node PROVE PeerOK(m)'
  <2>1. state'[m] = state[m] \/ state'[m] # "connected"
    BY DEF BeginConnect, TunnelTypeOK
  <2>2. relayed'[m] = relayed[m] \/ state'[m] # "connected"
    BY DEF BeginConnect, TunnelTypeOK
  <2> QED BY <2>1, <2>2, PeerStays DEF BeginConnect
<1>3. KeptOut'
  BY DEF KeptOut, BeginConnect
<1> QED BY <1>1, <1>2, <1>3

\* The turns of punchLoop send good hellos and never end a connection: they
\* look at the state again before they act on a deadline.
LEMMA PunchInv ==
    ASSUME TunnelInv, NEW n \in Node, Progress,
           PunchLook(n) \/ PunchAgain(n) \/ DirectDeadline(n) \/ RelayDeadline(n)
    PROVE  (\A f \in net' : Good(f)') /\ (\A m \in Node : PeerOK(m)') /\ KeptOut'
<1> USE DEF TunnelInv
<1>1. \A f \in net' : Good(f)'
  <2>1. \A f \in net : Good(f)'
    BY GoodStays DEF TunnelTypeOK
  <2>2. CASE PunchLook(n) /\ state[n] = "connecting"
    <3>1. \A f \in ToRelay(n, "hello") : Good(f)'
      BY <2>2, ReplyGood DEF PunchLook, peerVars, Type
    <3>2. LET f == [typ |-> "hello", from |-> n, path |-> "punch"]
          IN  Good(f)'
      BY <2>2 DEF PunchLook, peerVars, Good
    <3> QED BY <2>1, <2>2, <3>1, <3>2 DEF PunchLook
  <2>3. CASE ~(PunchLook(n) /\ state[n] = "connecting")
    BY <2>1, <2>3 DEF PunchLook, PunchAgain, DirectDeadline, RelayDeadline, GivesUp
  <2> QED BY <2>2, <2>3
<1>2. ASSUME NEW m \in Node PROVE PeerOK(m)'
  <2>1. state'[m] = state[m] \/ state'[m] # "connected"
    BY DEF PunchLook, PunchAgain, DirectDeadline, RelayDeadline, GivesUp, peerVars, TunnelTypeOK
  <2>2. relayed'[m] = relayed[m] \/ state'[m] # "connected"
    BY DEF PunchLook, PunchAgain, DirectDeadline, RelayDeadline, GivesUp, StillPunching,
           peerVars, TunnelTypeOK
  <2>3. remote' = remote /\ session' = session
    BY DEF PunchLook, PunchAgain, DirectDeadline, RelayDeadline, GivesUp, peerVars
  <2> QED BY <2>1, <2>2, <2>3, PeerStays
<1>3. KeptOut'
  BY DEF KeptOut, PunchLook, PunchAgain, DirectDeadline, RelayDeadline, GivesUp, peerVars
<1> QED BY <1>1, <1>2, <1>3

\* SendData seals: a connected client has a session.
LEMMA SendDataInv ==
    ASSUME TunnelInv, NEW n \in Node, SendData(n), Progress
    PROVE  (\A f \in net' : Good(f)') /\ (\A m \in Node : PeerOK(m)') /\ KeptOut'
<1> USE DEF TunnelInv
<1>1. \A f \in net : Good(f)'
  BY GoodStays DEF TunnelTypeOK
<1>2. session[n] /\ state[n] = "connected"
  BY DEF SendData, PeerOK
<1>3. \A f \in Reply(n, DataFrame(n)) : Good(f)'
  BY <1>2, ReplyGood DEF DataFrame, SendData, peerVars, Type
<1>4. \A f \in net' : Good(f)'
  BY <1>1, <1>3 DEF SendData
<1>5. \A m \in Node : PeerOK(m)'
  BY PeerStays DEF SendData, peerVars
<1>6. KeptOut'
  BY DEF KeptOut, SendData, peerVars
<1> QED BY <1>4, <1>5, <1>6

\* handleFrame: the sender of what arrives has begun, so a session made now is
\* two-sided; the frame itself shows that the path it came by works.
LEMMA HandleFrameInv ==
    ASSUME TunnelInv, NEW n \in Node, NEW f \in net, HandleFrame(n, f), Progress
    PROVE  (\A g \in net' : Good(g)') /\ (\A m \in Node : PeerOK(m)') /\ KeptOut'
<1> USE DEF TunnelInv
<1>1. Arrives(n, f)
  BY DEF HandleFrame, HandleHello, HandleHelloAck, HandlePing, HandleOther
<1>2. /\ paths' = paths /\ learned' = learned /\ friends' = friends
      /\ changes' = changes
      /\ relayed' = [relayed EXCEPT ![n] = f.path = "down"]
      /\ remote' = [remote EXCEPT ![n] = @ \/ f.path # "down"]
  BY <1>1 DEF Arrives
<1>3. Good(f) /\ f.from = Other(n) /\ state[n] # "unknown"
  BY <1>1 DEF Arrives
<1>4. f.typ # "announce"
  BY <1>1 DEF Arrives, TunnelTypeOK, Frame, Announcement, Type
<1>5. state[Other(n)] # "unknown"
  BY <1>3, <1>4 DEF Good
<1>6. Other(n) \in Node /\ Other(n) # n
  BY OtherFacts
<1>7. \A m \in Node \ {n} : state'[m] = state[m] /\ session'[m] = session[m]
  BY DEF HandleFrame, HandleHello, HandleHelloAck, HandlePing, HandleOther,
         Connect, Reject, TunnelTypeOK
<1>8. \/ state' = state /\ session' = session
      \/ HandshakeOK(n) /\ Connect(n)
  BY DEF HandleFrame, HandleHello, HandleHelloAck, HandlePing, HandleOther, Reject
<1>9. state'[n] # "unknown"
  BY <1>3 DEF Progress
<1>10. \A g \in net' : Good(g)'
  <2>1. \A g \in net : Good(g)'
    BY GoodStays DEF TunnelTypeOK
  <2>2. (\A g \in Reply(n, "ping") : Good(g)') /\ (\A g \in Reply(n, "quiet") : Good(g)')
    BY <1>2, <1>9, ReplyGood DEF Type
  <2>3. session'[n] => \A g \in Reply(n, "helloAck") : Good(g)'
    BY <1>2, <1>9, ReplyGood DEF Type
  <2>4. CASE HandleHello(n, f)
    <3>1. HandshakeOK(n) => session'[n] /\ net' = net \union Answers(n)
      BY <2>4 DEF HandleHello, Connect, TunnelTypeOK
    <3>2. ~HandshakeOK(n) => net' = net
      BY <2>4 DEF HandleHello, Reject
    <3> QED BY <2>1, <2>2, <2>3, <3>1, <3>2 DEF Answers
  <2>5. CASE HandleHelloAck(n, f)
    BY <2>1, <2>2, <2>5 DEF HandleHelloAck, Reject
  <2>6. CASE HandlePing(n, f) \/ HandleOther(n, f)
    BY <2>1, <2>2, <2>6 DEF HandlePing, HandleOther
  <2> QED BY <2>4, <2>5, <2>6 DEF HandleFrame
<1>11. PeerOK(n)'
  <2>1. state'[n] = "connected" => session'[n]
    BY <1>8 DEF PeerOK, Connect, TunnelTypeOK
  <2>2. IF relayed'[n] THEN paths'.relay /\ learned' = Node ELSE remote'[n]
    BY <1>2, <1>3 DEF Good, TunnelTypeOK
  <2>3. state'[Other(n)] # "unknown"
    BY <1>5, <1>6 DEF Progress
  <2> QED BY <1>9, <2>1, <2>2, <2>3 DEF PeerOK
<1>12. ASSUME NEW m \in Node \ {n} PROVE PeerOK(m)'
  <2>1. relayed'[m] = relayed[m] /\ remote'[m] = remote[m]
    BY <1>2 DEF TunnelTypeOK
  <2> QED BY <1>7, <2>1, PeerStays
<1>13. KeptOut'
  BY <1>2, <1>8 DEF KeptOut, HandshakeOK, Allowed, Connect, TunnelTypeOK
<1> QED BY <1>10, <1>11, <1>12, <1>13

\* The relay forwards only when it has learned sender and target.
LEMMA RelayInv ==
    ASSUME TunnelInv, NEW f \in net, Relay(f), Progress
    PROVE  (\A g \in net' : Good(g)') /\ (\A m \in Node : PeerOK(m)') /\ KeptOut'
<1> USE DEF TunnelInv
<1>1. \A g \in net : Good(g)'
  BY GoodStays DEF TunnelTypeOK
<1>2. f \in Frame /\ f.from \in Node
  BY DEF TunnelTypeOK, Frame, Announcement
<1>3. ASSUME Forwards(f) PROVE Good([f EXCEPT !.path = "down"])'
  <2> DEFINE g == [f EXCEPT !.path = "down"]
  <2>1. f \in [typ : Type, from : Node, path : Path]
    BY <1>2, <1>3 DEF Forwards, Frame, Announcement
  <2>2. g.typ = f.typ /\ g.from = f.from /\ g.path = "down"
    BY <2>1
  <2>3. learned' = Node
    BY <1>2, <1>3, OtherFacts DEF Forwards, Relay, Progress
  <2>4. Good(f)' /\ f.path = "up" /\ paths'.relay
    BY <1>1 DEF Relay, Good
  <2> HIDE DEF g
  <2>5. Good(g)'
    BY <2>2, <2>3, <2>4 DEF Good
  <2> QED BY <2>5 DEF g
<1>4. \A g \in net' : Good(g)'
  BY <1>1, <1>3 DEF Relay
<1>5. \A m \in Node : PeerOK(m)'
  BY PeerStays DEF Relay, peerVars
<1>6. KeptOut'
  BY DEF KeptOut, Relay, peerVars
<1> QED BY <1>4, <1>5, <1>6

\* Each step keeps the invariant.
LEMMA NextInv == TunnelInv /\ [Next]_vars => TunnelInv'
<1> SUFFICES ASSUME TunnelInv, [Next]_vars PROVE TunnelInv'
    OBVIOUS
<1> DEFINE Rest == (\A f \in net : Good(f)) /\ (\A n \in Node : PeerOK(n)) /\ KeptOut
<1>1. TunnelTypeOK'
  BY NextType DEF TunnelInv
<1>2. Progress
  BY NextProgress DEF TunnelInv
<1>3. ASSUME NEW n \in Node, BeginConnect(n) PROVE Rest'
  BY <1>2, <1>3, BeginConnectInv
<1>4. ASSUME NEW n \in Node,
             PunchLook(n) \/ PunchAgain(n) \/ DirectDeadline(n) \/ RelayDeadline(n)
      PROVE  Rest'
  BY <1>2, <1>4, PunchInv
<1>5. ASSUME NEW n \in Node, SendData(n) PROVE Rest'
  BY <1>2, <1>5, SendDataInv
<1>6. ASSUME NEW n \in Node, NEW f \in net, HandleFrame(n, f) PROVE Rest'
  BY <1>2, <1>6, HandleFrameInv
<1>7. ASSUME NEW f \in net, Relay(f) PROVE Rest'
  BY <1>2, <1>7, RelayInv
<1>8. ASSUME NEW n \in Node, SetFriends(n) PROVE Rest'
  <2>1. \A f \in net' : Good(f)'
    BY <1>2, <1>8, GoodStays DEF SetFriends, TunnelInv, TunnelTypeOK
  <2>2. \A m \in Node : PeerOK(m)'
    BY <1>2, <1>8, PeerStays DEF SetFriends, TunnelInv, peerVars
  <2>3. changes' # 0
    BY <1>8, BoundAssumption DEF SetFriends, TunnelInv, TunnelTypeOK, Paths
  <2> QED BY <2>1, <2>2, <2>3 DEF KeptOut
<1>9. ASSUME NEW f \in net, Lose(f) PROVE Rest'
  <2>1. \A g \in net' : Good(g)'
    BY <1>2, <1>9, GoodStays DEF Lose, TunnelInv, TunnelTypeOK
  <2>2. \A m \in Node : PeerOK(m)'
    BY <1>2, <1>9, PeerStays DEF Lose, TunnelInv, peerVars
  <2> QED BY <1>9, <2>1, <2>2 DEF KeptOut, Lose, TunnelInv, peerVars
<1>10. ASSUME UNCHANGED vars PROVE Rest'
  <2>1. \A f \in net' : Good(f)'
    BY <1>2, <1>10, GoodStays DEF vars, TunnelInv, TunnelTypeOK
  <2>2. \A m \in Node : PeerOK(m)'
    BY <1>2, <1>10, PeerStays DEF vars, TunnelInv, peerVars
  <2> QED BY <1>10, <2>1, <2>2 DEF KeptOut, vars, TunnelInv, peerVars
<1> HIDE DEF Rest
<1>11. Rest'
  BY <1>3, <1>4, <1>5, <1>6, <1>7, <1>8, <1>9, <1>10 DEF Next
<1> QED BY <1>1, <1>11 DEF TunnelInv, Rest

\* The invariant holds throughout.
LEMMA InvAlways == Spec => []TunnelInv
BY InitInv, NextInv, PTL DEF Spec

-----------------------------------------------------------------------------
(* Theorems                                                                *)

\* A connected peer can be sent to: over the relay once it knows both ends,
\* or at an address it was heard from (handleFrame, punchLoop's deadlines).
THEOREM ConnectedPeersCanSend == Spec => []ConnectedCanSend
<1>1. TunnelInv => ConnectedCanSend
  BY DEF TunnelInv, PeerOK, ConnectedCanSend
<1> QED BY <1>1, InvAlways, PTL

\* No data leaves SendData unsealed.
THEOREM DataIsAlwaysSealed == Spec => []DataIsSealed
<1>1. TunnelInv => DataIsSealed
  BY DEF TunnelInv, Good, DataIsSealed
<1> QED BY <1>1, InvAlways, PTL

\* Whoever has a session has it with a client that began too, and whoever
\* acknowledges has one.
THEOREM HandshakesAreTwoSided == Spec => []HandshakeIsTwoSided
<1>1. TunnelInv => HandshakeIsTwoSided
  BY DEF TunnelInv, PeerOK, Good, HandshakeIsTwoSided
<1> QED BY <1>1, InvAlways, PTL

\* checkPeerStatic keeps out whom the whitelist has never allowed.
THEOREM WhitelistKeepsOut == Spec => []KeptOut
<1>1. TunnelInv => KeptOut
  BY DEF TunnelInv
<1> QED BY <1>1, InvAlways, PTL

-----------------------------------------------------------------------------
(* The life of a peer, and the link the two tunnels implement              *)

\* While a client is connecting its punchLoop is at work, so that a hello is
\* sent again or a deadline ends the attempt: nobody waits for nothing.
ConnectingIsDriven == \A n \in Node : state[n] = "connecting" => loop[n] # "off"

\* The session is made in the step that connects, and neither is taken back.
LifeInv ==
    /\ ConnectingIsDriven
    /\ \A n \in Node : session[n] => state[n] = "connected"

\* In the beginning nobody is connecting and nobody has a session.
LEMMA LifeInit == Init => LifeInv
BY DEF Init, LifeInv, ConnectingIsDriven

\* Frames that arrive change a peer's state only when they connect it.
LEMMA HandleFrameLife ==
    ASSUME TunnelInv, LifeInv, NEW n \in Node, NEW f \in net, HandleFrame(n, f)
    PROVE  /\ loop' = loop /\ friends' = friends
           /\ \/ state' = state /\ session' = session
              \/ /\ state[n] \in {"connecting", "failed"}
                 /\ friends[n] /\ state[Other(n)] # "unknown"
                 /\ state' = [state EXCEPT ![n] = "connected"]
                 /\ session' = [session EXCEPT ![n] = TRUE]
<1>1. Arrives(n, f)
  BY DEF HandleFrame, HandleHello, HandleHelloAck, HandlePing, HandleOther
<1>2. Good(f) /\ f.from = Other(n) /\ state[n] # "unknown"
  BY <1>1 DEF Arrives, TunnelInv
<1>3. f.typ # "announce"
  BY <1>1 DEF Arrives, TunnelInv, TunnelTypeOK, Frame, Announcement, Type
<1>4. state[Other(n)] # "unknown"
  BY <1>2, <1>3 DEF Good
<1>5. \/ state' = state /\ session' = session
      \/ HandshakeOK(n) /\ Connect(n)
  BY DEF HandleFrame, HandleHello, HandleHelloAck, HandlePing, HandleOther, Reject
<1>6. CASE session[n] /\ Connect(n)
  \* An established session is made again: the same key, the same state.
  <2>1. state[n] = "connected" /\ session[n] = TRUE
    BY <1>6 DEF LifeInv, TunnelInv, TunnelTypeOK
  <2>2. state' = state /\ session' = session
    BY <1>6, <2>1 DEF Connect, TunnelInv, TunnelTypeOK
  <2> QED BY <1>1, <2>2 DEF Arrives
<1>7. CASE ~session[n] /\ HandshakeOK(n) /\ Connect(n)
  <2>1. state[n] # "connected"
    BY <1>7 DEF TunnelInv, PeerOK
  <2>2. state[n] \in {"connecting", "failed"}
    BY <1>2, <2>1 DEF TunnelInv, TunnelTypeOK
  <2> QED BY <1>1, <1>4, <1>7, <2>2 DEF Arrives, HandshakeOK, Allowed, Connect
<1> QED BY <1>1, <1>5, <1>6, <1>7 DEF Arrives

\* Each step keeps LifeInv, and is a step of the link or none.
LEMMA LifeStep ==
    ASSUME TunnelInv, LifeInv, [Next]_vars
    PROVE  LifeInv' /\ [Link!Next]_(Link!vars)
<1> USE DEF TunnelInv, TunnelTypeOK, LifeInv, ConnectingIsDriven
<1> DEFINE Kept == LifeInv' /\ [Link!Next]_(Link!vars)
<1>1. ASSUME UNCHANGED <<state, session, loop, friends>> PROVE Kept
  BY <1>1 DEF Link!vars
<1>2. ASSUME NEW n \in Node, BeginConnect(n) PROVE Kept
  <2>1. Link!Begin(n)
    BY <1>2 DEF BeginConnect, Link!Begin, Link!Moves
  <2>2. LifeInv'
    <3>1. state[n] = "unknown" /\ ~session[n]
      BY <1>2 DEF BeginConnect, PeerOK
    <3> QED BY <1>2, <3>1 DEF BeginConnect
  <2> QED BY <2>1, <2>2 DEF Link!Next
<1>3. ASSUME NEW n \in Node, PunchLook(n) \/ PunchAgain(n) PROVE Kept
  <2>1. state' = state /\ session' = session /\ friends' = friends
    BY <1>3 DEF PunchLook, PunchAgain, peerVars
  <2>2. ConnectingIsDriven'
    BY <1>3, <2>1 DEF PunchLook, PunchAgain
  <2> QED BY <2>1, <2>2 DEF Link!vars
<1>4. ASSUME NEW n \in Node, DirectDeadline(n) PROVE Kept
  <2>1. session' = session /\ friends' = friends
    BY <1>4 DEF DirectDeadline
  <2>2. CASE state' = state
    <3>1. ConnectingIsDriven'
      BY <1>4, <2>2 DEF DirectDeadline
    <3> QED BY <2>1, <2>2, <3>1 DEF Link!vars
  <2>3. CASE state' # state
    <3>1. state[n] = "connecting" /\ state' = [state EXCEPT ![n] = "failed"]
      BY <1>4, <2>3 DEF DirectDeadline, StillPunching
    <3>2. Link!GiveUp(n)
      BY <2>1, <3>1 DEF Link!GiveUp, Link!Moves
    <3>3. LifeInv'
      BY <1>4, <2>1, <3>1 DEF DirectDeadline
    <3> QED BY <3>2, <3>3 DEF Link!Next
  <2> QED BY <2>2, <2>3
<1>5. ASSUME NEW n \in Node, RelayDeadline(n) PROVE Kept
  <2>1. /\ session' = session /\ friends' = friends
        /\ loop' = [loop EXCEPT ![n] = "off"]
    BY <1>5 DEF RelayDeadline, GivesUp
  <2>2. CASE state[n] # "connecting"
    BY <1>5, <2>1, <2>2 DEF RelayDeadline, GivesUp, Link!vars
  <2>3. CASE state[n] = "connecting"
    <3>1. state' = [state EXCEPT ![n] = "failed"]
      BY <1>5, <2>3 DEF RelayDeadline, GivesUp
    <3>2. Link!GiveUp(n)
      BY <2>1, <2>3, <3>1 DEF Link!GiveUp, Link!Moves
    <3>3. LifeInv'
      BY <2>1, <2>3, <3>1
    <3> QED BY <3>2, <3>3 DEF Link!Next
  <2> QED BY <2>2, <2>3
<1>6. ASSUME NEW n \in Node, SendData(n) PROVE Kept
  BY <1>1, <1>6 DEF SendData, peerVars
<1>7. ASSUME NEW n \in Node, SetFriends(n) PROVE Kept
  <2>1. Link!ChangeMind(n)
    BY <1>7 DEF SetFriends, peerVars, Link!ChangeMind
  <2>2. LifeInv'
    BY <1>7 DEF SetFriends, peerVars
  <2> QED BY <2>1, <2>2 DEF Link!Next
<1>8. ASSUME NEW n \in Node, NEW f \in net, HandleFrame(n, f) PROVE Kept
  <2>1. CASE state' = state /\ session' = session
    BY <1>1, <1>8, <2>1, HandleFrameLife
  <2>2. CASE ~(state' = state /\ session' = session)
    <3>1. /\ state[n] \in {"connecting", "failed"}
          /\ friends[n] /\ state[Other(n)] # "unknown"
          /\ state' = [state EXCEPT ![n] = "connected"]
          /\ session' = [session EXCEPT ![n] = TRUE]
          /\ loop' = loop /\ friends' = friends
      BY <1>8, <2>2, HandleFrameLife
    <3>2. \A m \in Node : state[m] # "unknown"
      BY <3>1, OtherFacts
    <3>3. Link!Connect(n)
      BY <3>1, <3>2 DEF Link!Connect, Link!Moves
    <3>4. LifeInv'
      BY <3>1
    <3> QED BY <3>3, <3>4 DEF Link!Next
  <2> QED BY <2>1, <2>2
<1>9. ASSUME NEW f \in net, Relay(f) \/ Lose(f) PROVE Kept
  BY <1>1, <1>9 DEF Relay, Lose, peerVars
<1>10. ASSUME UNCHANGED vars PROVE Kept
  BY <1>1, <1>10 DEF vars, peerVars
<1> HIDE DEF Kept
<1>11. Kept
  BY <1>2, <1>3, <1>4, <1>5, <1>6, <1>7, <1>8, <1>9, <1>10 DEF Next
<1> QED BY <1>11 DEF Kept

\* LifeInv holds throughout.
LEMMA LifeAlways == Spec => []LifeInv
<1>1. TunnelInv /\ LifeInv /\ [Next]_vars => LifeInv'
  BY LifeStep
<1> QED BY <1>1, LifeInit, InvAlways, PTL DEF Spec

\* No client is left connecting without a punchLoop that sends its hellos and
\* minds its deadlines (BeginConnect, punchLoop, handleFrame).
THEOREM NobodyWaitsForNothing == Spec => []ConnectingIsDriven
<1>1. LifeInv => ConnectingIsDriven
  BY DEF LifeInv
<1> QED BY <1>1, LifeAlways, PTL

\* handleFrame and punchLoop at both ends implement a link.
THEOREM TunnelImplementsLink == Spec => LinkSpec
<1>1. Init => Link!Init
  BY DEF Init, Link!Init
<1>2. TunnelInv /\ LifeInv /\ [Next]_vars => [Link!Next]_(Link!vars)
  BY LifeStep
<1> QED BY <1>1, <1>2, InvAlways, LifeAlways, PTL DEF Spec, LinkSpec, Link!Spec
=============================================================================
