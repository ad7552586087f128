---------------------------- MODULE AdapterProofs ----------------------------
(***************************************************************************)
(* Theorems about the virtual network card, the STUN probe, the routes of  *)
(* an agent and the packets it carries, for any number of machines, peers, *)
(* readers and writers and whatever the network does.                      *)
(***************************************************************************)
EXTENDS VirtualNic, StunProbe, PeerRoutes, VirtualLan, SequenceTheorems, TLAPS

-----------------------------------------------------------------------------
(* VirtualNic.  A reader that was in Read when Close began cannot come back*)
(* into it: it finds the adapter closed.  So if all had left when the ring *)
(* went, none of those touches it afterwards.                              *)

Inside == {"receive", "empty", "wait"}
Outside == {"packet", "out", "gone"}

NicTypeOK ==
    /\ closed \in BOOLEAN /\ ended \in BOOLEAN /\ gaveUp \in BOOLEAN
    /\ reader \in [Reader -> Inside \union Outside \union {"entering"}]
    /\ waiting \subseteq Reader

NicInv ==
    /\ NicTypeOK
    /\ closer # "no" => closed
    /\ waiting # {} => closed
    /\ ended => closer = "done"
    /\ ~ended => trespass = {}
    /\ \A r \in waiting : reader[r] \in Inside \union Outside
    /\ ended /\ ~gaveUp => \A r \in waiting : reader[r] \in Outside
    /\ WokenReaderIsSafe

\* The steps of a reading goroutine.
LEMMA NicReaderStep ==
    ASSUME NicInv, NEW r \in Reader,
           Enter(r) \/ Count(r) \/ ReceivePacket(r) \/ Empty(r) \/ Wake(r) \/ Release(r)
    PROVE  NicInv'
<1> USE DEF NicInv, NicTypeOK, WokenReaderIsSafe, ReaderAt, Inside, Outside
<1>1. CASE Enter(r) BY <1>1 DEF Enter
<1>2. CASE Count(r) BY <1>2 DEF Count
<1>3. CASE ReceivePacket(r) BY <1>3 DEF ReceivePacket
<1>4. CASE Empty(r) BY <1>4 DEF Empty
<1>5. CASE Wake(r) BY <1>5 DEF Wake
<1>6. CASE Release(r) BY <1>6 DEF Release
<1> QED BY <1>1, <1>2, <1>3, <1>4, <1>5, <1>6

\* Every step keeps the invariant.
LEMMA NicStep == NicInv /\ [NicNext]_nicVars => NicInv'
<1> SUFFICES ASSUME NicInv, [NicNext]_nicVars PROVE NicInv'
    OBVIOUS
<1> USE DEF NicInv, NicTypeOK, WokenReaderIsSafe, Inside, Outside
<1>1. CASE Arrives BY <1>1 DEF Arrives
<1>2. CASE CloseBegins BY <1>2 DEF CloseBegins, Counted, InRead
<1>3. CASE CloseWakes BY <1>3 DEF CloseWakes
<1>4. CASE CloseEnds BY <1>4 DEF CloseEnds, ReadersLeft, Counted, InRead
<1>5. ASSUME NEW r \in Reader,
             Enter(r) \/ Count(r) \/ ReceivePacket(r) \/ Empty(r) \/ Wake(r) \/ Release(r)
      PROVE  NicInv'
    BY <1>5, NicReaderStep
<1>6. ASSUME NEW w \in Writer, WriteCheck(w) \/ WriteCopy(w) PROVE NicInv'
    BY <1>6 DEF WriteCheck, WriteCopy
<1>7. CASE UNCHANGED nicVars BY <1>7 DEF nicVars
<1> QED
    BY <1>1, <1>2, <1>3, <1>4, <1>5, <1>6, <1>7 DEF NicNext

\* Close is safe for a goroutine blocked in Read (vnic.go:94-98), for any
\* number of readers and writers.
THEOREM CloseIsSafeForReaders == NicSpec => []WokenReaderIsSafe
<1>1. NicInit => NicInv
    BY DEF NicInit, NicInv, NicTypeOK, WokenReaderIsSafe, Inside, Outside
<1>2. NicInv => WokenReaderIsSafe
    BY DEF NicInv
<1> QED
    BY <1>1, <1>2, NicStep, PTL DEF NicSpec

-----------------------------------------------------------------------------
(* StunProbe.  Every answer shows the port and the origin that the NAT     *)
(* gives the request it belongs to, however late it comes.                 *)

AnswerOK(a) ==
    /\ a \in [tx : 1 .. 3, port : {1, 2}, alien : BOOLEAN]
    /\ a.port = Port(a.tx)
    /\ a.alien => nat = "full_cone"

ProbeInv ==
    /\ trip \in 1 .. 4
    /\ \A a \in answers : AnswerOK(a)
    /\ mapped \in {<<0, 0>>} \union {<<i, j>> : i \in {1}, j \in 0 .. 2}
    /\ trip = 2 => mapped[1] = 1
    /\ nat = "symmetric" /\ mapped[2] # 0 => trip = 4
    /\ NATRecognised

\* Every step of the probe, the servers and the network keeps it.
LEMMA ProbeStep == ProbeInv /\ [ProbeNext]_probeVars => ProbeInv'
<1> SUFFICES ASSUME ProbeInv, [ProbeNext]_probeVars PROVE ProbeInv'
    OBVIOUS
<1> USE DEF ProbeInv, AnswerOK, Port, natVars
<1>1. ASSUME NEW tx \in 1 .. 3, Answer(tx) PROVE ProbeInv'
  <2>1. PICK alien \in BOOLEAN :
            /\ alien => nat = "full_cone"
            /\ answers' = answers \union {[tx |-> tx, port |-> Port(tx), alien |-> alien]}
    BY <1>1 DEF Answer
  <2> QED BY <1>1, <2>1 DEF Answer, NATRecognised
<1>2. ASSUME NEW a \in answers, ReadAnswer(a) PROVE ProbeInv'
  <2>1. CASE Parses(a) /\ Returned(a)
    BY <1>2, <2>1 DEF ReadAnswer, Parses, Returned, Goes, NextTrip, NATRecognised
  <2>2. CASE UNCHANGED <<trip, asked, mapped, result>>
    BY <1>2, <2>2 DEF ReadAnswer, NATRecognised
  <2> QED BY <1>2, <2>1, <2>2 DEF ReadAnswer
<1>3. CASE Deadline
    BY <1>3 DEF Deadline, TimedOut, Goes, Unfinished, NATRecognised
<1>4. CASE UNCHANGED probeVars
    BY <1>4 DEF probeVars, NATRecognised
<1> QED
    BY <1>1, <1>2, <1>3, <1>4 DEF ProbeNext

\* The probe never claims more about the NAT than is so (DetectOn), whatever
\* datagrams are lost, repeated or read in a later round trip.
THEOREM ProbeIsConservative == ProbeSpec => []NATRecognised
<1>1. ProbeInit => ProbeInv
    BY DEF ProbeInit, ProbeInv, NATRecognised
<1>2. ProbeInv => NATRecognised
    BY DEF ProbeInv
<1> QED
    BY <1>1, <1>2, ProbeStep, PTL DEF ProbeSpec

-----------------------------------------------------------------------------
(* PeerRoutes.  The commands still to run and those not carried out make up*)
(* the difference between the table and the system's routes.  Before the   *)
(* adapter is open none is given: every address in the table is missed.    *)

Message == [type : {"registered", "peers_list", "room_left"},
            peers : SUBSET Peer, ready : SUBSET Peer]

\* The registered reply is written once, and read before the adapter opens.
GreetedOnce ==
    /\ \A i \in 1 .. Len(unread) : unread[i].type = "registered" =>
        /\ greeted /\ adapter = "none"
        /\ \A j \in 1 .. Len(unread) : unread[j].type = "registered" => i = j
    /\ ~greeted => adapter = "none"

RoutesTypeOK ==
    /\ visible \subseteq Peer /\ ready \subseteq Peer
    /\ unread \in Seq(Message)
    /\ pending \in [peers : SUBSET Peer, ready : SUBSET Peer]
    /\ greeted \in BOOLEAN
    /\ adapter \in {"none", "opening", "open", "failed"}
    /\ routes \in [Vip -> Peer \union {Nobody}]

CommandsPending ==
    /\ adding \subseteq Routed(routes)
    /\ deleting \intersect Routed(routes) = {}
    /\ adapter = "open" =>
        /\ Routed(routes) \ missed \subseteq osRoutes \union adding
        /\ osRoutes \ leftover \subseteq Routed(routes) \union deleting
    /\ adapter # "open" =>
        /\ adding = {} /\ deleting = {}
        /\ osRoutes \subseteq leftover
        /\ Routed(routes) \subseteq missed

RoutesInv == RoutesTypeOK /\ GreetedOnce /\ CommandsPending

\* A table is built from addresses and the peers that have them.
LEMMA TableType ==
    ASSUME NEW peers \in SUBSET Peer
    PROVE  Table(peers) \in [Vip -> Peer \union {Nobody}]
<1>1. ASSUME NEW v \in Vip, \E p \in peers : VipOf[p] = v
      PROVE  (CHOOSE p \in peers : VipOf[p] = v) \in Peer
    BY <1>1
<1> QED BY <1>1 DEF Table

\* A new list: what it adds and takes away becomes commands, or is missed.
LEMMA AutoConnectKeeps ==
    ASSUME RoutesInv, NEW list, list.peers \subseteq Peer,
           adding = {}, deleting = {},
           AutoConnect(list, adapter' = "open"),
           adapter' = "open" => adapter \in {"open", "opening"},
           adapter' # "open" => adapter # "open",
           UNCHANGED <<osRoutes, leftover>>
    PROVE  CommandsPending' /\ routes' \in [Vip -> Peer \union {Nobody}]
<1> DEFINE new == Table(list.peers)
           add == {v \in Routed(new) : new[v] # routes[v]}
<1>1. routes' = new /\ routes \in [Vip -> Peer \union {Nobody}]
    BY DEF AutoConnect, RoutesInv, RoutesTypeOK
<1>2. new \in [Vip -> Peer \union {Nobody}]
    BY TableType
<1>3. Commands(add, Gone(new), adapter' = "open")
    BY DEF AutoConnect
<1> HIDE DEF new
<1>4. Routed(new) \ add \subseteq Routed(routes)
    BY <1>1, <1>2 DEF Routed
<1>5. CASE adapter' = "open"
  <2>1. adding' = add /\ deleting' = Gone(new) /\ missed' = missed \ add
    BY <1>3, <1>5 DEF Commands
  <2> QED
    BY <1>1, <1>2, <1>4, <1>5, <2>1 DEF RoutesInv, CommandsPending, Gone
<1>6. CASE adapter' # "open"
  <2>1. adding' = {} /\ deleting' = {} /\ missed' = missed \union add
    BY <1>3, <1>6 DEF Commands
  <2> QED
    BY <1>1, <1>2, <1>4, <1>6, <2>1 DEF RoutesInv, CommandsPending
<1> QED BY <1>5, <1>6

\* A message is appended: only the reply is of its type.
LEMMA WriteKeeps ==
    ASSUME RoutesInv, NEW type \in {"registered", "peers_list", "room_left"},
           Write(type), type = "registered" => ~greeted
    PROVE  /\ unread' \in Seq(Message)
           /\ (type = "registered" => greeted') /\ (greeted => greeted') /\ adapter' = adapter
                => GreetedOnce'
<1> DEFINE msg == [type |-> type, peers |-> visible, ready |-> ready]
<1>1. unread' = Append(unread, msg) /\ unread \in Seq(Message) /\ msg \in Message
    BY DEF Write, RoutesInv, RoutesTypeOK, Message
<1>2. Len(unread') = Len(unread) + 1
    BY <1>1
<1>3. \A i \in 1 .. Len(unread) : unread'[i] = unread[i]
    BY <1>1
<1>4. unread'[Len(unread) + 1] = msg
    BY <1>1
<1>5. type = "registered" => \A i \in 1 .. Len(unread) : unread[i].type # "registered"
    BY DEF RoutesInv, GreetedOnce
<1>6. Len(unread) \in Nat
    BY <1>1
<1>7. (type = "registered" => greeted') /\ (greeted => greeted') /\ adapter' = adapter
        => GreetedOnce'
  <2> SUFFICES ASSUME type = "registered" => greeted', greeted => greeted',
                      adapter' = adapter
               PROVE  GreetedOnce'
    OBVIOUS
  <2>1. msg.type = type
    OBVIOUS
  <2> HIDE DEF msg
  <2>2. type = "registered" => adapter = "none"
    BY DEF RoutesInv, GreetedOnce
  <2> QED
    BY <1>2, <1>3, <1>4, <1>5, <1>6, <2>1, <2>2 DEF RoutesInv, GreetedOnce
<1> QED BY <1>1, <1>7

\* A message is read: those behind it move up.
LEMMA ReadKeeps ==
    ASSUME RoutesInv, NEW type \in {"registered", "peers_list", "room_left"}, Reads(type)
    PROVE  /\ unread' \in Seq(Message)
           /\ Head(unread) \in Message
           /\ type = "registered" =>
                greeted /\ adapter = "none"
                /\ \A i \in 1 .. Len(unread') : unread'[i].type # "registered"
           /\ adapter' = adapter => GreetedOnce'
<1>1. unread \in Seq(Message) /\ unread # <<>> /\ unread' = Tail(unread)
    BY DEF Reads, RoutesInv, RoutesTypeOK
<1>2. Len(unread) \in Nat /\ Len(unread) >= 1 /\ Len(unread') = Len(unread) - 1
    BY <1>1
<1>3. \A i \in 1 .. Len(unread') : unread'[i] = unread[i + 1]
    BY <1>1
<1>4. Head(unread) = unread[1] /\ unread[1].type = type
    BY <1>1 DEF Reads
<1>5. greeted' = greeted
    BY DEF Reads, serverVars
<1>6. type = "registered" =>
        greeted /\ adapter = "none" /\ \A i \in 1 .. Len(unread') : unread'[i].type # "registered"
    BY <1>2, <1>3, <1>4 DEF RoutesInv, GreetedOnce
<1>7. adapter' = adapter => GreetedOnce'
  <2> SUFFICES ASSUME adapter' = adapter PROVE GreetedOnce'
    OBVIOUS
  <2>1. GreetedOnce
    BY DEF RoutesInv
  <2>2. ASSUME NEW i \in 1 .. Len(unread'), unread'[i].type = "registered"
        PROVE  /\ greeted' /\ adapter' = "none"
               /\ \A j \in 1 .. Len(unread') : unread'[j].type = "registered" => i = j
    <3>1. i + 1 \in 1 .. Len(unread) /\ unread[i + 1].type = "registered"
      BY <1>2, <1>3, <2>2
    <3>2. ASSUME NEW j \in 1 .. Len(unread'), unread'[j].type = "registered"
          PROVE  i = j
      <4>1. j + 1 \in 1 .. Len(unread) /\ unread[j + 1].type = "registered"
        BY <1>2, <1>3, <3>2
      <4>2. i + 1 = j + 1
        BY <2>1, <3>1, <4>1 DEF GreetedOnce
      <4> QED BY <4>2
    <3> QED BY <1>5, <2>1, <3>1, <3>2 DEF GreetedOnce
  <2> QED BY <1>5, <2>1, <2>2 DEF GreetedOnce
<1> QED BY <1>1, <1>6, <1>7

\* Every step of the server and of the agent keeps the invariant.
LEMMA RoutesStep == RoutesInv /\ [RoutesNext]_routeVars => RoutesInv'
<1> SUFFICES ASSUME RoutesInv, [RoutesNext]_routeVars PROVE RoutesInv'
    OBVIOUS
<1> USE DEF RoutesInv
<1>1. CASE VisibleChanges
  <2>1. visible' \subseteq Peer /\ ready' \subseteq Peer
    BY <1>1 DEF VisibleChanges, RoutesTypeOK
  <2> QED
    BY <1>1, <2>1 DEF VisibleChanges, tableVars, RoutesTypeOK, GreetedOnce, CommandsPending, Routed
<1>2. CASE Greets
  <2>1. unread' \in Seq(Message) /\ GreetedOnce'
    BY <1>2, WriteKeeps DEF Greets
  <2> QED
    BY <1>2, <2>1 DEF Greets, tableVars, RoutesTypeOK, CommandsPending, Routed
<1>3. CASE Broadcasts
  <2>1. unread' \in Seq(Message) /\ GreetedOnce'
    BY <1>3, WriteKeeps DEF Broadcasts, serverVars
  <2> QED
    BY <1>3, <2>1 DEF Broadcasts, serverVars, tableVars, RoutesTypeOK, CommandsPending, Routed
<1>4. CASE Leaves
  <2>1. unread' \in Seq(Message) /\ GreetedOnce'
    BY <1>4, WriteKeeps DEF Leaves
  <2> QED
    BY <1>4, <2>1 DEF Leaves, tableVars, RoutesTypeOK, CommandsPending, Routed
<1>5. CASE ReadRegistered
  <2>1. Reads("registered")
    BY <1>5 DEF ReadRegistered
  <2>2. /\ unread' \in Seq(Message) /\ Head(unread) \in Message
        /\ greeted /\ adapter = "none"
        /\ \A i \in 1 .. Len(unread') : unread'[i].type # "registered"
    BY <2>1, ReadKeeps
  <2>3. GreetedOnce' /\ RoutesTypeOK'
    BY <1>5, <2>1, <2>2 DEF ReadRegistered, Reads, serverVars, tableVars, Message,
       GreetedOnce, RoutesTypeOK
  <2> QED
    BY <1>5, <2>1, <2>2, <2>3 DEF ReadRegistered, Reads, tableVars, CommandsPending, Routed
<1>6. CASE ReadPeersList
  <2>1. Reads("peers_list") /\ UNCHANGED <<adapter, pending>>
    BY <1>6 DEF ReadPeersList
  <2>2. unread' \in Seq(Message) /\ Head(unread) \in Message /\ GreetedOnce'
    BY <2>1, ReadKeeps
  <2>3. AutoConnect(Head(unread), adapter' = "open")
    BY <1>6, <2>1 DEF ReadPeersList
  <2>4. adding = {} /\ deleting = {} /\ UNCHANGED <<serverVars, osRoutes, leftover>>
    BY <2>1 DEF Reads, Idle
  <2>5. Head(unread).peers \subseteq Peer
    BY <2>2 DEF Message
  <2>6. CommandsPending' /\ routes' \in [Vip -> Peer \union {Nobody}]
    BY <2>1, <2>3, <2>4, <2>5, AutoConnectKeeps
  <2> QED
    BY <2>1, <2>2, <2>4, <2>6 DEF RoutesTypeOK, serverVars
<1>7. CASE ReadRoomLeft
  <2>1. Reads("room_left") /\ ClearRoom /\ UNCHANGED <<adapter, pending>>
    BY <1>7 DEF ReadRoomLeft
  <2>2. unread' \in Seq(Message) /\ GreetedOnce'
    BY <2>1, ReadKeeps
  <2>3. adding = {} /\ deleting = {} /\ UNCHANGED <<serverVars, osRoutes, leftover>>
    BY <2>1 DEF Reads, Idle
  <2>4. routes' = [v \in Vip |-> Nobody] /\ Routed(routes') = {}
    BY <2>1 DEF ClearRoom, Routed
  <2>5. CommandsPending'
    BY <2>1, <2>3, <2>4 DEF ClearRoom, Commands, CommandsPending
  <2> QED
    BY <2>1, <2>2, <2>3, <2>4, <2>5 DEF RoutesTypeOK, serverVars
<1>8. CASE AdapterOpens
  <2>1. /\ adapter = "opening" /\ adapter' \in {"open", "failed"}
        /\ UNCHANGED <<serverVars, unread, osRoutes, leftover>>
        /\ pending' = Nothing /\ pending.peers \subseteq Peer
        /\ AutoConnect(pending, adapter' = "open")
    BY <1>8 DEF AdapterOpens, RoutesTypeOK
  <2>2. adding = {} /\ deleting = {}
    BY <2>1 DEF CommandsPending
  <2>3. CommandsPending' /\ routes' \in [Vip -> Peer \union {Nobody}]
    BY <2>1, <2>2, AutoConnectKeeps
  <2>4. GreetedOnce'
    BY <2>1 DEF GreetedOnce, serverVars
  <2> QED
    BY <2>1, <2>3, <2>4 DEF RoutesTypeOK, serverVars, Nothing
<1>9. CASE RouteAdd
    BY <1>9 DEF RouteAdd, serverVars, RoutesTypeOK, GreetedOnce, CommandsPending, Routed
<1>10. CASE RouteDelete
    BY <1>10 DEF RouteDelete, serverVars, RoutesTypeOK, GreetedOnce, CommandsPending, Routed
<1>11. CASE UNCHANGED routeVars
    BY <1>11 DEF routeVars, serverVars, tableVars, RoutesTypeOK, GreetedOnce, CommandsPending,
       Routed
<1> QED
    BY <1>1, <1>2, <1>3, <1>4, <1>5, <1>6, <1>7, <1>8, <1>9, <1>10, <1>11 DEF RoutesNext

\* Between messages every difference between the system's routes and the table
\* comes from a command that failed, was skipped or was never given for want of
\* an adapter, or from an earlier agent (autoConnect, clearRoom), for any peers,
\* addresses, lists and delays of the adapter.
THEOREM RoutesAreThoseOfPeers == RoutesSpec => []RoutesFollowPeers
<1>1. RoutesInit => RoutesInv
  <2> SUFFICES ASSUME RoutesInit PROVE RoutesInv
    OBVIOUS
  <2>1. Routed(routes) = {} /\ unread = <<>> /\ adapter = "none"
    BY DEF RoutesInit, Routed
  <2>2. RoutesTypeOK
    <3>1. unread \in Seq(Message)
      BY <2>1, EmptySeq
    <3>2. pending \in [peers : SUBSET Peer, ready : SUBSET Peer]
      BY DEF RoutesInit, Nothing
    <3>3. routes \in [Vip -> Peer \union {Nobody}]
      BY DEF RoutesInit
    <3> QED
      BY <3>1, <3>2, <3>3 DEF RoutesInit, RoutesTypeOK
  <2>3. GreetedOnce
    BY <2>1 DEF GreetedOnce
  <2>4. CommandsPending
    BY <2>1 DEF RoutesInit, CommandsPending
  <2> QED
    BY <2>2, <2>3, <2>4 DEF RoutesInv
<1>2. RoutesInv => RoutesFollowPeers
    BY DEF RoutesInv, CommandsPending, RoutesFollowPeers, Idle
<1> QED
    BY <1>1, <1>2, RoutesStep, PTL DEF RoutesSpec

-----------------------------------------------------------------------------
(* VirtualLan.  A packet remembers where it came from: what a listener     *)
(* hears is a game's of its segment or has a virtual source, an adapter    *)
(* carries only its own machine's advertisements, and what comes out of a  *)
(* tunnel was put into it.                                                 *)

Word == Address \union {Blank}
LanPacket == [words : Seq(Word), port : {"discovery", "game"}, world : Machine]

WellFormed(pkt) ==
    /\ pkt \in LanPacket
    /\ Len(pkt.words) >= 5
    /\ pkt.port = "discovery" => Len(pkt.words) = 5

Traced(p) ==
    /\ p.at \in up
    /\ p.via \in {"listener", "adapter", "tunnel"}
    /\ WellFormed(p.pkt)
    /\ p.via = "listener" =>
        /\ p.pkt.port = "discovery"
        /\ InVirtualSubnet(Source(p.pkt)) \/ Segment[p.at] = Segment[p.pkt.world]
    /\ p.via = "adapter" /\ p.pkt.port = "discovery" => p.at = p.pkt.world /\ Dest(p.pkt) = Group
    /\ p.via = "tunnel" => \E s \in sent : s.to = p.at /\ s.pkt = p.pkt

LanInv ==
    /\ up \subseteq Machine /\ nic \subseteq up
    /\ myVIP \in [up -> HostNumber]
    /\ \A m, n \in up : myVIP[m] = myVIP[n] => m = n
    /\ \A p \in flying : Traced(p)
    /\ \A s \in sent : s.as \in HostNumber
    /\ CarriedAsRouted

USE DEF up

\* The lists.  A connection has one address as long as it lives, so that an old
\* list names a living one by the address it still has.
Named(e) ==
    /\ e.id \in Nat /\ e.id <= agents
    /\ \A n \in up : e.id = myID[n] => e.vip = Virtual(myVIP[n])

ListsInv ==
    /\ agents \in Nat
    /\ DOMAIN myID = up /\ DOMAIN behind = up
    /\ \A n \in up : myID[n] \in Nat /\ myID[n] <= agents
    /\ \A n, o \in up : myID[n] = myID[o] => n = o
    /\ \A list \in lists : \A e \in list : Named(e)
    /\ \A m \in up : \A e \in behind[m] : Named(e)

\* What a route leads to has the address.
LEMMA RoutedToOwner ==
    ASSUME ListsInv, NEW m \in up, NEW dest, NEW n \in RouteOf(m, dest)
    PROVE  dest = Virtual(myVIP[n])
<1> DEFINE e == [vip |-> dest, id |-> myID[n]]
<1>1. n \in up /\ e \in behind[m]
    BY DEF RouteOf
<1>2. e.vip = dest /\ e.id = myID[n]
    OBVIOUS
<1> HIDE DEF e
<1> QED BY <1>1, <1>2 DEF ListsInv, Named

\* Only who registers is new, under a number no list has.
LEMMA ListsStep == ListsInv /\ [LanNext]_lanVars => ListsInv'
<1> SUFFICES ASSUME ListsInv, [LanNext]_lanVars PROVE ListsInv'
    OBVIOUS
<1>1. ASSUME NEW m \in Machine, Registers(m) PROVE ListsInv'
  <2>1. /\ agents' = agents + 1 /\ m \notin up
        /\ myID' = [n \in up \union {m} |-> IF n = m THEN agents' ELSE myID[n]]
        /\ behind' = [n \in up \union {m} |-> IF n = m THEN {} ELSE behind[n]]
        /\ lists' = lists \union {Present'}
    BY <1>1 DEF Registers
  <2>2. up' = up \union {m} /\ \A n \in up : myVIP'[n] = myVIP[n]
    BY <1>1 DEF Registers
  <2>3. /\ agents' \in Nat /\ DOMAIN myID' = up' /\ DOMAIN behind' = up'
        /\ myID'[m] = agents' /\ (\A n \in up : myID'[n] = myID[n])
        /\ behind'[m] = {} /\ (\A n \in up : behind'[n] = behind[n])
    BY <2>1, <2>2 DEF ListsInv
  <2>4. /\ \A n \in up' : myID'[n] \in Nat /\ myID'[n] <= agents'
        /\ \A n, o \in up' : myID'[n] = myID'[o] => n = o
    BY <2>1, <2>2, <2>3 DEF ListsInv
  <2>5. \A e : Named(e) => Named(e)'
    BY <2>1, <2>2, <2>3 DEF ListsInv, Named
  <2>6. \A e \in Present' : Named(e)'
    BY <2>4 DEF Present, Named
  <2> QED BY <2>1, <2>2, <2>3, <2>4, <2>5, <2>6 DEF ListsInv
<1>2. ASSUME NEW m \in Machine, Ends(m) PROVE ListsInv'
  <2>1. /\ up' = up \ {m} /\ DOMAIN myID' = up' /\ DOMAIN behind' = up'
        /\ \A n \in up' : /\ myVIP'[n] = myVIP[n] /\ myID'[n] = myID[n]
                          /\ behind'[n] = behind[n]
        /\ lists' = lists \union {Present'} /\ agents' = agents
    BY <1>2 DEF Ends, Restrict, ListsInv
  <2>2. /\ \A n \in up' : myID'[n] \in Nat /\ myID'[n] <= agents'
        /\ \A n, o \in up' : myID'[n] = myID'[o] => n = o
    BY <2>1 DEF ListsInv
  <2>3. \A e : Named(e) => Named(e)'
    BY <2>1 DEF Named
  <2>4. \A e \in Present' : Named(e)'
    BY <2>2 DEF Present, Named
  <2> HIDE DEF up
  <2> QED BY <2>1, <2>2, <2>3, <2>4 DEF ListsInv, up
<1>3. ASSUME NEW m \in Machine, AutoConnects(m) PROVE ListsInv'
  <2>1. PICK list \in lists :
            behind' = [behind EXCEPT ![m] = list \ {[vip |-> Virtual(myVIP[m]), id |-> myID[m]]}]
    BY <1>3 DEF AutoConnects
  <2>2. UNCHANGED <<myVIP, myID, lists, agents>>
    BY <1>3 DEF AutoConnects, registryOf
  <2>3. /\ DOMAIN behind' = up
        /\ \A n \in up : behind'[n] \subseteq behind[n] \/ behind'[n] \subseteq list
    BY <2>1 DEF ListsInv
  <2> QED BY <2>2, <2>3 DEF ListsInv, Named
<1>4. ASSUME UNCHANGED <<registryOf, behind, agents>> PROVE ListsInv'
    BY <1>4 DEF registryOf, ListsInv, Named
<1>5. ASSUME NEW m \in Machine, OpensAdapter(m) \/ Advertise(m) \/ Send(m)
      PROVE  UNCHANGED <<registryOf, behind, agents>>
    BY <1>5 DEF OpensAdapter, Advertise, Send
<1>6. ASSUME NEW p \in flying, Listen(p) \/ ForwardFromVnic(p) \/ Sink(p) \/ Lose(p)
      PROVE  UNCHANGED <<registryOf, behind, agents>>
    BY <1>6 DEF Listen, ForwardFromVnic, Sink, Lose
<1>7. CASE UNCHANGED lanVars
    BY <1>4, <1>7 DEF lanVars, registryOf
<1> QED BY <1>1, <1>2, <1>3, <1>4, <1>5, <1>6, <1>7 DEF LanNext

\* The kinds of addresses differ.
LEMMA Addresses ==
    /\ \A a : InVirtualSubnet(Virtual(a))
    /\ \A a \in HostNumber : Virtual(a) \in Word
    /\ \A m \in Machine : Physical(m) \in Word
    /\ Group \in Word /\ Blank \in Word /\ Address \subseteq Word
<1>1. \A a : InVirtualSubnet(Virtual(a))
    BY DEF Virtual, InVirtualSubnet
<1> QED BY <1>1 DEF Word, Address

\* A header that is built.
LEMMA Built ==
    ASSUME NEW source \in Word, NEW dest \in Word, NEW options \in Seq(Word),
           NEW port \in {"discovery", "game"}, NEW world \in Machine,
           NEW pkt, pkt = Packet(source, dest, options, port, world)
    PROVE  /\ pkt \in LanPacket
           /\ Len(pkt.words) = 5 + Len(options)
           /\ Source(pkt) = source /\ Dest(pkt) = dest
           /\ pkt.port = port /\ pkt.world = world
<1> DEFINE fixed == <<Blank, Blank, Blank, source, dest>>
<1>1. fixed \in Seq(Word) /\ Len(fixed) = 5 /\ fixed[4] = source /\ fixed[5] = dest
    BY Addresses
<1> HIDE DEF fixed
<1>2. /\ fixed \o options \in Seq(Word)
      /\ Len(fixed \o options) = Len(fixed) + Len(options)
      /\ \A i \in 1 .. Len(fixed) + Len(options) :
            (fixed \o options)[i] = IF i <= Len(fixed) THEN fixed[i] ELSE options[i - Len(fixed)]
    BY <1>1, ConcatProperties
<1>3. Len(options) \in Nat
    BY LenProperties
<1>4. (fixed \o options)[4] = source /\ (fixed \o options)[5] = dest
    BY <1>1, <1>2, <1>3
<1>5. pkt = [words |-> fixed \o options, port |-> port, world |-> world]
    BY DEF Packet, fixed
<1> QED BY <1>1, <1>2, <1>4, <1>5 DEF LanPacket, Source, Dest

\* An advertisement has no options.
LEMMA BuiltPlain ==
    ASSUME NEW source \in Word, NEW dest \in Word, NEW world \in Machine,
           NEW pkt, pkt = Packet(source, dest, <<>>, "discovery", world)
    PROVE  /\ WellFormed(pkt)
           /\ Source(pkt) = source /\ Dest(pkt) = dest
           /\ pkt.port = "discovery" /\ pkt.world = world
<1> DEFINE fixed == <<Blank, Blank, Blank, source, dest>>
<1>1. fixed \in Seq(Word) /\ Len(fixed) = 5 /\ fixed[4] = source /\ fixed[5] = dest
    BY Addresses
<1>2. pkt = [words |-> fixed \o <<>>, port |-> "discovery", world |-> world]
    BY DEF Packet
<1> HIDE DEF fixed
<1>3. fixed \o <<>> = fixed
    BY <1>1, ConcatEmptySeq
<1>4. pkt = [words |-> fixed, port |-> "discovery", world |-> world]
    BY <1>2, <1>3
<1> QED BY <1>1, <1>4 DEF WellFormed, LanPacket, Source, Dest

\* A header in which one word is rewritten.
LEMMA Rewritten ==
    ASSUME NEW pkt \in LanPacket, NEW i \in 1 .. Len(pkt.words), NEW a \in Word,
           NEW new, new = [pkt EXCEPT !.words[i] = a]
    PROVE  /\ new \in LanPacket
           /\ Len(new.words) = Len(pkt.words)
           /\ \A j \in 1 .. Len(pkt.words) :
                new.words[j] = IF j = i THEN a ELSE pkt.words[j]
           /\ new.port = pkt.port /\ new.world = pkt.world
<1> DEFINE words == [pkt.words EXCEPT ![i] = a]
<1>1. pkt.words \in Seq(Word)
    BY DEF LanPacket
<1>2. /\ words \in Seq(Word) /\ Len(words) = Len(pkt.words)
      /\ \A j \in 1 .. Len(pkt.words) : words[j] = IF j = i THEN a ELSE pkt.words[j]
    BY <1>1, ExceptSeq
<1>3. new = [pkt EXCEPT !.words = words]
    OBVIOUS
<1>4. new.words = words /\ new.port = pkt.port /\ new.world = pkt.world /\ new \in LanPacket
  <2> HIDE DEF words
  <2> QED BY <1>2, <1>3 DEF LanPacket
<1> QED BY <1>2, <1>4

\* What a game sends.
LEMMA Sends ==
    ASSUME LanInv, NEW m \in Machine, Advertise(m) \/ Send(m)
    PROVE  LanInv'
<1> USE DEF LanInv, Traced, WellFormed
<1>1. UNCHANGED <<myVIP, nic, found, sent>>
    BY DEF Advertise, Send, registryOf
<1>2. ASSUME Advertise(m) PROVE \A p \in flying' : Traced(p)
  <2>1. PICK source \in {Physical(m)} \union {Virtual(a) : a \in Adapters(m)} :
            LET pkt == Packet(source, Group, <<>>, "discovery", m)
                heard == {At(n, "listener", pkt) : n \in up \intersect {m}}
            IN  \/ flying' = flying \union
                        {At(n, "listener", pkt) : n \in {n \in up : Segment[n] = Segment[m]}}
                \/ m \in nic /\ flying' = flying \union heard \union {At(m, "adapter", pkt)}
                \/ flying' = flying \union heard
    BY <1>2 DEF Advertise
  <2> DEFINE pkt == Packet(source, Group, <<>>, "discovery", m)
  <2>2. pkt = Packet(source, Group, <<>>, "discovery", m)
    OBVIOUS
  <2> HIDE DEF pkt
  <2>6. source \in Word /\ Group \in Word
    BY Addresses DEF Adapters
  <2>3. WellFormed(pkt) /\ Dest(pkt) = Group /\ pkt.port = "discovery" /\ pkt.world = m
    BY <2>2, <2>6, BuiltPlain
  <2> SUFFICES ASSUME NEW p \in flying', p \notin flying PROVE Traced(p)
    OBVIOUS
  <2>4. /\ p.pkt = pkt /\ p.at \in up
        /\ p.via \in {"listener", "adapter"}
        /\ p.via = "listener" => Segment[p.at] = Segment[m]
        /\ p.via = "adapter" => p.at = m
    BY <2>1 DEF At, pkt
  <2> QED BY <2>3, <2>4
<1>3. ASSUME Send(m) PROVE \A p \in flying' : Traced(p)
  <2>0. m \in nic /\ myVIP[m] \in HostNumber
    BY <1>3 DEF Send
  <2>1. PICK a \in HostNumber \ {myVIP[m]}, options \in {<<>>} \union {<<w>> : w \in Address} :
            flying' = flying \union
                {At(m, "adapter", Packet(Virtual(myVIP[m]), Virtual(a), options, "game", m))}
    BY <1>3 DEF Send
  <2>2. options \in Seq(Word) /\ Len(options) \in Nat
    <3>1. CASE options = <<>>
      BY <3>1, EmptySeq
    <3>2. ASSUME NEW w \in Address, options = <<w>> PROVE options \in Seq(Word)
      BY <3>2, Addresses
    <3> QED BY <3>1, <3>2, LenProperties
  <2> DEFINE pkt == Packet(Virtual(myVIP[m]), Virtual(a), options, "game", m)
  <2>5. pkt = Packet(Virtual(myVIP[m]), Virtual(a), options, "game", m)
    OBVIOUS
  <2> HIDE DEF pkt
  <2>3. pkt \in LanPacket /\ Len(pkt.words) = 5 + Len(options) /\ pkt.port = "game"
    BY <2>0, <2>2, <2>5, Built, Addresses
  <2> SUFFICES ASSUME NEW p \in flying', p \notin flying PROVE Traced(p)
    OBVIOUS
  <2>4. p.at = m /\ p.via = "adapter" /\ p.pkt = pkt
    BY <2>1 DEF At, pkt
  <2> QED BY <2>0, <2>2, <2>3, <2>4
<1> QED
    BY <1>1, <1>2, <1>3 DEF CarriedAsRouted, AdvertisedBySegment, SentAsRouted

\* What an agent puts into its tunnel, if it may.
LEMMA TunnelsKeep ==
    ASSUME LanInv, NEW m \in up, NEW peers \in SUBSET up, m \notin peers, NEW pkt,
           WellFormed(pkt), NEW rest, rest \subseteq flying,
           Tunnels(m, peers, pkt, rest), UNCHANGED <<myVIP, nic, found>>,
           pkt.port = "discovery" =>
              Source(pkt) = Virtual(myVIP[m]) /\ Segment[m] = Segment[pkt.world],
           pkt.port # "discovery" =>
              \A n \in peers :
                /\ IPv4Dst(pkt) = Virtual(myVIP[n])
                /\ Len(pkt.words) = 5 => Dest(pkt) = Virtual(myVIP[n])
    PROVE  LanInv'
<1> USE DEF LanInv, Tunnels
<1>1. sent \subseteq sent'
    OBVIOUS
<1>2. ASSUME NEW p \in flying' PROVE Traced(p)'
  <2>1. CASE p \in rest
    BY <1>1, <2>1 DEF Traced
  <2>2. CASE p \notin rest
    <3>1. PICK n \in peers : p = At(n, "tunnel", pkt)
      BY <2>2
    <3>2. p.at = n /\ p.via = "tunnel" /\ p.pkt = pkt
      BY <3>1 DEF At
    <3>3. \E s \in sent' : s.to = n /\ s.pkt = pkt
      <4>1. [by |-> m, as |-> myVIP[m], to |-> n, of |-> myVIP[n], pkt |-> pkt] \in sent'
        OBVIOUS
      <4> QED BY <4>1
    <3> QED BY <3>2, <3>3 DEF Traced
  <2> QED BY <2>1, <2>2
<1>3. ASSUME NEW s \in sent', s \notin sent
      PROVE  /\ s.by = m /\ s.as = myVIP[m] /\ s.pkt = pkt
             /\ \E n \in peers : s.to = n /\ s.of = myVIP[n]
    BY <1>3
<1>4. \A s \in sent' : s.as \in HostNumber
    BY <1>3
<1>5. CarriedAsRouted'
    BY <1>1, <1>3 DEF CarriedAsRouted, AdvertisedBySegment, SentAsRouted
<1> QED BY <1>2, <1>4, <1>5

\* What it drops.
LEMMA DropsKeep ==
    ASSUME LanInv, NEW rest, rest \subseteq flying, flying' = rest, UNCHANGED <<myVIP, nic, found, sent>>
    PROVE  LanInv'
BY DEF LanInv, Traced, CarriedAsRouted, AdvertisedBySegment, SentAsRouted

\* The listener.
LEMMA ListenKeeps ==
    ASSUME LanInv, NEW p \in flying, Listen(p)
    PROVE  LanInv'
<1>1. Traced(p) /\ p.via = "listener" /\ UNCHANGED <<myVIP, nic, found>>
    BY DEF LanInv, Listen, registryOf
<1>2. CASE Forwards(Source(p.pkt))
  <2> DEFINE out == BuildDiscovery(Virtual(myVIP[p.at]), p.pkt)
  <2>1. Tunnels(p.at, Everyone(p.at), out, flying \ {p})
    BY <1>2 DEF Listen
  <2>2. /\ p.at \in up /\ myVIP[p.at] \in HostNumber
        /\ p.pkt.world \in Machine /\ Segment[p.at] = Segment[p.pkt.world]
    BY <1>1, <1>2 DEF LanInv, Traced, WellFormed, LanPacket, Forwards
  <2>3. /\ WellFormed(out) /\ Source(out) = Virtual(myVIP[p.at])
        /\ out.port = "discovery" /\ out.world = p.pkt.world
    <3>1. out = Packet(Virtual(myVIP[p.at]), Group, <<>>, "discovery", p.pkt.world)
      BY DEF BuildDiscovery
    <3> HIDE DEF out
    <3> QED BY <2>2, <3>1, BuiltPlain, Addresses
  <2>4. Everyone(p.at) \in SUBSET up /\ p.at \notin Everyone(p.at)
    BY DEF Everyone
  <2> HIDE DEF out
  <2> QED BY <1>1, <2>1, <2>2, <2>3, <2>4, TunnelsKeep
<1>3. CASE ~Forwards(Source(p.pkt))
    BY <1>1, <1>3, DropsKeep DEF Listen, Drops
<1> QED BY <1>2, <1>3

\* The adapter.
LEMMA ForwardKeeps ==
    ASSUME LanInv, ListsInv, NEW p \in flying, ForwardFromVnic(p)
    PROVE  LanInv'
<1>1. Traced(p) /\ p.via = "adapter" /\ UNCHANGED <<myVIP, nic, found>>
    BY DEF LanInv, ForwardFromVnic, registryOf
<1>2. /\ p.at \in up /\ myVIP[p.at] \in HostNumber
      /\ p.pkt \in LanPacket /\ Len(p.pkt.words) \in Nat /\ Len(p.pkt.words) >= 5
    BY <1>1, LenProperties DEF LanInv, Traced, WellFormed, LanPacket
<1>3. CASE IsDiscovery(p.pkt) /\ Forwards(IPv4Src(p.pkt))
  <2> DEFINE out == RewriteSource(p.pkt, Virtual(myVIP[p.at]))
  <2>1. Tunnels(p.at, Everyone(p.at), out, flying \ {p})
    BY <1>3 DEF ForwardFromVnic
  <2>2. p.pkt.port = "discovery" /\ Len(p.pkt.words) = 5 /\ p.at = p.pkt.world
    BY <1>1, <1>3 DEF IsDiscovery, Traced, WellFormed
  <2>3. /\ WellFormed(out) /\ Source(out) = Virtual(myVIP[p.at])
        /\ out.port = "discovery" /\ out.world = p.pkt.world
    <3>1. out = [p.pkt EXCEPT !.words[4] = Virtual(myVIP[p.at])]
      BY <2>2 DEF RewriteSource
    <3>2. Virtual(myVIP[p.at]) \in Word /\ 4 \in 1 .. Len(p.pkt.words)
      BY <1>2, <2>2, Addresses
    <3> HIDE DEF out
    <3>3. /\ out \in LanPacket /\ Len(out.words) = Len(p.pkt.words)
          /\ \A j \in 1 .. Len(p.pkt.words) :
                out.words[j] = IF j = 4 THEN Virtual(myVIP[p.at]) ELSE p.pkt.words[j]
          /\ out.port = p.pkt.port /\ out.world = p.pkt.world
      BY <1>2, <3>1, <3>2, Rewritten
    <3> QED BY <2>2, <3>2, <3>3 DEF WellFormed, Source
  <2>4. Everyone(p.at) \in SUBSET up /\ p.at \notin Everyone(p.at)
    BY DEF Everyone
  <2> HIDE DEF out
  <2> QED BY <1>1, <1>2, <2>1, <2>2, <2>3, <2>4, TunnelsKeep
<1>4. CASE IsDiscovery(p.pkt) /\ ~Forwards(IPv4Src(p.pkt))
    BY <1>1, <1>4, DropsKeep DEF ForwardFromVnic, Drops
<1>5. CASE ~IsDiscovery(p.pkt)
  <2>1. Tunnels(p.at, RouteOf(p.at, IPv4Dst(p.pkt)), p.pkt, flying \ {p})
    BY <1>5 DEF ForwardFromVnic
  <2>2. p.pkt.port # "discovery"
    BY <1>1, <1>5 DEF Traced, WellFormed, IsDiscovery, IPv4Dst, Dest
  <2>3. ASSUME NEW n \in RouteOf(p.at, IPv4Dst(p.pkt))
        PROVE  /\ IPv4Dst(p.pkt) = Virtual(myVIP[n])
               /\ Len(p.pkt.words) = 5 => Dest(p.pkt) = Virtual(myVIP[n])
    <3>1. IPv4Dst(p.pkt) = Virtual(myVIP[n])
      BY <1>2, <2>3, RoutedToOwner
    <3> QED BY <3>1 DEF IPv4Dst, Dest
  <2>4. /\ RouteOf(p.at, IPv4Dst(p.pkt)) \in SUBSET up
        /\ p.at \notin RouteOf(p.at, IPv4Dst(p.pkt))
    BY DEF RouteOf
  <2> QED BY <1>1, <1>2, <2>1, <2>2, <2>3, <2>4, TunnelsKeep DEF Traced
<1> QED BY <1>3, <1>4, <1>5

\* The data sink: what it injects keeps the virtual address of the sender.
LEMMA SinkKeeps ==
    ASSUME LanInv, NEW p \in flying, Sink(p)
    PROVE  LanInv'
<1> DEFINE copies == IF IsDiscovery(p.pkt) THEN {p.pkt, RewriteDest(p.pkt, Virtual(myVIP[p.at]))}
                     ELSE {p.pkt}
           heard == IF p.at \in nic THEN UNION {Injected(p.at, c) : c \in copies} ELSE {}
<1>1. /\ p.via = "tunnel" /\ UNCHANGED <<myVIP, nic, sent>>
      /\ flying' = (flying \ {p}) \union heard
      /\ found' = found \union
            {[at |-> p.at, source |-> Source(h.pkt), world |-> h.pkt.world] : h \in heard}
    BY DEF Sink, registryOf
<1>2. Traced(p)
    BY DEF LanInv
<1>3. PICK s \in sent : s.to = p.at /\ s.pkt = p.pkt
    BY <1>1, <1>2 DEF Traced
<1>4. p.pkt.port = "discovery" =>
        Source(p.pkt) = Virtual(s.as)
    BY <1>3 DEF LanInv, CarriedAsRouted, AdvertisedBySegment
<1>5. s.as \in HostNumber /\ p.at \in up /\ myVIP[p.at] \in HostNumber
    BY <1>2, <1>3 DEF LanInv, Traced
<1>6. ASSUME NEW c \in copies, c.port = "discovery"
      PROVE  /\ WellFormed(c) /\ Source(c) = Virtual(s.as)
             /\ c.world = p.pkt.world /\ p.pkt.port = "discovery"
  <2>1. CASE c = p.pkt
    BY <1>2, <1>4, <1>6, <2>1 DEF Traced
  <2>2. CASE IsDiscovery(p.pkt) /\ c = RewriteDest(p.pkt, Virtual(myVIP[p.at]))
    <3>1. p.pkt.port = "discovery" /\ Len(p.pkt.words) = 5 /\ p.pkt \in LanPacket
      BY <1>2, <2>2 DEF IsDiscovery, Traced, WellFormed
    <3>2. c = [p.pkt EXCEPT !.words[5] = Virtual(myVIP[p.at])]
      BY <2>2, <3>1 DEF RewriteDest
    <3>3. Virtual(myVIP[p.at]) \in Word /\ 5 \in 1 .. Len(p.pkt.words) /\ 4 \in 1 .. Len(p.pkt.words)
      BY <1>5, <3>1, Addresses
    <3>4. /\ c \in LanPacket /\ Len(c.words) = Len(p.pkt.words)
          /\ \A j \in 1 .. Len(p.pkt.words) :
                c.words[j] = IF j = 5 THEN Virtual(myVIP[p.at]) ELSE p.pkt.words[j]
          /\ c.port = p.pkt.port /\ c.world = p.pkt.world
      BY <3>1, <3>2, <3>3, Rewritten
    <3> QED BY <1>4, <3>1, <3>3, <3>4 DEF WellFormed, Source
  <2> QED BY <1>6, <2>1, <2>2
<1>7. ASSUME NEW h \in heard
      PROVE  h.at = p.at /\ h.via = "listener" /\ h.pkt \in copies /\ h.pkt.port = "discovery"
  <2>1. PICK c \in copies : h \in Injected(p.at, c)
    BY <1>7
  <2>2. h = At(p.at, "listener", c) /\ c.port = "discovery"
    BY <2>1 DEF Injected
  <2> HIDE DEF copies
  <2>3. h.at = p.at /\ h.via = "listener" /\ h.pkt = c
    BY <2>2 DEF At
  <2> QED BY <2>2, <2>3
<1> HIDE DEF heard, copies
<1>8. ASSUME NEW h \in heard PROVE Traced(h)'
    BY <1>1, <1>5, <1>6, <1>7, Addresses DEF Traced
<1>9. \A q \in flying' : Traced(q)'
    BY <1>1, <1>8 DEF LanInv, Traced
<1>10. ASSUME NEW f \in found', f \notin found
       PROVE  /\ s.to = f.at /\ s.pkt.port = "discovery"
              /\ f.source = Virtual(s.as) /\ f.world = s.pkt.world
  <2>1. PICK h \in heard : f = [at |-> p.at, source |-> Source(h.pkt), world |-> h.pkt.world]
    BY <1>1, <1>10
  <2> QED BY <1>3, <1>6, <1>7, <2>1
<1>11. CarriedAsRouted'
    BY <1>1, <1>3, <1>10 DEF LanInv, CarriedAsRouted, AdvertisedBySegment, SentAsRouted
<1> QED BY <1>1, <1>9, <1>11 DEF LanInv

\* Every step of games, agents and tunnels keeps the invariant.
LEMMA LanStep == LanInv /\ ListsInv /\ [LanNext]_lanVars => LanInv'
<1> SUFFICES ASSUME LanInv, ListsInv, [LanNext]_lanVars PROVE LanInv'
    OBVIOUS
<1> USE DEF LanInv, Traced, CarriedAsRouted, AdvertisedBySegment, SentAsRouted
<1>1. ASSUME NEW m \in Machine, Registers(m) PROVE LanInv'
  <2>1. PICK a \in HostNumber \ Range(myVIP) :
            myVIP' = [n \in up \union {m} |-> IF n = m THEN a ELSE myVIP[n]]
    BY <1>1 DEF Registers
  <2>2. \A n \in up : myVIP[n] # a
    BY <2>1 DEF Range
  <2>3. /\ up' = up \union {m} /\ m \notin up
        /\ myVIP'[m] = a /\ \A n \in up : myVIP'[n] = myVIP[n]
    BY <1>1, <2>1 DEF Registers
  <2>4. myVIP' \in [up' -> HostNumber]
    BY <2>1, <2>3
  <2>5. \A n, o \in up' : myVIP'[n] = myVIP'[o] => n = o
    BY <2>2, <2>3
  <2> QED BY <1>1, <2>3, <2>4, <2>5 DEF Registers
<1>2. ASSUME NEW m \in Machine, OpensAdapter(m) \/ AutoConnects(m) PROVE LanInv'
    BY <1>2 DEF OpensAdapter, AutoConnects, registryOf
<1>5. ASSUME NEW m \in Machine, Ends(m) PROVE LanInv'
  <2>1. /\ up' = up \ {m} /\ \A n \in up' : myVIP'[n] = myVIP[n]
        /\ myVIP' \in [up' -> HostNumber]
    BY <1>5 DEF Ends, Restrict
  <2>2. up' \subseteq Machine /\ nic' \subseteq up'
    BY <1>5, <2>1 DEF Ends
  <2>3. \A n, o \in up' : myVIP'[n] = myVIP'[o] => n = o
    BY <2>1
  <2>4. \A p \in flying' : p \in flying /\ p.at \in up'
    BY <1>5, <2>1 DEF Ends
  <2>5. UNCHANGED <<sent, found>>
    BY <1>5 DEF Ends
  <2> HIDE DEF up
  <2> QED BY <2>1, <2>2, <2>3, <2>4, <2>5
<1>3. ASSUME NEW p \in flying, Lose(p) PROVE LanInv'
    BY <1>3, DropsKeep DEF Lose, registryOf
<1>4. CASE UNCHANGED lanVars
    BY <1>4 DEF lanVars
<1> QED
    BY <1>1, <1>2, <1>3, <1>4, <1>5, Sends, ListenKeeps, ForwardKeeps, SinkKeeps DEF LanNext

\* Every advertisement is sent by a machine of the segment it was heard on,
\* under that machine's own address, and comes out as such; every other packet
\* goes to whoever has the address the agent routed it by, which is where it is
\* addressed to unless it has IP options (forwardFromVnic, forwardDiscovery, the
\* loop guard), for any machines on any segments and lists of any age.
THEOREM PacketsAreCarriedAsRouted == LanSpec => []CarriedAsRouted
<1>1. LanInit => LanInv /\ ListsInv
    BY DEF LanInit, LanInv, ListsInv, CarriedAsRouted, AdvertisedBySegment, SentAsRouted
<1>2. LanInv => CarriedAsRouted
    BY DEF LanInv
<1> QED
    BY <1>1, <1>2, LanStep, ListsStep, PTL DEF LanSpec
=============================================================================
