------------------------------ MODULE VirtualLan ------------------------------
(***************************************************************************)
(* The data plane of the agents: how the advertisements of Minecraft's     *)
(* "Open to LAN" and ordinary packets travel between the machines of a     *)
(* room (internal/lan/lan.go, forwardFromVnic, forwardDiscovery and the    *)
(* data sink of internal/agent/agent.go).                                  *)
(*                                                                         *)
(* A packet's IPv4 header is a sequence of 32-bit words: five of them, or  *)
(* more when it carries options; the source is always the fourth and the   *)
(* destination the fifth.  Checksums and payloads are left out.  Of        *)
(* Windows this models which sockets and adapters see a packet.            *)
(*                                                                         *)
(* An agent that loses the server ends, and the application makes another, *)
(* which registers under another address, perhaps one that was a peer's.   *)
(* Run closes the sockets only: adapter and listener stay, with goroutines *)
(* that send into a closed socket.                                         *)
(*                                                                         *)
(* A definition nothing uses, before another with the same parameters, is  *)
(* a faulty variant of it (the mutants of PROJECT.json).                   *)
(***************************************************************************)
EXTENDS Naturals, Sequences, Functions

CONSTANTS
    Machine,
    HostNumber,  \* last bytes of virtual addresses
    Segment,     \* Segment[m]: the physical LAN machine m is on
    MaxPackets,  \* bound on what the games send
    MaxAgents    \* bound on agents that register

ASSUME VirtualLanAssumption == MaxPackets \in Nat /\ MaxAgents \in Nat

VARIABLES
    myVIP,    \* the addresses of machines whose agent is registered
    myID,     \* the connections these agents have registered with
    lists,    \* who was registered, as of any time: the peers lists written
    behind,   \* a.routes of each: the connections behind the addresses
    nic,      \* machines whose agent has opened its adapter
    orphans,  \* adapters ended agents have left open: <<machine, its address>>
    flying,   \* packets under way: [at, via, pkt]
    found,    \* advertisements games have received: [at, source, world]
    sent,     \* history: packets put into a tunnel: [by, as, to, of, pkt]
    packets,  \* packets games have sent
    agents    \* agents that have registered

lanVars == <<myVIP, myID, lists, behind, nic, orphans, flying, found, sent, packets, agents>>

registryOf == <<myVIP, myID, lists>>

up == DOMAIN myVIP

-----------------------------------------------------------------------------
(* Addresses and headers: lan.go                                           *)

Virtual(a) == <<"virtual", a>>
Physical(m) == <<"physical", m>>
Group == <<"group">>
Blank == <<"blank">>
Address ==
    {Group} \union {Virtual(a) : a \in HostNumber} \union {Physical(m) : m \in Machine}

\* world: the machine whose world is advertised, or whose game sends.
Packet(source, dest, options, port, world) ==
    [words |-> <<Blank, Blank, Blank, source, dest>> \o options, port |-> port, world |-> world]

Source(pkt) == pkt.words[4]
Dest(pkt) == pkt.words[5]

IPv4Src(pkt) == pkt.words[Len(pkt.words) - 1]
IPv4Dst(pkt) == pkt.words[Len(pkt.words)]
RewriteSource(pkt, a) == [pkt EXCEPT !.words[Len(pkt.words) - 1] = a]
RewriteDest(pkt, a) == [pkt EXCEPT !.words[Len(pkt.words)] = a]
BuildDiscovery(a, pkt) == Packet(a, Group, <<>>, "discovery", pkt.world)

IsDiscovery(pkt) == pkt.port = "discovery" /\ IPv4Dst(pkt) = Group
InVirtualSubnet(a) == a[1] = "virtual"

-----------------------------------------------------------------------------
LanInit ==
    /\ myVIP = << >> /\ myID = << >> /\ lists = {} /\ behind = << >>
    /\ nic = {}
    /\ orphans = {}
    /\ flying = {}
    /\ found = {}
    /\ sent = {}
    /\ packets = 0 /\ agents = 0

\* Who is registered, as the server's lists tell.
Present == {[vip |-> Virtual(myVIP[n]), id |-> myID[n]] : n \in up}

\* onRegistered: the tunnel and the listener, then the adapter, if it opens.
Registers(m) ==
    /\ m \notin up /\ agents < MaxAgents
    /\ agents' = agents + 1
    /\ \E a \in HostNumber \ Range(myVIP) :
        myVIP' = [n \in up \union {m} |-> IF n = m THEN a ELSE myVIP[n]]
    /\ myID' = [n \in up \union {m} |-> IF n = m THEN agents' ELSE myID[n]]
    /\ behind' = [n \in up \union {m} |-> IF n = m THEN {} ELSE behind[n]]
    /\ lists' = lists \union {Present'}
    /\ UNCHANGED <<nic, orphans, flying, found, sent, packets>>

OpensAdapter(m) ==
    /\ m \in up \ nic
    /\ nic' = nic \union {m}
    /\ UNCHANGED <<registryOf, behind, orphans, flying, found, sent, packets, agents>>

\* autoConnect, with the peers of the registered reply or of a later list: it
\* may have been under way for long, and come after one written later.
AutoConnects(m) ==
    /\ m \in up
    /\ LET own == [vip |-> Virtual(myVIP[m]), id |-> myID[m]]
       IN  \E list \in lists :
            own \in list /\ behind' = [behind EXCEPT ![m] = list \ {own}]
    /\ UNCHANGED <<registryOf, nic, orphans, flying, found, sent, packets, agents>>

\* Run closes both sockets and returns.  What its goroutines still hear and
\* read goes into a closed socket, and what is on its way to it is lost.
Ends(m) ==
    /\ m \in up /\ agents < MaxAgents
    /\ myVIP' = Restrict(myVIP, up \ {m})
    /\ myID' = Restrict(myID, up \ {m})
    /\ behind' = Restrict(behind, up \ {m})
    /\ lists' = lists \union {Present'}
    /\ nic' = nic \ {m}
    /\ orphans' = orphans \union (IF m \in nic THEN {<<m, myVIP[m]>>} ELSE {})
    /\ flying' = {p \in flying : p.at # m}
    /\ UNCHANGED <<found, sent, packets, agents>>

At(m, via, pkt) == [at |-> m, via |-> via, pkt |-> pkt]

Adapters(m) ==
    {a \in HostNumber : <<m, a>> \in orphans \/ (m \in nic /\ a = myVIP[m])}

\* The game of m advertises its world.  Windows sends it out of one interface,
\* from that interface's address or from the one the game is bound to; the
\* listeners of that segment's machines, m among them, hear it, and if the
\* interface is an adapter, m's listener and its reader.
Advertise(m) ==
    \E source \in {Physical(m)} \union {Virtual(a) : a \in Adapters(m)} :
        LET pkt == Packet(source, Group, <<>>, "discovery", m)
            heard == {At(n, "listener", pkt) : n \in up \intersect {m}}
        IN  /\ packets < MaxPackets
            /\ \/ flying' = flying \union
                     {At(n, "listener", pkt) : n \in {n \in up : Segment[n] = Segment[m]}}
               \/ m \in nic /\ flying' = flying \union heard \union {At(m, "adapter", pkt)}
               \/ (\E a \in HostNumber : <<m, a>> \in orphans) /\ flying' = flying \union heard
            /\ packets' = packets + 1
            /\ UNCHANGED <<registryOf, behind, nic, orphans, found, sent, agents>>

\* A game, or any program, sends to a peer's virtual address; the peer's /32
\* route takes the packet to the adapter.  Options may hold any word.
Send(m) ==
    /\ m \in nic
    /\ packets < MaxPackets
    /\ packets' = packets + 1
    /\ \E a \in HostNumber \ {myVIP[m]}, options \in {<<>>} \union {<<w>> : w \in Address} :
        flying' = flying \union
            {At(m, "adapter", Packet(Virtual(myVIP[m]), Virtual(a), options, "game", m))}
    /\ UNCHANGED <<registryOf, behind, nic, orphans, found, sent, agents>>

\* SendData, SendDataBroadcast: to peers that are connected.
Tunnels(m, peers, pkt, rest) ==
    /\ flying' = rest \union {At(n, "tunnel", pkt) : n \in peers}
    /\ sent' = sent \union
           {[by |-> m, as |-> myVIP[m], to |-> n, of |-> myVIP[n], pkt |-> pkt] : n \in peers}

Drops(rest) == flying' = rest /\ UNCHANGED sent

Echoes(source) == TRUE
Forwards(source) == ~InVirtualSubnet(source)

Everyone(m) == up \ {m}

\* forwardDiscovery(true, ...): the listener gets the payload and the source.
Listen(p) ==
    /\ p.via = "listener"
    /\ IF Forwards(Source(p.pkt))
       THEN Tunnels(p.at, Everyone(p.at), BuildDiscovery(Virtual(myVIP[p.at]), p.pkt),
                    flying \ {p})
       ELSE Drops(flying \ {p})
    /\ UNCHANGED <<registryOf, behind, nic, orphans, found, packets, agents>>

\* The routes of a list name a peer by its connection.  Data for one that has
\* ended goes to a closed socket, whoever has its address now.
RouteOf(m, dest) == {n \in up \ {m} : [vip |-> dest, id |-> myID[n]] \in behind[m]}

\* forwardFromVnic.
ForwardFromVnic(p) ==
    /\ p.via = "adapter"
    /\ CASE IsDiscovery(p.pkt) /\ Forwards(IPv4Src(p.pkt)) ->
               Tunnels(p.at, Everyone(p.at), RewriteSource(p.pkt, Virtual(myVIP[p.at])),
                       flying \ {p})
         [] IsDiscovery(p.pkt) /\ ~Forwards(IPv4Src(p.pkt)) -> Drops(flying \ {p})
         [] OTHER -> Tunnels(p.at, RouteOf(p.at, IPv4Dst(p.pkt)), p.pkt, flying \ {p})
    /\ UNCHANGED <<registryOf, behind, nic, orphans, found, packets, agents>>

\* Windows passes a packet written to the adapter on to the sockets it is for:
\* the discovery group or port is the game's and the listener's.
Injected(m, pkt) ==
    IF pkt.port = "discovery" /\ Dest(pkt) \in {Group, Virtual(myVIP[m])}
    THEN {At(m, "listener", pkt)} ELSE {}

\* The data sink.  An advertisement is written twice.
Sink(p) ==
    /\ p.via = "tunnel"
    /\ LET copies == IF IsDiscovery(p.pkt) THEN {p.pkt, RewriteDest(p.pkt, Virtual(myVIP[p.at]))}
                     ELSE {p.pkt}
           heard == IF p.at \in nic THEN UNION {Injected(p.at, c) : c \in copies} ELSE {}
       IN  /\ flying' = (flying \ {p}) \union heard
           /\ found' = found \union
                  {[at |-> p.at, source |-> Source(h.pkt), world |-> h.pkt.world] : h \in heard}
    /\ UNCHANGED <<registryOf, behind, nic, orphans, sent, packets, agents>>

\* The tunnel is UDP.
Lose(p) ==
    /\ p.via = "tunnel"
    /\ flying' = flying \ {p}
    /\ UNCHANGED <<registryOf, behind, nic, orphans, found, sent, packets, agents>>

LanNext ==
    \/ \E m \in Machine :
        Registers(m) \/ OpensAdapter(m) \/ AutoConnects(m) \/ Ends(m) \/ Advertise(m) \/ Send(m)
    \/ \E p \in flying : Listen(p) \/ ForwardFromVnic(p) \/ Sink(p) \/ Lose(p)

LanSpec == LanInit /\ [][LanNext]_lanVars

-----------------------------------------------------------------------------
(* Properties                                                              *)

\* A world is advertised across the tunnel only under the address its machine
\* then has, only by a machine that heard it on its own segment, and only to
\* others: what came through the tunnel never returns to it, however listener,
\* adapters, the two copies of the data sink, and those that ended agents left
\* behind hand it round (loop guard, lan.go:25-27).  A game sees the address
\* of such a machine, never one of its own.
\*
\* The advertising machine is the world's own only if no two machines share a
\* physical LAN.  Where they do, the listener hears its neighbours' games too
\* and offers them under its own address, at which nobody plays; lan.go:48-50
\* says that it receives what is "sent from the local machine".
AdvertisedBySegment ==
    /\ \A s \in sent : s.pkt.port = "discovery" =>
        /\ Source(s.pkt) = Virtual(s.as) /\ s.as # s.of
        /\ Segment[s.by] = Segment[s.pkt.world]
    /\ \A f \in found : \E s \in sent :
        /\ s.to = f.at /\ s.pkt.port = "discovery"
        /\ f.source = Virtual(s.as) /\ f.world = s.pkt.world

\* Any other packet goes to the machine that has the address it is routed by,
\* however old the list is that the route was taken from: one that reconnected
\* elsewhere is never sent what its old address is sent.  That address is the
\* packet's destination unless it carries options: IPv4Dst, which returns "the
\* destination address" (lan.go:131), then takes the last of the options.
SentAsRouted ==
    \A s \in sent : s.pkt.port # "discovery" =>
        /\ IPv4Dst(s.pkt) = Virtual(s.of)
        /\ Len(s.pkt.words) = 5 => Dest(s.pkt) = Virtual(s.of)

\* What crosses the tunnel goes where its advertisement or its route says.
CarriedAsRouted == AdvertisedBySegment /\ SentAsRouted
=============================================================================
