------------------------------ MODULE Registry ------------------------------
(***************************************************************************)
(* The coordination server's registry (internal/server/registry.go) and    *)
(* its rooms (internal/server/rooms.go).  Every exported method of         *)
(* *Registry takes r.mu for its whole body, so one method is one action.   *)
(*                                                                         *)
(* A connection is named by its registration number Client.Seq; the random *)
(* 8-byte Client.ID the code draws beside it is abstracted to it.  A       *)
(* fingerprint (KeyFP) is a model value.  Go's nil/"" results are the      *)
(* sentinels 0 (no connection), NoRoom and NoFP.                           *)
(*                                                                         *)
(* A definition that stands directly before another one with the same      *)
(* parameters and that nothing uses is a faulty variant of it: put in its  *)
(* place, it must make a property fail (the mutants of PROJECT.json).      *)
(***************************************************************************)
EXTENDS Naturals, Functions

CONSTANTS
    FP,        \* client fingerprints
    Code,      \* room codes newRoomCode can draw
    FirstIP,   \* host part of the first virtual address (firstClientIP)
    LastIP,    \* host part of the last one (254)
    NoRoom,    \* the "" that inRoom yields for a client outside rooms
    NoFP,      \* the "" that oldestMemberLocked yields
    Overlap,   \* may a fingerprint register while an older connection of it
               \* is still registered (the server has not noticed its end)?
    MaxSeq     \* bound on registrations

ASSUME IPAssumption == FirstIP \in Nat /\ LastIP \in Nat /\ FirstIP <= LastIP
ASSUME SentinelAssumption == NoRoom \notin Code /\ NoFP \notin FP
ASSUME BoundAssumption == MaxSeq \in Nat /\ Overlap \in BOOLEAN

VARIABLES
    clients,   \* clients: connection -> [fp, vip, ep]
    byFP,      \* byFP: fingerprint -> connection, 0 when absent
    nextIP,    \* where allocVirtualIP starts looking
    seq,       \* registrations so far
    rooms,     \* codes present in the rooms map
    members,   \* Room.Members of every code
    host,      \* Room.Host of every code
    inRoom     \* inRoom: fingerprint -> code, NoRoom when absent

clientVars == <<clients, byFP, nextIP, seq>>
roomVars == <<rooms, members, host, inRoom>>
registryVars == <<clientVars, roomVars>>

IP == FirstIP .. LastIP
Live == DOMAIN clients

\* What the last report_endpoint said: "public" carries a STUN-mapped address
\* (PublicIP and a public candidate), "lan" only candidates of local
\* interfaces, "none" no candidate; a client starts as "none".
Endpoint == {"none", "lan", "public"}

Connection == [fp : FP, vip : IP, ep : Endpoint]

Init ==
    /\ clients = << >>
    /\ byFP = [fp \in FP |-> 0]
    /\ nextIP = FirstIP
    /\ seq = 0
    /\ rooms = {}
    /\ members = [c \in Code |-> {}]
    /\ host = [c \in Code |-> NoFP]
    /\ inRoom = [fp \in FP |-> NoRoom]

-----------------------------------------------------------------------------
(* Registration                                                            *)

UnprobedFreeIP == IP
FreeIP == {a \in IP : \A id \in Live : clients[id].vip # a}

\* allocVirtualIP walks from nextIP to the end of the subnet and wraps.
ProbedBefore(a, b) ==
    IF (a >= nextIP) = (b >= nextIP) THEN a < b ELSE a >= nextIP

\* The address the walk returns; there is none when the network is full.
Allocates(a) ==
    /\ a \in FreeIP
    /\ \A b \in FreeIP \ {a} : ProbedBefore(a, b)

NextUnwrapped(a) == a + 1
NextAfter(a) == IF a = LastIP THEN FirstIP ELSE a + 1

\* The byFP entry of a fingerprint once it registered, and once it ended.
Point(fp) == [byFP EXCEPT ![fp] = seq + 1]
ForgetNothing(fp) == byFP
Forget(fp) == [byFP EXCEPT ![fp] = 0]

\* Add.  With no free address it fails after a whole turn of nextIP, which
\* leaves the registry as it was.
Add(fp) ==
    /\ seq < MaxSeq
    /\ \E a \in IP :
        /\ Allocates(a)
        /\ nextIP' = NextAfter(a)
        /\ clients' = [i \in Live \union {seq + 1} |->
                IF i = seq + 1 THEN [fp |-> fp, vip |-> a, ep |-> "none"]
                               ELSE clients[i]]
    /\ seq' = seq + 1
    /\ byFP' = Point(fp)
    /\ UNCHANGED roomVars

UpdateEndpoint(id, ep) ==
    /\ clients' = [clients EXCEPT ![id].ep = ep]
    /\ UNCHANGED <<byFP, nextIP, seq, roomVars>>

-----------------------------------------------------------------------------
(* Rooms                                                                   *)

ResolvedMembers(code) == {fp \in members[code] : byFP[fp] # 0}

NoSuccessor(code, fp) == {NoFP}
YoungestSuccessors(code, fp) ==
    LET online == ResolvedMembers(code) \ {fp}
    IN  IF online = {} THEN {NoFP}
        ELSE {heir \in online : \A g \in online : byFP[heir] >= byFP[g]}

\* oldestMemberLocked once fp has gone: the successor is the member whose
\* client registered first, NoFP when byFP resolves none of those that remain.
Successors(code, fp) ==
    LET online == ResolvedMembers(code) \ {fp}
    IN  IF online = {} THEN {NoFP}
        ELSE {heir \in online : \A g \in online : byFP[heir] <= byFP[g]}

AnyDeparture(code, fp) == TRUE
NoDeparture(code, fp) == FALSE
LosesHost(code, fp) == host[code] = fp

\* removeFromRoomLocked for a fingerprint that is in a room.  A room that
\* empties is deleted, one that loses its host is given a successor.
DropMember(fp) ==
    LET code == inRoom[fp]
    IN  /\ members' = [members EXCEPT ![code] = @ \ {fp}]
        /\ inRoom' = [inRoom EXCEPT ![fp] = NoRoom]
        /\ rooms' = IF members[code] = {fp} THEN rooms \ {code} ELSE rooms
        /\ IF LosesHost(code, fp)
           THEN \E heir \in Successors(code, fp) :
                    host' = [host EXCEPT ![code] = heir]
           ELSE UNCHANGED host

MayEnterAnother(fp) == TRUE
MayEnter(fp) == inRoom[fp] = NoRoom

CreateRoom(fp, code) ==
    /\ MayEnter(fp)
    /\ code \notin rooms
    /\ rooms' = rooms \union {code}
    /\ members' = [members EXCEPT ![code] = {fp}]
    /\ host' = [host EXCEPT ![code] = fp]
    /\ inRoom' = [inRoom EXCEPT ![fp] = code]
    /\ UNCHANGED clientVars

JoinRoom(fp, code) ==
    /\ MayEnter(fp)
    /\ code \in rooms
    /\ members' = [members EXCEPT ![code] = @ \union {fp}]
    /\ inRoom' = [inRoom EXCEPT ![fp] = code]
    /\ UNCHANGED <<rooms, host, clientVars>>

LeaveRoom(fp) ==
    /\ inRoom[fp] # NoRoom
    /\ DropMember(fp)
    /\ UNCHANGED clientVars

RemoveKeepsMembership(id) ==
    /\ clients' = Restrict(clients, Live \ {id})
    /\ byFP' = Forget(clients[id].fp)
    /\ UNCHANGED <<nextIP, seq, roomVars>>

\* Remove drops the connection, the byFP entry of its fingerprint, whichever
\* connection that entry points to, and the fingerprint's room membership.
Remove(id) ==
    LET fp == clients[id].fp
    IN  /\ clients' = Restrict(clients, Live \ {id})
        /\ byFP' = Forget(fp)
        /\ IF inRoom[fp] = NoRoom THEN UNCHANGED roomVars ELSE DropMember(fp)
        /\ UNCHANGED <<nextIP, seq>>

-----------------------------------------------------------------------------
(* Reading operations the handlers use                                     *)

\* The handlers hold on to Client values, so the operations below take the
\* fingerprint beside the connection, which may have been removed meanwhile.
VisiblePeers(id, fp) ==
    IF inRoom[fp] = NoRoom THEN {}
    ELSE {p \in Live \ {id} : inRoom[clients[p].fp] = inRoom[fp]}

VisibleTo(src, srcFP, dst, dstFP) ==
    /\ src # dst
    /\ inRoom[srcFP] # NoRoom
    /\ inRoom[dstFP] = inRoom[srcFP]

-----------------------------------------------------------------------------
(* Each connection's handler calls the registry in any order until it      *)
(* removes the connection.                                                 *)

MayRegister(fp) == Overlap \/ \A id \in Live : clients[id].fp # fp

Next ==
    \/ \E fp \in FP : MayRegister(fp) /\ Add(fp)
    \/ \E id \in Live :
        \/ Remove(id)
        \/ LeaveRoom(clients[id].fp)
        \/ \E ep \in Endpoint : UpdateEndpoint(id, ep)
        \/ \E c \in Code : \/ CreateRoom(clients[id].fp, c)
                           \/ JoinRoom(clients[id].fp, c)

Spec == Init /\ [][Next]_registryVars

-----------------------------------------------------------------------------
(* Properties that hold however connections overlap.                       *)

TypeOK ==
    /\ seq \in 0 .. MaxSeq
    /\ Live \subseteq 1 .. seq
    /\ clients \in [Live -> Connection]
    /\ byFP \in [FP -> Nat]
    /\ nextIP \in IP
    /\ rooms \subseteq Code
    /\ members \in [Code -> SUBSET FP]
    /\ host \in [Code -> FP \union {NoFP}]
    /\ inRoom \in [FP -> Code \union {NoRoom}]

\* Two registered clients never share a virtual address, although addresses
\* are reused as soon as a client is removed and the search wraps around
\* (allocVirtualIP, ipTaken).
UniqueVirtualIP ==
    \A i, j \in Live : clients[i].vip = clients[j].vip => i = j

\* The two maps that record membership, inRoom and Room.Members, agree, so a
\* fingerprint is in at most one room; and a room exists exactly as long as
\* it has members (CreateRoom, JoinRoom, removeFromRoomLocked).
RoomsConsistent ==
    /\ \A fp \in FP, c \in Code : fp \in members[c] <=> inRoom[fp] = c
    /\ \A c \in Code : c \in rooms <=> members[c] # {}

\* ClientByFP never yields a removed client, nor another fingerprint's one:
\* notifyRoom never writes to a dead registration.
ByFPSound ==
    \A fp \in FP : byFP[fp] # 0 => /\ byFP[fp] \in Live
                                   /\ clients[byFP[fp]].fp = fp

\* A room's host changes only in the step in which that host leaves the room,
\* never because of a join, another member's end or a re-registration.
HostChangesOnlyOnDeparture ==
    [][\A c \in rooms \intersect rooms' :
            host'[c] # host[c] => host[c] \notin members'[c]]_registryVars

-----------------------------------------------------------------------------
(* Properties that hold when a fingerprint registers again only after its  *)
(* previous connection was removed (~Overlap).                             *)

\* ClientByFP "returns the online client with the given fingerprint (nil if
\* offline)" (registry.go:212-213): it finds every registered connection.
ByFPComplete == \A id \in Live : byFP[clients[id].fp] = id

\* So the index is exact, however often a client came back: Add and Remove
\* keep it in step with the map of connections (registry.go:103-105, 117).
ByFPExact == ByFPSound /\ ByFPComplete

\* Where connections do overlap, ClientByFP must still find a client that is
\* online (registry.go:212-213), through one of its connections.  It does not:
\* Remove deletes the entry of the fingerprint, whosever it is.
OnlineIsFound == \A id \in Live : byFP[clients[id].fp] # 0

\* Every fingerprint in a room resolves to a live client, so member lists
\* and room_update reach all members (roomMembersLocked, rooms.go:143-145).
MembersResolve == \A c \in rooms : ResolvedMembers(c) = members[c]

\* Every room has a host, the host is one of its members, and the address
\* clients show for it belongs to a live connection (rooms.go:71-75, 96-97).
HostOnline == \A c \in rooms : host[c] \in ResolvedMembers(c)

\* What clients are shown of a room is there: its members are all connected,
\* and so is its host.
MembersOnline == MembersResolve /\ HostOnline

\* When the host departs, its successor is the remaining member whose live
\* connection registered first (rooms.go:94-95).
SuccessorIsLongestRegistered ==
    [][\A c \in rooms \intersect rooms' : host'[c] # host[c] =>
            \E i \in Live' :
                /\ clients'[i].fp = host'[c]
                /\ \A j \in Live' : clients'[j].fp \in members'[c] => i <= j
      ]_registryVars

-----------------------------------------------------------------------------
(* The registry implements RoomService when connections do not overlap: a  *)
(* user is online while a connection of it is registered.                  *)

OnlineUsers == {clients[id].fp : id \in Live}

Service == INSTANCE RoomService WITH
    online <- OnlineUsers, roomOf <- inRoom, hostOf <- host

ServiceSpec == Service!Spec
=============================================================================
