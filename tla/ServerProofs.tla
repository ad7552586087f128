---------------------------- MODULE ServerProofs ----------------------------
(***************************************************************************)
(* Invariance proofs for Registry and for the handlers of Server, for any  *)
(* sets of fingerprints and codes, any address pool, any number of         *)
(* registrations and of requests.                                          *)
(*                                                                         *)
(* Registry: RegistryInv holds however connections overlap, SerialInv and  *)
(* the refinement of RoomService when they do not.                         *)
(* Handlers: HandlerInv and PunchInv hold however connections overlap; the *)
(* server's steps are then steps of Registry.  ServiceInv says that what a *)
(* client has not been told yet is still in some handler's list of         *)
(* operations; it needs connections that do not overlap.                   *)
(***************************************************************************)
EXTENDS Server, FiniteSetTheorems, TLAPS


\* The part of the state a registration changes, as plain facts.
LEMMA AddShape ==
    ASSUME TypeOK, NEW fp \in FP, Add(fp)
    PROVE  \E a \in FreeIP :
             /\ Live' = Live \union {seq + 1}
             /\ seq + 1 \notin Live
             /\ clients'[seq + 1] = [fp |-> fp, vip |-> a, ep |-> "none"]
             /\ \A i \in Live : clients'[i] = clients[i]
             /\ seq' = seq + 1
             /\ nextIP' \in IP
             /\ byFP' = [byFP EXCEPT ![fp] = seq + 1]
<1>1. PICK a \in IP :
        /\ Allocates(a)
        /\ nextIP' = IF a = LastIP THEN FirstIP ELSE a + 1
        /\ clients' = [i \in Live \union {seq + 1} |->
                IF i = seq + 1 THEN [fp |-> fp, vip |-> a, ep |-> "none"]
                               ELSE clients[i]]
    BY DEF Add, NextAfter, Point
<1>2. seq + 1 \notin Live
    BY DEF TypeOK
<1>3. Live' = Live \union {seq + 1}
    BY <1>1 DEF Live
<1>4. /\ clients'[seq + 1] = [fp |-> fp, vip |-> a, ep |-> "none"]
      /\ \A i \in Live : clients'[i] = clients[i]
    BY <1>1, <1>2 DEF Live
<1>5. nextIP' \in IP
    BY <1>1, IPAssumption DEF IP
<1>6. a \in FreeIP
    BY <1>1 DEF Allocates
<1> QED
    BY <1>2, <1>3, <1>4, <1>5, <1>6 DEF Add, Point

\* What removing a member of a room does to the room variables.
LEMMA DropShape ==
    ASSUME TypeOK, RoomsConsistent, NEW fp \in FP, inRoom[fp] # NoRoom,
           DropMember(fp)
    PROVE  /\ inRoom[fp] \in rooms
           /\ rooms' \subseteq rooms
           /\ members' = [members EXCEPT ![inRoom[fp]] = @ \ {fp}]
           /\ inRoom' = [inRoom EXCEPT ![fp] = NoRoom]
           /\ members' \in [Code -> SUBSET FP]
           /\ inRoom' \in [FP -> Code \union {NoRoom}]
           /\ host' \in [Code -> FP \union {NoFP}]
           /\ RoomsConsistent'
<1>1. /\ inRoom[fp] \in Code
      /\ fp \in members[inRoom[fp]]
      /\ inRoom[fp] \in rooms
    BY DEF TypeOK, RoomsConsistent
<1>2. /\ members' = [members EXCEPT ![inRoom[fp]] = @ \ {fp}]
      /\ inRoom' = [inRoom EXCEPT ![fp] = NoRoom]
      /\ rooms' = IF members[inRoom[fp]] = {fp} THEN rooms \ {inRoom[fp]}
                                                ELSE rooms
    BY DEF DropMember
<1>3. host' \in [Code -> FP \union {NoFP}]
  <2>1. CASE host[inRoom[fp]] = fp
    <3>1. PICK heir \in Successors(inRoom[fp], fp) :
            host' = [host EXCEPT ![inRoom[fp]] = heir]
        BY <2>1 DEF DropMember, LosesHost
    <3>2. heir \in FP \union {NoFP}
        BY <1>1 DEF Successors, ResolvedMembers, TypeOK
    <3> QED
        BY <3>1, <3>2 DEF TypeOK
  <2>2. CASE host[inRoom[fp]] # fp
    BY <2>2 DEF DropMember, LosesHost, TypeOK
  <2> QED
    BY <2>1, <2>2
<1>4. /\ members' \in [Code -> SUBSET FP]
      /\ inRoom' \in [FP -> Code \union {NoRoom}]
    BY <1>1, <1>2 DEF TypeOK
<1>5. ASSUME NEW g \in FP, NEW c \in Code
      PROVE  g \in members'[c] <=> inRoom'[g] = c
    BY <1>1, <1>2, SentinelAssumption DEF TypeOK, RoomsConsistent
<1>6. ASSUME NEW c \in Code
      PROVE  c \in rooms' <=> members'[c] # {}
    BY <1>1, <1>2 DEF TypeOK, RoomsConsistent
<1> QED
    BY <1>1, <1>2, <1>3, <1>4, <1>5, <1>6 DEF RoomsConsistent

-----------------------------------------------------------------------------
(* The invariant that holds however connections overlap.                   *)

RegistryInv ==
    /\ TypeOK
    /\ UniqueVirtualIP
    /\ RoomsConsistent
    /\ ByFPSound

\* The registry NewRegistry makes satisfies the invariant.
LEMMA InitRegistryInv == Init => RegistryInv
BY IPAssumption, SentinelAssumption, BoundAssumption
   DEF Init, RegistryInv, TypeOK, UniqueVirtualIP, RoomsConsistent, ByFPSound,
       Live, Connection, IP

\* Add keeps the invariant: the address it allocates is free, and the entry it
\* writes to byFP points to the connection it adds.
LEMMA AddRegistryInv ==
    ASSUME RegistryInv, NEW fp \in FP, Add(fp)
    PROVE  RegistryInv'
<1> USE DEF RegistryInv
<1>1. PICK a \in FreeIP :
        /\ Live' = Live \union {seq + 1}
        /\ seq + 1 \notin Live
        /\ clients'[seq + 1] = [fp |-> fp, vip |-> a, ep |-> "none"]
        /\ \A i \in Live : clients'[i] = clients[i]
        /\ seq' = seq + 1
        /\ nextIP' \in IP
        /\ byFP' = [byFP EXCEPT ![fp] = seq + 1]
    BY AddShape
<1>2. a \in IP /\ \A i \in Live : clients[i].vip # a
    BY DEF FreeIP
<1>3. seq' \in 0 .. MaxSeq /\ Live' \subseteq 1 .. seq'
    BY <1>1, BoundAssumption DEF Add, TypeOK
<1>4. UNCHANGED roomVars
    BY DEF Add
<1>5. clients' \in [Live' -> Connection]
  <2>1. clients' = [i \in Live' |-> clients'[i]]
    BY <1>1 DEF Add, Live
  <2>2. clients'[seq + 1] \in Connection
    BY <1>1, <1>2 DEF Connection, Endpoint
  <2>3. \A i \in Live : clients'[i] \in Connection
    BY <1>1 DEF TypeOK
  <2> QED
    BY <1>1, <2>1, <2>2, <2>3
<1>6. TypeOK'
    BY <1>1, <1>3, <1>4, <1>5 DEF TypeOK, roomVars
<1>7. UniqueVirtualIP'
    BY <1>1, <1>2 DEF UniqueVirtualIP
<1>8. RoomsConsistent'
    BY <1>4 DEF RoomsConsistent, roomVars
<1>9. ByFPSound'
    BY <1>1 DEF ByFPSound, TypeOK
<1> QED
    BY <1>6, <1>7, <1>8, <1>9

\* Remove keeps the invariant: it forgets the byFP entry of the connection it
\* removes and takes its fingerprint out of both membership maps.
LEMMA RemoveRegistryInv ==
    ASSUME RegistryInv, NEW id \in Live, Remove(id)
    PROVE  RegistryInv'
<1> USE DEF RegistryInv
<1> DEFINE fp == clients[id].fp
<1>1. fp \in FP
    BY DEF TypeOK, Connection
<1>2. /\ Live' = Live \ {id}
      /\ \A i \in Live' : clients'[i] = clients[i]
      /\ clients' \in [Live' -> Connection]
    BY DEF Remove, Live, Restrict, TypeOK
<1>3. /\ byFP' = [byFP EXCEPT ![fp] = 0]
      /\ UNCHANGED <<nextIP, seq>>
    BY DEF Remove, Forget
<1>4. /\ rooms' \subseteq rooms
      /\ members' \in [Code -> SUBSET FP]
      /\ inRoom' \in [FP -> Code \union {NoRoom}]
      /\ host' \in [Code -> FP \union {NoFP}]
      /\ RoomsConsistent'
  <2>1. CASE inRoom[fp] = NoRoom
    BY <2>1 DEF Remove, roomVars, TypeOK, RoomsConsistent
  <2>2. CASE inRoom[fp] # NoRoom
    <3>1. DropMember(fp)
        BY <2>2 DEF Remove
    <3> QED
        BY <3>1, <2>2, <1>1, DropShape
  <2> QED
    BY <2>1, <2>2
<1>5. TypeOK'
    BY <1>1, <1>2, <1>3, <1>4 DEF TypeOK
<1>6. UniqueVirtualIP'
    BY <1>2 DEF UniqueVirtualIP
<1>7. ByFPSound'
    BY <1>1, <1>2, <1>3 DEF ByFPSound, TypeOK
<1> QED
    BY <1>4, <1>5, <1>6, <1>7

\* CreateRoom, JoinRoom and LeaveRoom change both membership maps alike.
LEMMA RoomRegistryInv ==
    ASSUME RegistryInv, NEW fp \in FP,
           LeaveRoom(fp) \/ \E c \in Code : CreateRoom(fp, c) \/ JoinRoom(fp, c)
    PROVE  RegistryInv'
<1> USE DEF RegistryInv
<1> DEFINE RoomsOK == /\ rooms \subseteq Code
                      /\ members \in [Code -> SUBSET FP]
                      /\ inRoom \in [FP -> Code \union {NoRoom}]
                      /\ host \in [Code -> FP \union {NoFP}]
                      /\ RoomsConsistent
<1>1. UNCHANGED clientVars
    BY DEF LeaveRoom, CreateRoom, JoinRoom
<1>2. UniqueVirtualIP' /\ ByFPSound'
    BY <1>1 DEF clientVars, UniqueVirtualIP, ByFPSound, Live
<1>3. CASE LeaveRoom(fp)
  <2>1. inRoom[fp] # NoRoom /\ DropMember(fp)
    BY <1>3 DEF LeaveRoom
  <2>2. RoomsOK'
    BY <2>1, DropShape DEF TypeOK
  <2> QED
    BY <1>1, <1>2, <2>2 DEF TypeOK, clientVars, Live
<1>4. ASSUME NEW c \in Code, CreateRoom(fp, c)
      PROVE  RoomsOK'
    BY <1>4, SentinelAssumption DEF CreateRoom, MayEnter, TypeOK, RoomsConsistent
<1>5. ASSUME NEW c \in Code, JoinRoom(fp, c)
      PROVE  RoomsOK'
    BY <1>5, SentinelAssumption DEF JoinRoom, MayEnter, TypeOK, RoomsConsistent
<1> QED
    BY <1>1, <1>2, <1>3, <1>4, <1>5 DEF TypeOK, clientVars, Live

\* UpdateEndpoint changes nothing the invariant is about.
LEMMA EndpointRegistryInv ==
    ASSUME RegistryInv, NEW id \in Live, NEW ep \in Endpoint,
           UpdateEndpoint(id, ep)
    PROVE  RegistryInv'
<1> USE DEF RegistryInv
<1>1. /\ Live' = Live
      /\ UNCHANGED <<byFP, nextIP, seq, roomVars>>
      /\ clients' = [clients EXCEPT ![id].ep = ep]
    BY DEF UpdateEndpoint, Live, TypeOK
<1>2. \A i \in Live : /\ clients'[i] \in Connection
                       /\ clients'[i].fp = clients[i].fp
                       /\ clients'[i].vip = clients[i].vip
    BY <1>1 DEF TypeOK, Connection
<1>3. clients' \in [Live' -> Connection]
    BY <1>1, <1>2 DEF TypeOK
<1>4. TypeOK'
    BY <1>1, <1>3 DEF TypeOK, roomVars
<1>5. UniqueVirtualIP' /\ ByFPSound'
    BY <1>1, <1>2 DEF UniqueVirtualIP, ByFPSound
<1>6. RoomsConsistent'
    BY <1>1 DEF RoomsConsistent, roomVars
<1> QED
    BY <1>4, <1>5, <1>6

\* Every registry call keeps the invariant.
LEMMA NextRegistryInv == RegistryInv /\ [Next]_registryVars => RegistryInv'
<1> SUFFICES ASSUME RegistryInv, [Next]_registryVars
             PROVE  RegistryInv'
    OBVIOUS
<1>1. \A id \in Live : clients[id].fp \in FP
    BY DEF RegistryInv, TypeOK, Connection
<1>2. CASE UNCHANGED registryVars
    BY <1>2 DEF registryVars, clientVars, roomVars, RegistryInv, TypeOK,
                UniqueVirtualIP, RoomsConsistent, ByFPSound, Live
<1>3. ASSUME NEW fp \in FP, Add(fp)
      PROVE  RegistryInv'
    BY <1>3, AddRegistryInv
<1>4. ASSUME NEW id \in Live, Remove(id)
      PROVE  RegistryInv'
    BY <1>4, RemoveRegistryInv
<1>5. ASSUME NEW id \in Live, NEW ep \in Endpoint, UpdateEndpoint(id, ep)
      PROVE  RegistryInv'
    BY <1>5, EndpointRegistryInv
<1>6. ASSUME NEW id \in Live,
             \/ LeaveRoom(clients[id].fp)
             \/ \E c \in Code : \/ CreateRoom(clients[id].fp, c)
                               \/ JoinRoom(clients[id].fp, c)
      PROVE  RegistryInv'
    BY <1>1, <1>6, RoomRegistryInv
<1> QED
    BY <1>2, <1>3, <1>4, <1>5, <1>6 DEF Next

\* Registry types, unique virtual addresses, agreement of the membership maps
\* and soundness of the fingerprint lookup hold in every reachable state,
\* also when connections of one fingerprint overlap.
THEOREM RegistryInvariant == Spec => []RegistryInv
<1> QED
    BY InitRegistryInv, NextRegistryInv, PTL DEF Spec

\* The maps of the registry have the types NewRegistry gives them, however
\* calls and connections interleave.
THEOREM TypeCorrect == Spec => []TypeOK
<1>1. RegistryInv => TypeOK
    BY DEF RegistryInv
<1> QED
    BY <1>1, RegistryInvariant, PTL

\* No two registered clients share a virtual address, for any pool of
\* addresses and any number of registrations (allocVirtualIP).
THEOREM AddressesAreUnique == Spec => []UniqueVirtualIP
<1>1. RegistryInv => UniqueVirtualIP
    BY DEF RegistryInv
<1> QED
    BY <1>1, RegistryInvariant, PTL

\* inRoom and Room.Members agree and no room is empty, for any number of
\* clients and rooms (CreateRoom, JoinRoom, removeFromRoomLocked).
THEOREM MembershipMapsAgree == Spec => []RoomsConsistent
<1>1. RegistryInv => RoomsConsistent
    BY DEF RegistryInv
<1> QED
    BY <1>1, RegistryInvariant, PTL

\* The index never yields a removed client nor another one's, also when the
\* cleanup of an old connection runs after the client came back (Remove).
THEOREM IndexIsSound == Spec => []ByFPSound
<1>1. RegistryInv => ByFPSound
    BY DEF RegistryInv
<1> QED
    BY <1>1, RegistryInvariant, PTL

-----------------------------------------------------------------------------
(* The host of a room, however connections overlap.                        *)

\* removeFromRoomLocked changes the host of no other room, and that of the
\* room only when it takes out its host.
LEMMA DropHost ==
    ASSUME TypeOK, NEW fp \in FP, DropMember(fp), inRoom[fp] \in Code,
           NEW c \in Code, host'[c] # host[c]
    PROVE  c = inRoom[fp] /\ host[c] = fp
<1>1. CASE host[inRoom[fp]] = fp
    BY <1>1 DEF DropMember, TypeOK
<1>2. CASE host[inRoom[fp]] # fp
    BY <1>2 DEF DropMember, LosesHost
<1> QED
    BY <1>1, <1>2

\* removeFromRoomLocked is the only place a live room's host changes, and it
\* changes it only for the member it takes out.
THEOREM HostStability == Spec => HostChangesOnlyOnDeparture
<1>1. ASSUME RegistryInv, [Next]_registryVars,
             NEW c \in rooms \intersect rooms', host'[c] # host[c]
      PROVE  host[c] \notin members'[c]
  <2> USE DEF RegistryInv
  <2>1. c \in Code /\ \A id \in Live : clients[id].fp \in FP
    BY <1>1 DEF TypeOK, Connection
  <2>2. ASSUME NEW fp \in FP, inRoom[fp] # NoRoom, DropMember(fp)
        PROVE  host[c] \notin members'[c]
    <3>1. inRoom[fp] \in Code
        BY <1>1, <2>2 DEF TypeOK
    <3>2. c = inRoom[fp] /\ host[c] = fp
        BY <1>1, <2>1, <2>2, <3>1, DropHost
    <3> QED
        BY <1>1, <2>1, <2>2, <3>2 DEF DropMember, TypeOK
  <2>3. ASSUME NEW id \in Live, Remove(id)
        PROVE  host[c] \notin members'[c]
    BY <1>1, <2>1, <2>2, <2>3 DEF Remove, roomVars
  <2>4. ASSUME NEW fp \in FP, LeaveRoom(fp)
        PROVE  host[c] \notin members'[c]
    BY <2>2, <2>4 DEF LeaveRoom
  <2>5. ASSUME NEW fp \in FP, NEW d \in Code, CreateRoom(fp, d)
        PROVE  FALSE
    BY <1>1, <2>1, <2>5 DEF CreateRoom, TypeOK
  <2>6. ASSUME NEW fp \in FP, NEW d \in Code, JoinRoom(fp, d)
        PROVE  FALSE
    BY <1>1, <2>6 DEF JoinRoom
  <2>7. ASSUME \/ \E fp \in FP : Add(fp)
               \/ \E id \in Live, ep \in Endpoint : UpdateEndpoint(id, ep)
               \/ UNCHANGED registryVars
        PROVE  FALSE
    BY <1>1, <2>7 DEF Add, UpdateEndpoint, registryVars, roomVars
  <2> QED
    BY <1>1, <2>1, <2>3, <2>4, <2>5, <2>6, <2>7 DEF Next
<1>2. RegistryInv /\ [Next]_registryVars =>
        [\A c \in rooms \intersect rooms' :
            host'[c] # host[c] => host[c] \notin members'[c]]_registryVars
    BY <1>1
<1> QED
    BY <1>2, RegistryInvariant, PTL DEF Spec, HostChangesOnlyOnDeparture

-----------------------------------------------------------------------------
(* Connections that do not overlap.                                        *)

SerialInv ==
    /\ RegistryInv
    /\ ByFPComplete
    /\ MembersResolve
    /\ HostOnline

\* The registry NewRegistry makes satisfies the serial invariant.
LEMMA InitSerialInv == Init => SerialInv
<1> SUFFICES ASSUME Init PROVE SerialInv
    OBVIOUS
<1>1. Live = {} /\ rooms = {}
    BY DEF Init, Live
<1> QED
    BY <1>1, InitRegistryInv DEF SerialInv, ByFPComplete, MembersResolve,
       HostOnline

\* A member that is taken out leaves every other room as it was, and its own
\* with a host that resolves if anybody remains.
LEMMA DropSerial ==
    ASSUME SerialInv, NEW fp \in FP, inRoom[fp] # NoRoom, DropMember(fp),
           \A g \in FP \ {fp} : byFP'[g] = byFP[g]
    PROVE  MembersResolve' /\ HostOnline'
<1> DEFINE code == inRoom[fp]
<1>1. /\ code \in Code
      /\ code \in rooms
      /\ rooms' \subseteq rooms
      /\ rooms \subseteq Code
      /\ members' = [members EXCEPT ![code] = @ \ {fp}]
      /\ members \in [Code -> SUBSET FP]
      /\ RoomsConsistent'
    BY DropShape DEF SerialInv, RegistryInv, TypeOK
<1>2. ASSUME NEW c \in rooms'
      PROVE  /\ fp \notin members'[c]
             /\ ResolvedMembers(c)' = members'[c]
  <2>1. members'[c] \subseteq members[c] /\ fp \notin members'[c]
    BY <1>1 DEF SerialInv, RegistryInv, RoomsConsistent
  <2>2. \A g \in members'[c] : byFP'[g] # 0
    BY <1>1, <2>1 DEF SerialInv, MembersResolve, ResolvedMembers
  <2> QED
    BY <2>1, <2>2 DEF ResolvedMembers
<1>3. ASSUME NEW c \in rooms'
      PROVE  host'[c] \in members'[c]
  <2>1. c \in rooms /\ host[c] \in members[c] /\ ResolvedMembers(c) = members[c]
    BY <1>1 DEF SerialInv, HostOnline, MembersResolve
  <2>2. CASE c = code /\ host[code] = fp
    <3>1. PICK heir \in Successors(code, fp) : host' = [host EXCEPT ![code] = heir]
        BY <2>2 DEF DropMember, LosesHost
    <3>2. members'[code] # {}
        BY <1>1, <2>2 DEF RoomsConsistent
    <3>3. heir \in members[code] \ {fp}
        BY <1>1, <2>1, <2>2, <3>2 DEF Successors
    <3> QED
        BY <1>1, <2>2, <3>1, <3>3 DEF SerialInv, RegistryInv, TypeOK
  <2>3. CASE c = code /\ host[code] # fp
    BY <1>1, <2>1, <2>3 DEF DropMember, LosesHost
  <2>4. CASE c # code
    <3>1. members'[c] = members[c]
        BY <1>1, <2>4
    <3>2. host'[c] = host[c]
        BY <1>1, <2>4, DropHost DEF SerialInv, RegistryInv
    <3> QED
        BY <2>1, <3>1, <3>2
  <2> QED
    BY <2>2, <2>3, <2>4
<1> QED
    BY <1>2, <1>3 DEF MembersResolve, HostOnline

\* Add keeps it if the fingerprint has no connection left.
LEMMA AddSerialInv ==
    ASSUME SerialInv, NEW fp \in FP, Add(fp), \A id \in Live : clients[id].fp # fp
    PROVE  SerialInv'
<1> USE DEF SerialInv, RegistryInv
<1>1. PICK a \in FreeIP :
        /\ Live' = Live \union {seq + 1}
        /\ seq + 1 \notin Live
        /\ clients'[seq + 1] = [fp |-> fp, vip |-> a, ep |-> "none"]
        /\ \A i \in Live : clients'[i] = clients[i]
        /\ byFP' = [byFP EXCEPT ![fp] = seq + 1]
    BY AddShape
<1>2. RegistryInv' /\ UNCHANGED roomVars
    BY AddRegistryInv DEF Add
<1>3. ByFPComplete'
  <2>1. byFP'[fp] = seq + 1
    BY <1>1 DEF TypeOK
  <2>2. ASSUME NEW i \in Live
        PROVE  byFP'[clients'[i].fp] = i
    <3>1. clients[i].fp \in FP /\ clients[i].fp # fp
        BY DEF TypeOK, Connection
    <3> QED
        BY <1>1, <3>1 DEF ByFPComplete, TypeOK
  <2> QED
    BY <1>1, <2>1, <2>2 DEF ByFPComplete
<1>4. \A g \in FP : byFP[g] # 0 => byFP'[g] # 0
    BY <1>1 DEF TypeOK
<1>5. ASSUME NEW c \in rooms
      PROVE  ResolvedMembers(c)' = members[c]
    BY <1>2, <1>4 DEF ResolvedMembers, MembersResolve, roomVars, TypeOK
<1>6. MembersResolve' /\ HostOnline'
    BY <1>2, <1>5 DEF MembersResolve, HostOnline, roomVars
<1> QED
    BY <1>2, <1>3, <1>6

\* Remove keeps it: the fingerprint has no other connection to forget.
LEMMA RemoveSerialInv ==
    ASSUME SerialInv, NEW id \in Live, Remove(id)
    PROVE  SerialInv'
<1> DEFINE fp == clients[id].fp
<1>1. fp \in FP
    BY DEF SerialInv, RegistryInv, TypeOK, Connection
<1>2. RegistryInv'
    BY RemoveRegistryInv DEF SerialInv
<1>3. /\ Live' = Live \ {id}
      /\ \A i \in Live' : clients'[i] = clients[i]
      /\ byFP' = [byFP EXCEPT ![fp] = 0]
    BY DEF Remove, Forget, Live, Restrict
<1>4. ByFPComplete'
    BY <1>1, <1>3 DEF SerialInv, ByFPComplete, RegistryInv, TypeOK, Connection
<1>5. \A g \in FP \ {fp} : byFP'[g] = byFP[g]
    BY <1>3 DEF SerialInv, RegistryInv, TypeOK
<1>6. MembersResolve' /\ HostOnline'
  <2>1. CASE inRoom[fp] # NoRoom
    BY <1>1, <1>5, <2>1, DropSerial DEF Remove
  <2>2. CASE inRoom[fp] = NoRoom
    <3>1. UNCHANGED roomVars
        BY <2>2 DEF Remove
    <3>2. ASSUME NEW c \in rooms
          PROVE  fp \notin members[c] /\ members[c] \subseteq FP
        BY <1>1, <2>2, SentinelAssumption
           DEF SerialInv, RegistryInv, TypeOK, RoomsConsistent
    <3>3. ASSUME NEW c \in rooms
          PROVE  ResolvedMembers(c)' = ResolvedMembers(c)
        BY <1>5, <3>1, <3>2 DEF ResolvedMembers, roomVars
    <3> QED
        BY <3>1, <3>3 DEF SerialInv, MembersResolve, HostOnline, roomVars
  <2> QED
    BY <2>1, <2>2
<1> QED
    BY <1>2, <1>4, <1>6 DEF SerialInv

\* Room calls keep it: a room is entered by a client that is registered, and
\* left with a host that is.
LEMMA RoomSerialInv ==
    ASSUME SerialInv, NEW id \in Live, NEW fp \in FP, fp = clients[id].fp,
           LeaveRoom(fp) \/ \E c \in Code : CreateRoom(fp, c) \/ JoinRoom(fp, c)
    PROVE  SerialInv'
<1>1. UNCHANGED clientVars
    BY DEF LeaveRoom, CreateRoom, JoinRoom
<1>2. RegistryInv'
    BY RoomRegistryInv DEF SerialInv
<1>3. ByFPComplete'
    BY <1>1 DEF clientVars, SerialInv, ByFPComplete, Live
<1>4. byFP[fp] # 0
    BY DEF SerialInv, RegistryInv, ByFPComplete, TypeOK
<1>5. ASSUME NEW c \in Code, CreateRoom(fp, c)
      PROVE  MembersResolve' /\ HostOnline'
    BY <1>1, <1>4, <1>5 DEF CreateRoom, MembersResolve, HostOnline,
       ResolvedMembers, SerialInv, RegistryInv, TypeOK, clientVars
<1>6. ASSUME NEW c \in Code, JoinRoom(fp, c)
      PROVE  MembersResolve' /\ HostOnline'
    BY <1>1, <1>4, <1>6 DEF JoinRoom, MembersResolve, HostOnline,
       ResolvedMembers, SerialInv, RegistryInv, TypeOK, clientVars
<1>7. CASE LeaveRoom(fp)
  <2>1. inRoom[fp] # NoRoom /\ DropMember(fp)
    BY <1>7 DEF LeaveRoom
  <2>2. MembersResolve' /\ HostOnline'
    BY <1>1, <2>1, DropSerial DEF clientVars
  <2> QED
    BY <1>2, <1>3, <2>2 DEF SerialInv
<1> QED
    BY <1>2, <1>3, <1>5, <1>6, <1>7 DEF SerialInv

\* Every registry call keeps the serial invariant.
LEMMA NextSerialInv == ~Overlap /\ SerialInv /\ [Next]_registryVars => SerialInv'
<1> SUFFICES ASSUME ~Overlap, SerialInv, [Next]_registryVars
             PROVE  SerialInv'
    OBVIOUS
<1>1. \A id \in Live : clients[id].fp \in FP
    BY DEF SerialInv, RegistryInv, TypeOK, Connection
<1>2. CASE UNCHANGED registryVars
    BY <1>2, NextRegistryInv DEF registryVars, clientVars, roomVars, SerialInv,
       ByFPComplete, MembersResolve, HostOnline, ResolvedMembers, Live
<1>3. ASSUME NEW fp \in FP, MayRegister(fp), Add(fp)
      PROVE  SerialInv'
    BY <1>3, AddSerialInv DEF MayRegister
<1>4. ASSUME NEW id \in Live, Remove(id)
      PROVE  SerialInv'
    BY <1>4, RemoveSerialInv
<1>5. ASSUME NEW id \in Live, NEW ep \in Endpoint, UpdateEndpoint(id, ep)
      PROVE  SerialInv'
  <2>1. /\ Live' = Live
        /\ UNCHANGED <<byFP, roomVars>>
        /\ \A i \in Live : clients'[i].fp = clients[i].fp
    BY <1>5 DEF UpdateEndpoint, Live, SerialInv, RegistryInv, TypeOK, Connection
  <2>2. RegistryInv'
    BY <1>5, EndpointRegistryInv DEF SerialInv
  <2> QED
    BY <2>1, <2>2 DEF SerialInv, ByFPComplete, MembersResolve, HostOnline,
       ResolvedMembers, roomVars
<1>6. ASSUME NEW id \in Live,
             \/ LeaveRoom(clients[id].fp)
             \/ \E c \in Code : \/ CreateRoom(clients[id].fp, c)
                               \/ JoinRoom(clients[id].fp, c)
      PROVE  SerialInv'
    BY <1>1, <1>6, RoomSerialInv
<1> QED
    BY <1>2, <1>3, <1>4, <1>5, <1>6 DEF Next

\* When a fingerprint's connections do not overlap, every registered client
\* can be looked up, every room member is reachable, and every room has an
\* online host among its members.
THEOREM SerialInvariant == ~Overlap => (Spec => []SerialInv)
<1> SUFFICES ASSUME ~Overlap PROVE Spec => []SerialInv
    OBVIOUS
<1>1. SerialInv /\ [Next]_registryVars => SerialInv'
    BY NextSerialInv
<1> QED
    BY <1>1, InitSerialInv, PTL DEF Spec

\* ClientByFP finds every registered connection and no other.
THEOREM IndexIsExact == ~Overlap => (Spec => []ByFPExact)
<1> SUFFICES ASSUME ~Overlap PROVE Spec => []ByFPExact
    OBVIOUS
<1>1. SerialInv => ByFPExact
    BY DEF SerialInv, RegistryInv, ByFPExact
<1>2. Spec => []SerialInv
    BY SerialInvariant
<1> QED
    BY <1>1, <1>2, PTL

\* Every member of a room resolves to a live client (rooms.go:143-145), and
\* the room's host is one of them (oldestMemberLocked, removeFromRoomLocked).
THEOREM MembersAlwaysOnline == ~Overlap => (Spec => []MembersOnline)
<1> SUFFICES ASSUME ~Overlap PROVE Spec => []MembersOnline
    OBVIOUS
<1>1. SerialInv => MembersOnline
    BY DEF SerialInv, MembersOnline
<1>2. Spec => []SerialInv
    BY SerialInvariant
<1> QED
    BY <1>1, <1>2, PTL

-----------------------------------------------------------------------------
(* The succession, when connections do not overlap.                        *)

\* A room that loses its host is left to the member whose live connection
\* registered first: others still resolve, and their entries are not touched.
LEMMA DropSuccession ==
    ASSUME SerialInv, SerialInv', NEW fp \in FP, inRoom[fp] # NoRoom, DropMember(fp),
           \A g \in FP \ {fp} : byFP'[g] = byFP[g],
           NEW c \in rooms \intersect rooms', host'[c] # host[c]
    PROVE  \E i \in Live' :
             /\ clients'[i].fp = host'[c]
             /\ \A j \in Live' : clients'[j].fp \in members'[c] => i <= j
<1> DEFINE online == ResolvedMembers(c) \ {fp}
<1>1. c \in Code /\ inRoom[fp] \in Code /\ members[c] \subseteq FP
    BY DEF SerialInv, RegistryInv, TypeOK
<1>2. c = inRoom[fp] /\ host[c] = fp
    BY <1>1, DropHost DEF SerialInv, RegistryInv
<1>3. members'[c] = members[c] \ {fp}
    BY <1>1, <1>2 DEF DropMember, SerialInv, RegistryInv, TypeOK
<1>4. members'[c] # {} /\ ResolvedMembers(c) = members[c]
    BY <1>1 DEF SerialInv, RegistryInv, RoomsConsistent, MembersResolve
<1>5. online = members'[c] /\ online # {}
    BY <1>3, <1>4
<1>6. PICK heir \in online :
        /\ host'[c] = heir
        /\ \A g \in online : byFP[heir] <= byFP[g]
  <2>1. PICK heir \in Successors(c, fp) : host' = [host EXCEPT ![c] = heir]
    BY <1>2 DEF DropMember, LosesHost
  <2>2. heir \in online /\ \A g \in online : byFP[heir] <= byFP[g]
    BY <1>5, <2>1 DEF Successors
  <2>3. host'[c] = heir
    BY <1>1, <2>1 DEF SerialInv, RegistryInv, TypeOK
  <2> QED
    BY <2>2, <2>3
<1>7. \A g \in online : g \in FP /\ byFP'[g] = byFP[g] /\ byFP[g] # 0
    BY <1>1 DEF ResolvedMembers
<1>8. byFP[heir] \in Live' /\ clients'[byFP[heir]].fp = heir
    BY <1>7 DEF SerialInv, RegistryInv, ByFPSound
<1>9. ASSUME NEW j \in Live', clients'[j].fp \in members'[c]
      PROVE  byFP[heir] <= j
    BY <1>5, <1>6, <1>7, <1>9 DEF SerialInv, ByFPComplete
<1> QED
    BY <1>6, <1>8, <1>9

\* oldestMemberLocked: when the host departs, the room goes to the remaining
\* member whose live connection registered first.
THEOREM SuccessionIsByAge == ~Overlap => (Spec => SuccessorIsLongestRegistered)
<1> SUFFICES ASSUME ~Overlap PROVE Spec => SuccessorIsLongestRegistered
    OBVIOUS
<1> DEFINE Eldest(c) ==
        \E i \in Live' :
            /\ clients'[i].fp = host'[c]
            /\ \A j \in Live' : clients'[j].fp \in members'[c] => i <= j
<1>1. ASSUME SerialInv, [Next]_registryVars,
             NEW c \in rooms \intersect rooms', host'[c] # host[c]
      PROVE  Eldest(c)
  <2> USE DEF SerialInv, RegistryInv
  <2>1. c \in Code /\ \A id \in Live : clients[id].fp \in FP
    BY <1>1 DEF TypeOK, Connection
  <2>2. SerialInv'
    BY <1>1, NextSerialInv
  <2>3. ASSUME NEW id \in Live, Remove(id)
        PROVE  Eldest(c)
    <3> DEFINE fp == clients[id].fp
    <3>1. inRoom[fp] # NoRoom /\ DropMember(fp)
        BY <1>1, <2>3 DEF Remove, roomVars
    <3>2. \A g \in FP \ {fp} : byFP'[g] = byFP[g]
        BY <2>3 DEF Remove, Forget, TypeOK
    <3> QED
        BY <1>1, <2>1, <2>2, <3>1, <3>2, DropSuccession
  <2>4. ASSUME NEW fp \in FP, LeaveRoom(fp)
        PROVE  Eldest(c)
    BY <1>1, <2>2, <2>4, DropSuccession DEF LeaveRoom, clientVars
  <2>5. ASSUME NEW fp \in FP, NEW d \in Code, CreateRoom(fp, d)
        PROVE  FALSE
    BY <1>1, <2>1, <2>5 DEF CreateRoom, TypeOK
  <2>6. ASSUME NEW fp \in FP, NEW d \in Code, JoinRoom(fp, d)
        PROVE  FALSE
    BY <1>1, <2>6 DEF JoinRoom
  <2>7. ASSUME \/ \E fp \in FP : Add(fp)
               \/ \E id \in Live, ep \in Endpoint : UpdateEndpoint(id, ep)
               \/ UNCHANGED registryVars
        PROVE  FALSE
    BY <1>1, <2>7 DEF Add, UpdateEndpoint, registryVars, roomVars
  <2> QED
    BY <1>1, <2>1, <2>3, <2>4, <2>5, <2>6, <2>7 DEF Next
<1>2. SerialInv /\ [Next]_registryVars =>
        [\A c \in rooms \intersect rooms' : host'[c] # host[c] => Eldest(c)]_registryVars
    BY <1>1
<1>3. Spec => []SerialInv
    BY SerialInvariant
<1> QED
    BY <1>2, <1>3, PTL DEF Spec, SuccessorIsLongestRegistered

-----------------------------------------------------------------------------
(* Refinement of RoomService.                                              *)

\* An empty registry is an empty service.
LEMMA InitService == Init => Service!Init
BY DEF Init, Service!Init, OnlineUsers, Live

\* The abstract service's view of who is in a room is Room.Members.
LEMMA RoomOfMembers ==
    ASSUME RegistryInv, NEW c \in Code
    PROVE  Service!In(c) = members[c]
BY DEF RegistryInv, TypeOK, RoomsConsistent, Service!In

\* removeFromRoomLocked is the abstract departure.
LEMMA DropIsDepart ==
    ASSUME SerialInv, NEW fp \in FP, inRoom[fp] # NoRoom, DropMember(fp)
    PROVE  Service!Depart(fp)
<1> DEFINE code == inRoom[fp]
<1>1. /\ code \in Code
      /\ code \in rooms
      /\ inRoom' = [inRoom EXCEPT ![fp] = NoRoom]
    BY DropShape DEF SerialInv, RegistryInv, TypeOK
<1>2. Service!In(code) = members[code]
    BY <1>1, RoomOfMembers DEF SerialInv
<1>3. CASE host[code] # fp
    BY <1>1, <1>3 DEF DropMember, LosesHost, Service!Depart
<1>4. CASE host[code] = fp
  <2>1. PICK heir \in Successors(code, fp) : host' = [host EXCEPT ![code] = heir]
    BY <1>4 DEF DropMember, LosesHost
  <2>2. ResolvedMembers(code) = members[code]
    BY <1>1 DEF SerialInv, MembersResolve
  <2>3. heir \in IF members[code] \ {fp} = {} THEN {NoFP} ELSE members[code] \ {fp}
    BY <2>1, <2>2 DEF Successors
  <2> QED
    BY <1>1, <1>2, <1>4, <2>1, <2>3 DEF Service!Depart
<1> QED
    BY <1>3, <1>4

\* Every registry call is a step of the abstract service or none.
LEMMA StepService ==
    ASSUME ~Overlap, SerialInv, Next
    PROVE  Service!Next \/ UNCHANGED <<OnlineUsers, inRoom, host>>
<1> USE DEF SerialInv, RegistryInv
<1>1. \A id \in Live : clients[id].fp \in FP
    BY DEF TypeOK, Connection
<1>2. \A i, j \in Live : clients[i].fp = clients[j].fp => i = j
    BY DEF ByFPComplete
<1>3. ASSUME NEW fp \in FP, MayRegister(fp), Add(fp)
      PROVE  Service!Register(fp)
  <2>1. \A id \in Live : clients[id].fp # fp
    BY <1>3 DEF MayRegister
  <2>2. PICK a \in FreeIP :
          /\ Live' = Live \union {seq + 1}
          /\ clients'[seq + 1] = [fp |-> fp, vip |-> a, ep |-> "none"]
          /\ \A i \in Live : clients'[i] = clients[i]
    BY <1>3, AddShape
  <2>3. OnlineUsers' = OnlineUsers \union {fp}
    BY <2>2 DEF OnlineUsers
  <2>4. fp \notin OnlineUsers
    BY <2>1 DEF OnlineUsers
  <2> QED
    BY <1>3, <2>3, <2>4 DEF Add, roomVars, Service!Register
<1>4. ASSUME NEW id \in Live, Remove(id)
      PROVE  Service!Disconnect(clients[id].fp)
  <2> DEFINE fp == clients[id].fp
  <2>1. /\ Live' = Live \ {id}
        /\ \A i \in Live' : clients'[i] = clients[i]
    BY <1>4 DEF Remove, Live, Restrict
  <2>2. OnlineUsers' = OnlineUsers \ {fp}
    BY <1>2, <2>1 DEF OnlineUsers
  <2>3. fp \in OnlineUsers
    BY DEF OnlineUsers
  <2>4. CASE inRoom[fp] = NoRoom
    BY <1>4, <2>2, <2>3, <2>4 DEF Remove, roomVars, Service!Disconnect
  <2>5. CASE inRoom[fp] # NoRoom
    <3>1. Service!Depart(fp)
        BY <1>1, <1>4, <2>5, DropIsDepart DEF Remove
    <3> QED
        BY <2>2, <2>3, <2>5, <3>1 DEF Service!Disconnect
  <2> QED
    BY <2>4, <2>5
<1>5. ASSUME NEW id \in Live, NEW ep \in Endpoint, UpdateEndpoint(id, ep)
      PROVE  UNCHANGED <<OnlineUsers, inRoom, host>>
  <2>1. /\ Live' = Live
        /\ \A i \in Live : clients'[i].fp = clients[i].fp
        /\ UNCHANGED roomVars
    BY <1>5 DEF UpdateEndpoint, Live, TypeOK, Connection
  <2> QED
    BY <2>1 DEF OnlineUsers, roomVars
<1>6. ASSUME NEW id \in Live, UNCHANGED clientVars
      PROVE  clients[id].fp \in OnlineUsers /\ UNCHANGED OnlineUsers
    BY <1>6 DEF clientVars, OnlineUsers, Live
<1>7. ASSUME NEW id \in Live, LeaveRoom(clients[id].fp)
      PROVE  Service!Leave(clients[id].fp)
    BY <1>1, <1>6, <1>7, DropIsDepart DEF LeaveRoom, Service!Leave
<1>8. ASSUME NEW id \in Live, NEW c \in Code, CreateRoom(clients[id].fp, c)
      PROVE  Service!Create(clients[id].fp, c)
  <2>1. Service!In(c) = {}
    BY <1>8, RoomOfMembers DEF CreateRoom, RoomsConsistent
  <2> QED
    BY <1>6, <1>8, <2>1 DEF CreateRoom, MayEnter, Service!Create
<1>9. ASSUME NEW id \in Live, NEW c \in Code, JoinRoom(clients[id].fp, c)
      PROVE  Service!Join(clients[id].fp, c)
  <2>1. Service!In(c) # {}
    BY <1>9, RoomOfMembers DEF JoinRoom, RoomsConsistent
  <2> QED
    BY <1>6, <1>9, <2>1 DEF JoinRoom, MayEnter, Service!Join
<1> QED
    BY <1>1, <1>3, <1>4, <1>5, <1>7, <1>8, <1>9 DEF Next, Service!Next

\* Without overlapping connections the registry implements RoomService.
THEOREM RegistryImplementsService == ~Overlap => (Spec => ServiceSpec)
<1> SUFFICES ASSUME ~Overlap PROVE Spec => ServiceSpec
    OBVIOUS
<1>1. SerialInv /\ [Next]_registryVars => [Service!Next]_<<OnlineUsers, inRoom, host>>
  <2>1. UNCHANGED registryVars => UNCHANGED <<OnlineUsers, inRoom, host>>
    BY DEF registryVars, clientVars, roomVars, OnlineUsers, Live
  <2> QED
    BY <2>1, StepService
<1>2. Spec => []SerialInv
    BY SerialInvariant
<1> QED
    BY <1>1, <1>2, InitService, PTL DEF Spec, ServiceSpec, Service!Spec, Service!vars

-----------------------------------------------------------------------------
(* The handlers: what each has still to do, as a set, since the invariants *)
(* below do not depend on its order.                                       *)

Todo(id) == Range(work[id])
Waiting(id) == Range(up[id])

List == [fps : SUBSET FP, host : FP \union {NoFP}]
Peer == [id : Id, pub : BOOLEAN]

Message ==
    [type : {"registered", "peers"}, peers : SUBSET Peer]
      \union [type : {"created"}, room : Code]
      \union [type : {"joined"}, room : Code, list : List]
      \union [type : {"update"}, list : List]
      \union [type : {"left"}]
      \union [type : {"cands"}, peer : Id]

Operation ==
    [op : {"send"}, to : Id, msg : Message]
      \union [op : {"welcome", "broadcast"}]
      \union [op : {"created", "notify"}, code : Code]
      \union [op : {"push"}, code : Code, list : List,
              must : SUBSET FP, seen : SUBSET FP]
      \union [op : {"lists"}, left : SUBSET Id]
      \union [op : {"candidates"}, peer : Id]
      \union [op : {"remove"}, code : Code \union {NoRoom}]

Client == [on : BOOLEAN, room : Code \union {NoRoom}, list : List,
           routes : SUBSET Id, tried : SUBSET Id, punch : SUBSET Id]

Answer == [type : {"ask"}, peer : Id] \union [type : {"report"}]

HandlerTypes ==
    /\ who \in Seq(FP) /\ Len(who) = seq
    /\ work \in [Id -> Seq(Operation)]
    /\ agent \in [Id -> Client]
    /\ up \in [Id -> Seq(Answer)]
    /\ told \subseteq Id /\ listed \subseteq Id

\* A handler decides about candidates, and about the end of its connection,
\* while it is registered and has nothing else to do.
Alone(id) ==
    \A op \in Todo(id) : op.op \in {"candidates", "remove"} =>
        id \in Live /\ Len(work[id]) = 1

\* What has not been registered has left no trace.
Unborn(id) ==
    /\ work[id] = << >> /\ up[id] = << >>
    /\ agent[id].room = NoRoom
    /\ agent[id].tried = {} /\ agent[id].punch = {}

HandlerInv ==
    /\ RegistryInv /\ HandlerTypes
    /\ \A id \in Live : who[id] = clients[id].fp
    /\ \A id \in Id : Alone(id)
    /\ \A id \in Id : id > seq => Unborn(id)

\* q's candidates have been given to p, or are on their way.
Given(p, q) ==
    \/ q \in agent[p].punch
    \/ \E h \in Id : Send(p, [type |-> "cands", peer |-> q]) \in Todo(h)

PunchInv ==
    /\ \A p, q \in Id : Given(p, q) =>
        /\ p <= seq /\ q <= seq
        /\ Given(q, p) \/ p \notin Live \/ q \notin Live
    /\ \A p \in Live :
        /\ clients[p].ep # "none" \/ Report \in Waiting(p) => agent[p].on
        /\ \A q \in Id : Given(p, q) => agent[p].on

\* Operations after which a client knows its room.
Placing(op) ==
    \/ op.op = "created"
    \/ op.op = "send" /\ op.msg.type \in {"joined", "left"}

\* What a handler has to do says where its client is.
RoomInv ==
    /\ \A h \in Id : \A op \in Todo(h) : Placing(op) /\ op.op = "send" => op.to = h
    /\ \A id \in Live :
        /\ \A op \in Todo(id) :
            /\ op.op \in {"created", "remove"} => op.code = RoomOf(id)
            /\ op.op = "send" /\ op.msg.type = "joined" => op.msg.room = RoomOf(id)
            /\ op.op = "send" /\ op.msg.type = "left" => RoomOf(id) = NoRoom
        /\ agent[id].room = RoomOf(id) \/ \E op \in Todo(id) : Placing(op)

\* An operation that sends id the list of its room that is current.
Tells(h, op, id) ==
    \/ op.op = "notify" /\ op.code = RoomOf(id)
    \/ op.op = "created" /\ h = id
    \/ /\ op.op = "push" /\ op.code = RoomOf(id) /\ op.list = MemberList(op.code)
       /\ who[id] \in op.must \ op.seen
    \/ /\ op.op = "send" /\ op.to = id /\ op.msg.type \in {"joined", "update"}
       /\ op.msg.list = CurrentMembers(id)

ToldInv ==
    \A id \in Live : RoomOf(id) # NoRoom =>
        id \in told \/ \E h \in Id : \E op \in Todo(h) : Tells(h, op, id)

\* The same for its list of peers.
Informs(op, id) ==
    \/ op.op = "broadcast"
    \/ op.op = "lists" /\ id \in op.left
    \/ /\ op.op = "send" /\ op.to = id /\ op.msg.type = "peers"
       /\ op.msg.peers = PeerList(id)

ListedInv ==
    \A id \in Live :
        id \in listed \/ \E h \in Id : \E op \in Todo(h) : Informs(op, id)

\* Lists name clients that have registered.
Known(op) ==
    op.op = "send" /\ op.msg.type \in {"registered", "peers"} =>
        \A p \in op.msg.peers : p.id <= seq

\* A peer that a client has tried was asked for, and given unless refused.
TriedInv ==
    /\ \A p, q \in Live :
        p \in agent[q].tried =>
            \/ Ask(p) \in Waiting(q) \/ Candidates(p) \in Todo(q)
            \/ <<q, p>> \in refused \/ Given(p, q)
    /\ \A q \in Live \intersect listed : \A p \in PeerList(q) :
        p.pub => p.id \in agent[q].tried
    /\ \A q \in Id : \A p \in agent[q].tried : p <= seq
    /\ \A h \in Id : \A op \in Todo(h) : Known(op)

ServiceInv == RoomInv /\ ToldInv /\ ListedInv /\ TriedInv

-----------------------------------------------------------------------------
(* Sequences of operations as sets.                                        *)

\* A list of operations is empty, or its first one and the rest.
LEMMA RangeOfList ==
    ASSUME NEW S, NEW s \in Seq(S), s # << >>
    PROVE  /\ Head(s) \in S /\ Tail(s) \in Seq(S)
           /\ Range(s) = {Head(s)} \union Range(Tail(s))
<1>1. /\ Len(s) \in Nat \ {0} /\ Head(s) = s[1]
      /\ DOMAIN s = 1 .. Len(s)
      /\ DOMAIN Tail(s) = 1 .. Len(s) - 1
      /\ Tail(s) \in Seq(S)
      /\ \A i \in 1 .. Len(s) - 1 : Tail(s)[i] = s[i + 1]
    OBVIOUS
<1>2. Range(s) \subseteq {s[1]} \union Range(Tail(s))
  <2> SUFFICES ASSUME NEW i \in 1 .. Len(s), i # 1 PROVE s[i] \in Range(Tail(s))
    BY <1>1 DEF Range
  <2>1. i - 1 \in 1 .. Len(s) - 1 /\ s[i] = Tail(s)[i - 1]
    BY <1>1
  <2> QED BY <1>1, <2>1 DEF Range
<1>3. {s[1]} \union Range(Tail(s)) \subseteq Range(s)
    BY <1>1 DEF Range
<1> QED BY <1>1, <1>2, <1>3

\* What is put before a list is added to it.
LEMMA RangeOfConcat ==
    ASSUME NEW S, NEW s \in Seq(S), NEW t \in Seq(S)
    PROVE  Range(s \o t) = Range(s) \union Range(t)
<1>1. /\ DOMAIN s = 1 .. Len(s) /\ DOMAIN t = 1 .. Len(t)
      /\ Len(s) \in Nat /\ Len(t) \in Nat
      /\ DOMAIN (s \o t) = 1 .. Len(s) + Len(t)
      /\ \A i \in 1 .. Len(s) + Len(t) :
            (s \o t)[i] = IF i <= Len(s) THEN s[i] ELSE t[i - Len(s)]
    OBVIOUS
<1>2. Range(s \o t) \subseteq Range(s) \union Range(t)
  <2> SUFFICES ASSUME NEW i \in 1 .. Len(s) + Len(t)
               PROVE  (s \o t)[i] \in Range(s) \union Range(t)
    BY <1>1 DEF Range
  <2>1. CASE i <= Len(s)
    BY <1>1, <2>1 DEF Range
  <2>2. CASE i > Len(s)
    <3>1. i - Len(s) \in 1 .. Len(t)
      BY <1>1, <2>2
    <3> QED BY <1>1, <2>2, <3>1 DEF Range
  <2> QED BY <1>1, <2>1, <2>2
<1>3. Range(s) \subseteq Range(s \o t)
    BY <1>1 DEF Range
<1>4. Range(t) \subseteq Range(s \o t)
  <2> SUFFICES ASSUME NEW i \in 1 .. Len(t) PROVE t[i] \in Range(s \o t)
    BY <1>1 DEF Range
  <2>1. /\ i + Len(s) \in 1 .. Len(s) + Len(t)
        /\ (s \o t)[i + Len(s)] = t[i]
    BY <1>1
  <2> QED BY <1>1, <2>1 DEF Range
<1> QED BY <1>2, <1>3, <1>4

\* The two kinds of lists there are.
LEMMA RangeOfBoth ==
    /\ \A s, t \in Seq(Operation) : Range(s \o t) = Range(s) \union Range(t)
    /\ \A s, t \in Seq(Answer) : Range(s \o t) = Range(s) \union Range(t)
<1>1. \A s, t \in Seq(Operation) : Range(s \o t) = Range(s) \union Range(t)
    BY RangeOfConcat, Zenon
<1>2. \A s, t \in Seq(Answer) : Range(s \o t) = Range(s) \union Range(t)
    BY RangeOfConcat, Zenon
<1> QED BY <1>1, <1>2

\* The lists the handlers are given.
LEMMA SmallLists ==
    /\ Range(<< >>) = {} /\ \A S : << >> \in Seq(S)
    /\ \A S : \A a \in S : <<a>> \in Seq(S) /\ Range(<<a>>) = {a}
    /\ \A S : \A a, b \in S : <<a, b>> \in Seq(S) /\ Range(<<a, b>>) = {a, b}
    /\ \A S : \A a, b, c \in S :
        <<a, b, c>> \in Seq(S) /\ Range(<<a, b, c>>) = {a, b, c}
<1>1. Range(<< >>) = {} /\ \A S : << >> \in Seq(S)
    BY DEF Range
<1>2. ASSUME NEW S, NEW a \in S
      PROVE  <<a>> \in Seq(S) /\ Range(<<a>>) = {a}
  <2>1. DOMAIN <<a>> = {1}
    OBVIOUS
  <2> QED BY <2>1 DEF Range
<1>3. ASSUME NEW S, NEW a \in S, NEW b \in S
      PROVE  <<a, b>> \in Seq(S) /\ Range(<<a, b>>) = {a, b}
  <2>1. DOMAIN <<a, b>> = {1, 2} /\ <<a, b>>[1] = a /\ <<a, b>>[2] = b
    OBVIOUS
  <2> QED BY <2>1 DEF Range
<1>4. ASSUME NEW S, NEW a \in S, NEW b \in S, NEW c \in S
      PROVE  <<a, b, c>> \in Seq(S) /\ Range(<<a, b, c>>) = {a, b, c}
  <2>1. /\ DOMAIN <<a, b, c>> = {1, 2, 3}
        /\ <<a, b, c>>[1] = a /\ <<a, b, c>>[2] = b /\ <<a, b, c>>[3] = c
    OBVIOUS
  <2> QED BY <2>1 DEF Range
<1> QED BY <1>1, <1>2, <1>3, <1>4

\* Asks asks for each peer once, in some order.
LEMMA AsksForAll ==
    ASSUME NEW S, IsFiniteSet(S)
    PROVE  /\ Asks(S) \in Seq({Ask(p) : p \in S})
           /\ Range(Asks(S)) = {Ask(p) : p \in S}
<1> DEFINE T == {Ask(p) : p \in S}
<1> DEFINE n == Cardinality(S)
<1>1. n \in Nat /\ ExistsBijection(1 .. n, S)
    BY FS_CardinalityType
<1>2. PICK f \in Bijection(1 .. n, S) : TRUE
    BY <1>1 DEF ExistsBijection
<1> DEFINE g == [i \in 1 .. n |-> Ask(f[i])]
<1>3. g \in Bijection(1 .. n, T)
  <2>1. /\ f \in [1 .. n -> S]
        /\ \A i, j \in 1 .. n : f[i] = f[j] => i = j
        /\ \A p \in S : \E i \in 1 .. n : f[i] = p
    BY <1>2 DEF Bijection, Injection, Surjection, IsInjective
  <2>2. g \in [1 .. n -> T]
    BY <2>1
  <2>3. \A i, j \in 1 .. n : g[i] = g[j] => i = j
    BY <2>1 DEF Ask
  <2>4. \A t \in T : \E i \in 1 .. n : g[i] = t
    BY <2>1
  <2> QED BY <2>2, <2>3, <2>4 DEF Bijection, Injection, Surjection, IsInjective
<1>4. IsFiniteSet(T) /\ Cardinality(T) = n
    BY <1>1, <1>3, FS_CountingElements, FS_NatBijection DEF ExistsBijection
<1>5. Asks(S) \in [1 .. n -> T] /\ IsInjective(Asks(S))
    BY <1>3 DEF Asks, Bijection, Injection
<1>6. Asks(S) \in Surjection(1 .. n, T)
  <2>1. Asks(S) \in Injection(1 .. n, T)
    BY <1>5 DEF Injection
  <2>2. Cardinality(1 .. n) = Cardinality(T)
    BY <1>1, <1>4, FS_Interval
  <2> QED BY <1>4, <2>1, <2>2, FS_Injection
<1>7. \A t \in T : \E i \in 1 .. n : Asks(S)[i] = t
    BY <1>6 DEF Surjection
<1>8. Range(Asks(S)) = T
    BY <1>5, <1>7 DEF Range
<1> QED BY <1>1, <1>5, <1>8

\* Handler h does the operation it is at, which leads to new ones.
Moves(h, new) ==
    /\ Now(h) \in Todo(h)
    /\ Todo(h) \subseteq Todo(h)' \union {Now(h)}
    /\ Todo(h)' \subseteq Todo(h) \union new
    /\ new \subseteq Todo(h)'
    /\ \A q \in Id \ {h} : work'[q] = work[q] /\ Todo(q)' = Todo(q)

\* Handler h had nothing to do.
Starts(h, new) ==
    /\ Todo(h) = {} /\ Todo(h)' = new
    /\ \A q \in Id \ {h} : work'[q] = work[q] /\ Todo(q)' = Todo(q)

\* What the kinds of operations and messages have.
LEMMA OperationFields ==
    ASSUME NEW op \in Operation
    PROVE  /\ op.op = "send" =>
                op.to \in Id /\ op.msg \in Message /\ op = Send(op.to, op.msg)
           /\ op.op \in {"created", "notify"} => op.code \in Code
           /\ op.op = "push" => /\ op.code \in Code /\ op.list \in List
                                /\ op.must \subseteq FP /\ op.seen \subseteq FP
           /\ op.op = "lists" => op.left \subseteq Id
           /\ op.op = "candidates" => op.peer \in Id /\ op = Candidates(op.peer)
           /\ op.op = "remove" => op.code \in Code \union {NoRoom}
BY DEF Operation, Send, Candidates

\* The same for messages.
LEMMA MessageFields ==
    ASSUME NEW msg \in Message
    PROVE  /\ msg.type \in {"registered", "peers", "created", "joined", "update",
                            "left", "cands"}
           /\ msg.type \in {"registered", "peers"} => msg.peers \subseteq Peer
           /\ msg.type = "joined" => msg.room \in Code /\ msg.list \in List
           /\ msg.type = "update" => msg.list \in List
           /\ msg.type = "cands" =>
                msg.peer \in Id /\ msg = [type |-> "cands", peer |-> msg.peer]
BY DEF Message

\* A step of a handler, as sets of operations.
LEMMA ThenMoves ==
    ASSUME HandlerTypes, NEW h \in Id, work[h] # << >>,
           NEW ops \in Seq(Operation), Then(h, ops)
    PROVE  /\ work' \in [Id -> Seq(Operation)]
           /\ Moves(h, Range(ops))
           /\ Now(h) \in Operation
<1>1. work \in [Id -> Seq(Operation)]
    BY DEF HandlerTypes
<1>2. /\ Head(work[h]) \in Operation /\ Tail(work[h]) \in Seq(Operation)
      /\ Range(work[h]) = {Head(work[h])} \union Range(Tail(work[h]))
    BY <1>1, RangeOfList
<1>3. /\ work' = [work EXCEPT ![h] = ops \o Tail(work[h])]
      /\ work'[h] = ops \o Tail(work[h])
      /\ \A q \in Id \ {h} : work'[q] = work[q]
    BY <1>1 DEF Then
<1>4. ops \o Tail(work[h]) \in Seq(Operation)
    BY <1>2
<1>5. Range(ops \o Tail(work[h])) = Range(ops) \union Range(Tail(work[h]))
    BY <1>2, RangeOfBoth
<1>6. work' \in [Id -> Seq(Operation)]
    BY <1>1, <1>3, <1>4
<1>7. Todo(h)' = Range(ops) \union Range(Tail(work[h]))
    BY <1>3, <1>5 DEF Todo
<1>8. \A q \in Id \ {h} : work'[q] = work[q] /\ Todo(q)' = Todo(q)
    BY <1>3 DEF Todo
<1> QED BY <1>2, <1>6, <1>7, <1>8 DEF Moves, Todo, Now

\* Special operations stay alone: they are not put before another one.
LEMMA ThenAlone ==
    ASSUME HandlerTypes, \A q \in Id : Alone(q),
           NEW h \in Id, work[h] # << >>,
           NEW ops \in Seq(Operation), Then(h, ops),
           \A op \in Range(ops) : op.op \notin {"candidates", "remove"},
           Live \ {h} \subseteq Live'
    PROVE  \A q \in Id : Alone(q)'
<1>1. work \in [Id -> Seq(Operation)]
    BY DEF HandlerTypes
<1>2. /\ Tail(work[h]) \in Seq(Operation)
      /\ Range(work[h]) = {Head(work[h])} \union Range(Tail(work[h]))
    BY <1>1, RangeOfList
<1>3. /\ work'[h] = ops \o Tail(work[h])
      /\ \A q \in Id \ {h} : work'[q] = work[q]
    BY <1>1 DEF Then
<1>4. Todo(h)' = Range(ops) \union Range(Tail(work[h]))
  <2>1. Range(ops \o Tail(work[h])) = Range(ops) \union Range(Tail(work[h]))
    BY <1>2, RangeOfBoth
  <2> QED BY <1>3, <2>1 DEF Todo
<1>5. ASSUME NEW op \in Todo(h)', op.op \in {"candidates", "remove"}
      PROVE  FALSE
  <2>1. op \in Range(Tail(work[h]))
    BY <1>4, <1>5
  <2>2. Len(work[h]) = 1
    BY <1>2, <1>5, <2>1 DEF Alone, Todo
  <2>3. DOMAIN Tail(work[h]) = {}
    <3>1. work[h] \in Seq(Operation)
      BY <1>1
    <3>2. DOMAIN Tail(work[h]) = 1 .. Len(work[h]) - 1
      BY <3>1
    <3> QED BY <2>2, <3>2
  <2> QED BY <2>1, <2>3 DEF Range
<1>6. ASSUME NEW q \in Id \ {h} PROVE Alone(q)'
    BY <1>3, <1>6 DEF Alone, Todo
<1> QED BY <1>5, <1>6 DEF Alone

\* A handler that starts on what it has read.
LEMMA StartMoves ==
    ASSUME HandlerTypes, \A q \in Id : Alone(q), NEW h \in Id, work[h] = << >>,
           NEW ops \in Seq(Operation), work' = [work EXCEPT ![h] = ops],
           Live \subseteq Live',
           \A op \in Range(ops) : op.op \in {"candidates", "remove"} =>
                h \in Live /\ Len(ops) = 1
    PROVE  /\ work' \in [Id -> Seq(Operation)]
           /\ Starts(h, Range(ops))
           /\ \A q \in Id : Alone(q)'
<1>1. work \in [Id -> Seq(Operation)]
    BY DEF HandlerTypes
<1>2. work'[h] = ops /\ \A q \in Id \ {h} : work'[q] = work[q]
    BY <1>1
<1>3. work' \in [Id -> Seq(Operation)]
    BY <1>1
<1>4. Todo(h) = {}
    BY DEF Todo, Range
<1>5. Starts(h, Range(ops))
    BY <1>2, <1>4 DEF Starts, Todo
<1>6. Alone(h)'
    BY <1>2 DEF Alone, Todo
<1>7. ASSUME NEW q \in Id \ {h} PROVE Alone(q)'
    BY <1>2, <1>7 DEF Alone, Todo
<1> QED BY <1>3, <1>5, <1>6, <1>7

-----------------------------------------------------------------------------
(* Steps of handlers that only read the registry.                          *)

QuietStep(h, new) ==
    /\ Reads /\ Moves(h, new)
    /\ Now(h) \in Operation /\ new \subseteq Operation
    /\ work' \in [Id -> Seq(Operation)]
    /\ \A q \in Id : Alone(q)'

\* What the server says is of the types the clients expect.
LEMMA ListTypes ==
    ASSUME RegistryInv, HandlerTypes
    PROVE  /\ Live \subseteq Id /\ seq \in Nat
           /\ Nobody \in List
           /\ \A code \in Code : MemberList(code) \in List
           /\ \A id \in 1 .. seq : id \in Id /\ who[id] \in FP /\ CurrentMembers(id) \in List
           /\ \A id \in Id : PeerList(id) \subseteq Peer
<1>1. Live \subseteq Id /\ seq \in Nat /\ seq <= MaxSeq
    BY BoundAssumption DEF RegistryInv, TypeOK, Id
<1>2. Nobody \in List
    BY DEF Nobody, List
<1>3. \A code \in Code : MemberList(code) \in List
    BY DEF MemberList, ResolvedMembers, List, RegistryInv, TypeOK
<1>4. \A id \in 1 .. seq : id \in Id /\ who[id] \in FP
    BY <1>1, BoundAssumption DEF HandlerTypes, Id
<1>5. \A id \in 1 .. seq : CurrentMembers(id) \in List
  <2> SUFFICES ASSUME NEW id \in 1 .. seq PROVE CurrentMembers(id) \in List
    OBVIOUS
  <2>1. RoomOf(id) \in Code \union {NoRoom}
    <3>1. who[id] \in FP /\ inRoom \in [FP -> Code \union {NoRoom}]
      BY <1>4 DEF RegistryInv, TypeOK
    <3> QED BY <3>1 DEF RoomOf
  <2> QED BY <1>2, <1>3, <2>1 DEF CurrentMembers
<1>6. \A id \in Id : PeerList(id) \subseteq Peer
  <2> SUFFICES ASSUME NEW id \in Id PROVE PeerList(id) \subseteq Peer
    OBVIOUS
  <2>1. VisiblePeers(id, who[id]) \subseteq Id
    BY <1>1 DEF VisiblePeers
  <2>2. \A p : (clients[p].ep = "public") \in BOOLEAN
    OBVIOUS
  <2>3. \A p \in Id : [id |-> p, pub |-> clients[p].ep = "public"] \in Peer
    BY <2>2, Zenon DEF Peer
  <2> QED BY <2>1, <2>3 DEF PeerList
<1> QED BY <1>1, <1>2, <1>3, <1>4, <1>5, <1>6

\* Whoever has something to do has been registered.
LEMMA BusyIsKnown ==
    ASSUME HandlerInv, NEW h \in Id, work[h] # << >>
    PROVE  h \in 1 .. seq
BY BoundAssumption DEF HandlerInv, Unborn, RegistryInv, TypeOK, Id

\* A step that only reads, and what it leads to.
LEMMA QuietThen ==
    ASSUME HandlerInv, NEW h \in Id, work[h] # << >>, NEW ops \in Seq(Operation),
           Then(h, ops), Reads,
           \A op \in Range(ops) : op.op \notin {"candidates", "remove"}
    PROVE  QuietStep(h, Range(ops))
<1>1. Live' = Live
    BY DEF Reads, registryVars, clientVars, Live
<1>2. Range(ops) \subseteq Operation
    BY DEF Range
<1>3. \A q \in Id : Alone(q)'
    BY <1>1, ThenAlone DEF HandlerInv
<1>4. Moves(h, Range(ops)) /\ work' \in [Id -> Seq(Operation)] /\ Now(h) \in Operation
    BY ThenMoves DEF HandlerInv
<1> QED BY <1>2, <1>3, <1>4 DEF QuietStep

\* WelcomeStep sends the registered reply.
LEMMA WelcomeShape ==
    ASSUME HandlerInv, NEW h \in Id, WelcomeStep(h)
    PROVE  /\ QuietStep(h, {Send(h, [type |-> "registered", peers |-> PeerList(h)])})
           /\ Now(h).op = "welcome"
<1> DEFINE op == Send(h, [type |-> "registered", peers |-> PeerList(h)])
<1>1. op \in Operation /\ op.op = "send"
    BY ListTypes DEF HandlerInv, Operation, Message, Send
<1>2. work[h] # << >> /\ Then(h, <<op>>) /\ Reads /\ Now(h).op = "welcome"
    BY DEF WelcomeStep, Doing, Now
<1>3. <<op>> \in Seq(Operation) /\ Range(<<op>>) = {op}
    BY <1>1, SmallLists
<1> HIDE DEF op
<1>4. QuietStep(h, Range(<<op>>))
    BY <1>1, <1>2, <1>3, QuietThen
<1> QED BY <1>2, <1>3, <1>4 DEF op

\* CreatedStep sends room_joined to the creator.
LEMMA CreatedShape ==
    ASSUME HandlerInv, NEW h \in Id, CreatedStep(h)
    PROVE  /\ QuietStep(h, {Send(h, [type |-> "joined", room |-> Now(h).code,
                                     list |-> CurrentMembers(h)])})
           /\ Now(h).op = "created"
<1> DEFINE op == Send(h, [type |-> "joined", room |-> Now(h).code,
                          list |-> CurrentMembers(h)])
<1>1. work[h] # << >> /\ Then(h, <<op>>) /\ Reads /\ Now(h).op = "created"
    BY DEF CreatedStep, Doing, Now
<1>2. Now(h).code \in Code
  <2>1. Now(h) \in Operation
    BY <1>1, RangeOfList DEF HandlerInv, HandlerTypes, Now
  <2> QED BY <1>1, <2>1, OperationFields
<1>3. CurrentMembers(h) \in List
    BY <1>1, BusyIsKnown, ListTypes DEF HandlerInv
<1>4. op \in Operation /\ op.op = "send"
    BY <1>2, <1>3 DEF Operation, Message, Send
<1>5. <<op>> \in Seq(Operation) /\ Range(<<op>>) = {op}
    BY <1>4, SmallLists
<1> HIDE DEF op
<1>6. QuietStep(h, Range(<<op>>))
    BY <1>1, <1>4, <1>5, QuietThen
<1> QED BY <1>1, <1>5, <1>6 DEF op

\* NotifyStep begins the range over the room's members.
LEMMA NotifyShape ==
    ASSUME HandlerInv, NEW h \in Id, NotifyStep(h)
    PROVE  /\ Now(h).op = "notify" /\ Now(h).code \in Code
           /\ QuietStep(h, {Push(Now(h).code, MemberList(Now(h).code),
                                 members[Now(h).code], {})})
<1> DEFINE code == Now(h).code
           op == Push(code, MemberList(code), members[code], {})
<1>1. work[h] # << >> /\ Then(h, <<op>>) /\ Reads /\ Now(h).op = "notify"
    BY DEF NotifyStep, Doing, Now
<1>2. code \in Code
  <2>1. Now(h) \in Operation
    BY <1>1, RangeOfList DEF HandlerInv, HandlerTypes, Now
  <2> QED BY <1>1, <2>1, OperationFields
<1>3. MemberList(code) \in List /\ members[code] \subseteq FP
    BY <1>2, ListTypes DEF HandlerInv, RegistryInv, TypeOK
<1>4. op \in Operation /\ op.op = "push"
    BY <1>2, <1>3 DEF Operation, Push
<1>5. <<op>> \in Seq(Operation) /\ Range(<<op>>) = {op}
    BY <1>4, SmallLists
<1> HIDE DEF op
<1>6. QuietStep(h, Range(<<op>>))
    BY <1>1, <1>4, <1>5, QuietThen
<1> QED BY <1>1, <1>2, <1>5, <1>6 DEF op

\* PushStep writes to a member it has not visited, skips it, or is done.
LEMMA PushShape ==
    ASSUME HandlerInv, NEW h \in Id, PushStep(h)
    PROVE  /\ Now(h).op = "push"
           /\ \/ /\ (members[Now(h).code] \ Now(h).seen) \intersect Now(h).must = {}
                 /\ QuietStep(h, {})
              \/ \E fp \in members[Now(h).code] \ Now(h).seen :
                    /\ byFP[fp] = 0
                    /\ QuietStep(h, {Push(Now(h).code, Now(h).list, Now(h).must,
                                          Now(h).seen \union {fp})})
              \/ \E fp \in members[Now(h).code] \ Now(h).seen :
                    /\ byFP[fp] \in Live
                    /\ QuietStep(h, {Send(byFP[fp], [type |-> "update",
                                                    list |-> Now(h).list]),
                                     Push(Now(h).code, Now(h).list, Now(h).must,
                                          Now(h).seen \union {fp})})
<1> DEFINE now == Now(h)
           left == members[now.code] \ now.seen
           next(fp) == Push(now.code, now.list, now.must, now.seen \union {fp})
           update(fp) == Send(byFP[fp], [type |-> "update", list |-> now.list])
<1>1. work[h] # << >> /\ Reads /\ now.op = "push"
    BY DEF PushStep, Doing, Now
<1>2. \/ left \intersect now.must = {} /\ Then(h, << >>)
      \/ \E fp \in left :
            IF byFP[fp] = 0 THEN Then(h, <<next(fp)>>)
                            ELSE Then(h, <<update(fp), next(fp)>>)
    BY DEF PushStep
<1>3. /\ now.code \in Code /\ now.list \in List
      /\ now.must \subseteq FP /\ now.seen \subseteq FP
  <2>1. now \in Operation
    BY <1>1, RangeOfList DEF HandlerInv, HandlerTypes, Now
  <2> QED BY <1>1, <2>1, OperationFields
<1>4. left \subseteq FP
    BY <1>3 DEF HandlerInv, RegistryInv, TypeOK
<1>5. ASSUME NEW fp \in left
      PROVE  next(fp) \in Operation /\ next(fp).op = "push"
    BY <1>3, <1>4 DEF Operation, Push
<1>6. ASSUME NEW fp \in left, byFP[fp] # 0
      PROVE  /\ byFP[fp] \in Live
             /\ update(fp) \in Operation /\ update(fp).op = "send"
  <2>1. byFP[fp] \in Live
    BY <1>4, <1>6 DEF HandlerInv, RegistryInv, ByFPSound
  <2>2. byFP[fp] \in Id
    BY <2>1, ListTypes DEF HandlerInv
  <2> QED BY <1>3, <2>1, <2>2 DEF Operation, Message, Send
<1> HIDE DEF next, update
<1>7. CASE left \intersect now.must = {} /\ Then(h, << >>)
  <2>1. << >> \in Seq(Operation) /\ Range(<< >>) = {}
    BY SmallLists
  <2>2. QuietStep(h, Range(<< >>))
    BY <1>1, <1>7, <2>1, QuietThen
  <2> QED BY <1>1, <1>7, <2>1, <2>2
<1>8. ASSUME NEW fp \in left, byFP[fp] = 0, Then(h, <<next(fp)>>)
      PROVE  QuietStep(h, {next(fp)})
  <2>1. <<next(fp)>> \in Seq(Operation) /\ Range(<<next(fp)>>) = {next(fp)}
    BY <1>5, SmallLists
  <2>2. QuietStep(h, Range(<<next(fp)>>))
    BY <1>1, <1>5, <1>8, <2>1, QuietThen
  <2> QED BY <2>1, <2>2
<1>9. ASSUME NEW fp \in left, byFP[fp] # 0, Then(h, <<update(fp), next(fp)>>)
      PROVE  QuietStep(h, {update(fp), next(fp)})
  <2>1. /\ <<update(fp), next(fp)>> \in Seq(Operation)
        /\ Range(<<update(fp), next(fp)>>) = {update(fp), next(fp)}
    BY <1>5, <1>6, <1>9, SmallLists
  <2>2. QuietStep(h, Range(<<update(fp), next(fp)>>))
    BY <1>1, <1>5, <1>6, <1>9, <2>1, QuietThen
  <2> QED BY <2>1, <2>2
<1> QED BY <1>1, <1>2, <1>6, <1>7, <1>8, <1>9 DEF next, update

\* BroadcastStep collects the clients there are.
LEMMA BroadcastShape ==
    ASSUME HandlerInv, NEW h \in Id, BroadcastStep(h)
    PROVE  /\ Now(h).op = "broadcast"
           /\ QuietStep(h, {Lists(Live)})
<1> DEFINE op == Lists(Live)
<1>1. work[h] # << >> /\ Then(h, <<op>>) /\ Reads /\ Now(h).op = "broadcast"
    BY DEF BroadcastStep, Doing, Now
<1>2. op \in Operation /\ op.op = "lists"
    BY ListTypes DEF HandlerInv, Operation, Lists
<1>3. <<op>> \in Seq(Operation) /\ Range(<<op>>) = {op}
    BY <1>2, SmallLists
<1> HIDE DEF op
<1>4. QuietStep(h, Range(<<op>>))
    BY <1>1, <1>2, <1>3, QuietThen
<1> QED BY <1>1, <1>3, <1>4 DEF op

\* ListsStep writes the list of one of them, or is done.
LEMMA ListsShape ==
    ASSUME HandlerInv, NEW h \in Id, ListsStep(h)
    PROVE  /\ Now(h).op = "lists" /\ Now(h).left \subseteq Id
           /\ \/ Now(h).left = {} /\ QuietStep(h, {})
              \/ \E c \in Now(h).left :
                    QuietStep(h, {Send(c, [type |-> "peers", peers |-> PeerList(c)]),
                                  Lists(Now(h).left \ {c})})
<1> DEFINE left == Now(h).left
           next(c) == Lists(left \ {c})
           list(c) == Send(c, [type |-> "peers", peers |-> PeerList(c)])
<1>1. work[h] # << >> /\ Reads /\ Now(h).op = "lists"
    BY DEF ListsStep, Doing, Now
<1>2. \/ left = {} /\ Then(h, << >>)
      \/ \E c \in left : Then(h, <<list(c), next(c)>>)
    BY DEF ListsStep
<1>3. left \subseteq Id
  <2>1. Now(h) \in Operation
    BY <1>1, RangeOfList DEF HandlerInv, HandlerTypes, Now
  <2> QED BY <1>1, <2>1, OperationFields
<1>4. ASSUME NEW c \in left
      PROVE  /\ next(c) \in Operation /\ next(c).op = "lists"
             /\ list(c) \in Operation /\ list(c).op = "send"
  <2>1. c \in Id /\ PeerList(c) \subseteq Peer
    BY <1>3, ListTypes DEF HandlerInv
  <2> QED BY <1>3, <2>1 DEF Operation, Message, Send, Lists
<1> HIDE DEF next, list
<1>5. CASE left = {} /\ Then(h, << >>)
  <2>1. << >> \in Seq(Operation) /\ Range(<< >>) = {}
    BY SmallLists
  <2>2. QuietStep(h, Range(<< >>))
    BY <1>1, <1>5, <2>1, QuietThen
  <2> QED BY <1>1, <1>3, <1>5, <2>1, <2>2
<1>6. ASSUME NEW c \in left, Then(h, <<list(c), next(c)>>)
      PROVE  QuietStep(h, {list(c), next(c)})
  <2>1. /\ <<list(c), next(c)>> \in Seq(Operation)
        /\ Range(<<list(c), next(c)>>) = {list(c), next(c)}
    BY <1>4, SmallLists
  <2>2. QuietStep(h, Range(<<list(c), next(c)>>))
    BY <1>1, <1>4, <1>6, <2>1, QuietThen
  <2> QED BY <2>1, <2>2
<1> QED BY <1>1, <1>2, <1>3, <1>5, <1>6 DEF next, list

-----------------------------------------------------------------------------
(* Messages and what clients make of them.                                 *)

\* What the message loop changes.
LEMMA ReadFacts ==
    ASSUME NEW a \in Client, NEW msg \in Message
    PROVE  /\ Read(a, msg) \in Client
           /\ a.on \/ msg.type = "registered" => Read(a, msg).on
           /\ Read(a, msg).room =
                IF msg.type = "joined" THEN msg.room
                ELSE IF msg.type = "left" THEN NoRoom ELSE a.room
           /\ Read(a, msg).punch =
                IF msg.type = "cands" /\ a.on THEN a.punch \union {msg.peer}
                ELSE a.punch
           /\ Read(a, msg).tried =
                IF msg.type \in {"registered", "peers"}
                THEN a.tried \union {p.id : p \in {q \in msg.peers : q.pub}}
                ELSE a.tried
<1>1. msg.type \in {"registered", "peers", "created", "joined", "update", "left", "cands"}
    BY MessageFields
<1>2. Nobody \in List
    BY DEF Nobody, List
<1>3. CASE msg.type \in {"registered", "peers"}
  <2>1. msg.peers \subseteq Peer
    BY <1>3, MessageFields
  <2>2. {p.id : p \in msg.peers} \subseteq Id /\ Fresh(a, msg.peers) \subseteq Id
    BY <2>1 DEF Fresh, Peer
  <2>3. Tried(a, msg.peers) = a.tried \union {p.id : p \in {q \in msg.peers : q.pub}}
    BY DEF Tried, Fresh
  <2>4. AfterPeers(a, msg.peers) \in Client
    BY <2>2 DEF AfterPeers, Tried, Client
  <2>5. /\ AfterPeers(a, msg.peers).on = a.on /\ AfterPeers(a, msg.peers).room = a.room
        /\ AfterPeers(a, msg.peers).punch = a.punch
        /\ AfterPeers(a, msg.peers).tried = Tried(a, msg.peers)
    BY DEF AfterPeers, Client
  <2>6. CASE msg.type = "peers"
    <3>1. Read(a, msg) = AfterPeers(a, msg.peers)
      BY <2>6 DEF Read
    <3> QED BY <2>3, <2>4, <2>5, <2>6, <3>1
  <2>7. CASE msg.type = "registered"
    <3>1. Read(a, msg) = [AfterPeers(a, msg.peers) EXCEPT !.on = TRUE]
      BY <2>7 DEF Read
    <3>2. /\ Read(a, msg) \in Client /\ Read(a, msg).on
          /\ Read(a, msg).room = a.room /\ Read(a, msg).punch = a.punch
          /\ Read(a, msg).tried = Tried(a, msg.peers)
      BY <2>4, <2>5, <3>1 DEF Client
    <3> QED BY <2>3, <2>7, <3>2
  <2> QED BY <1>3, <2>6, <2>7
<1>4. CASE msg.type = "created"
    BY <1>4 DEF Read
<1>5. CASE msg.type = "joined"
  <2>1. msg.room \in Code /\ msg.list \in List
    BY <1>5, MessageFields
  <2> QED BY <1>5, <2>1 DEF Read, Client
<1>6. CASE msg.type = "update"
  <2>1. msg.list \in List
    BY <1>6, MessageFields
  <2> QED BY <1>6, <2>1 DEF Read, Client
<1>7. CASE msg.type = "left"
    BY <1>2, <1>7 DEF Read, Client
<1>8. CASE msg.type = "cands"
  <2>1. msg.peer \in Id
    BY <1>8, MessageFields
  <2> QED BY <1>8, <2>1 DEF Read, Client
<1> QED BY <1>1, <1>3, <1>4, <1>5, <1>6, <1>7, <1>8

\* What it writes back.
LEMMA ReactionFacts ==
    ASSUME NEW a \in Client, NEW msg \in Message
    PROVE  /\ Reaction(a, msg) \in Seq(Answer)
           /\ Range(Reaction(a, msg)) =
                (IF msg.type \in {"registered", "peers"}
                 THEN {Ask(p) : p \in Fresh(a, msg.peers)} ELSE {})
                \union (IF msg.type = "registered" THEN {Report} ELSE {})
<1> DEFINE asks == Asks(Fresh(a, msg.peers))
<1>1. CASE msg.type \in {"registered", "peers"}
  <2>1. Fresh(a, msg.peers) \subseteq Id
    BY <1>1, MessageFields DEF Fresh, Peer
  <2>2. IsFiniteSet(Fresh(a, msg.peers))
    <3>1. IsFiniteSet(1 .. MaxSeq)
      BY BoundAssumption, FS_Interval
    <3> QED BY <2>1, <3>1, FS_Subset DEF Id
  <2>3. /\ asks \in Seq({Ask(p) : p \in Fresh(a, msg.peers)})
        /\ Range(asks) = {Ask(p) : p \in Fresh(a, msg.peers)}
    BY <2>2, AsksForAll
  <2>4. {Ask(p) : p \in Fresh(a, msg.peers)} \subseteq Answer
    BY <2>1 DEF Ask, Answer
  <2>5. asks \in Seq(Answer)
    BY <2>3, <2>4
  <2>6. CASE msg.type = "peers"
    BY <2>3, <2>5, <2>6 DEF Reaction
  <2>7. CASE msg.type = "registered"
    <3>1. Reaction(a, msg) = Append(asks, Report)
      BY <2>7 DEF Reaction
    <3>2. Report \in Answer
      BY DEF Report, Answer
    <3> HIDE DEF asks
    <3>3. Append(asks, Report) = asks \o <<Report>>
      BY <2>5, <3>2
    <3>4. <<Report>> \in Seq(Answer)
      BY <3>2, SmallLists
    <3>5. Range(asks \o <<Report>>) = Range(asks) \union Range(<<Report>>)
      BY <2>5, <3>4, RangeOfBoth
    <3>6. asks \o <<Report>> \in Seq(Answer)
      BY <2>5, <3>4
    <3>7. Range(<<Report>>) = {Report}
      BY <3>2, SmallLists
    <3> QED BY <2>3, <2>7, <3>1, <3>3, <3>5, <3>6, <3>7 DEF asks
  <2> QED BY <1>1, <2>6, <2>7
<1>2. CASE msg.type \notin {"registered", "peers"}
  <2>1. Reaction(a, msg) = << >>
    BY <1>2 DEF Reaction
  <2>2. << >> \in Seq(Answer) /\ Range(<< >>) = {}
    BY SmallLists
  <2> QED BY <1>2, <2>1, <2>2
<1> QED BY <1>1, <1>2

\* A message reaches its client, or fails.
Delivered(to, msg) ==
    IF to \in Live
    THEN /\ agent' = [agent EXCEPT ![to] = Read(@, msg)]
         /\ up' = [up EXCEPT ![to] = @ \o Reaction(agent[to], msg)]
         /\ told' = IF msg.type \in {"joined", "update"} /\ msg.list = CurrentMembers(to)
                    THEN told \union {to} ELSE told
         /\ listed' = IF msg.type = "peers" /\ msg.peers = PeerList(to)
                      THEN listed \union {to} ELSE listed
    ELSE UNCHANGED <<agent, up, told, listed>>

\* SendStep writes one message.
LEMMA SendShape ==
    ASSUME HandlerInv, NEW h \in Id, SendStep(h)
    PROVE  \E to \in Id, msg \in Message :
             /\ Now(h) = Send(to, msg) /\ Moves(h, {})
             /\ Delivered(to, msg)
             /\ work' \in [Id -> Seq(Operation)] /\ \A q \in Id : Alone(q)'
             /\ UNCHANGED <<registryVars, who, requests, refused>>
<1>1. /\ work[h] # << >> /\ Then(h, << >>) /\ Now(h).op = "send"
      /\ UNCHANGED <<registryVars, who, requests, refused>>
    BY DEF SendStep, Doing, Now
<1>2. << >> \in Seq(Operation) /\ Range(<< >>) = {}
    BY SmallLists
<1>3. /\ Moves(h, Range(<< >>)) /\ work' \in [Id -> Seq(Operation)]
      /\ Now(h) \in Operation
    BY <1>1, <1>2, ThenMoves DEF HandlerInv
<1>4. Live' = Live
    BY <1>1 DEF registryVars, clientVars, Live
<1>5. \A q \in Id : Alone(q)'
    BY <1>1, <1>2, <1>4, ThenAlone DEF HandlerInv
<1>6. /\ Now(h).to \in Id /\ Now(h).msg \in Message
      /\ Now(h) = Send(Now(h).to, Now(h).msg)
    BY <1>1, <1>3, OperationFields
<1>7. Delivered(Now(h).to, Now(h).msg)
    BY DEF SendStep, Delivered
<1> QED BY <1>1, <1>2, <1>3, <1>5, <1>6, <1>7

\* What a message that arrives changes.
LEMMA DeliveredFacts ==
    ASSUME HandlerTypes, NEW to \in Id, NEW msg \in Message, Delivered(to, msg), to \in Live
    PROVE  /\ agent' \in [Id -> Client] /\ agent'[to] = Read(agent[to], msg)
           /\ \A q \in Id \ {to} : agent'[q] = agent[q] /\ up'[q] = up[q]
           /\ up' \in [Id -> Seq(Answer)]
           /\ Waiting(to)' = Waiting(to) \union Range(Reaction(agent[to], msg))
           /\ \A q \in Id \ {to} : Waiting(q)' = Waiting(q)
<1>1. agent \in [Id -> Client] /\ up \in [Id -> Seq(Answer)]
    BY DEF HandlerTypes
<1>2. agent[to] \in Client /\ up[to] \in Seq(Answer)
    BY <1>1
<1>3. Read(agent[to], msg) \in Client /\ Reaction(agent[to], msg) \in Seq(Answer)
    BY <1>2, ReadFacts, ReactionFacts
<1>4. /\ agent' = [agent EXCEPT ![to] = Read(agent[to], msg)]
      /\ up' = [up EXCEPT ![to] = up[to] \o Reaction(agent[to], msg)]
    BY DEF Delivered
<1>5. up[to] \o Reaction(agent[to], msg) \in Seq(Answer)
    BY <1>2, <1>3
<1>6. Range(up[to] \o Reaction(agent[to], msg)) =
        Range(up[to]) \union Range(Reaction(agent[to], msg))
    BY <1>2, <1>3, RangeOfBoth
<1>7. /\ agent'[to] = Read(agent[to], msg)
      /\ up'[to] = up[to] \o Reaction(agent[to], msg)
      /\ \A q \in Id \ {to} : agent'[q] = agent[q] /\ up'[q] = up[q]
      /\ agent' \in [Id -> Client] /\ up' \in [Id -> Seq(Answer)]
    BY <1>1, <1>3, <1>4, <1>5
<1> QED BY <1>6, <1>7 DEF Waiting

-----------------------------------------------------------------------------
(* What handlers start on, and their changes of the registry.              *)

\* CandidatesStep, by a client that is registered (Alone), for a peer.
LEMMA CandidatesShape ==
    ASSUME HandlerInv, NEW h \in Id, CandidatesStep(h)
    PROVE  /\ UNCHANGED <<registryVars, who, agent, up, requests, told, listed>>
           /\ work' \in [Id -> Seq(Operation)] /\ \A q \in Id : Alone(q)'
           /\ h \in Live
           /\ \E p \in Id :
                /\ Now(h) = Candidates(p)
                /\ \/ /\ p \in Live
                      /\ clients[p].ep # "none" /\ clients[h].ep # "none"
                      /\ Moves(h, {Send(h, [type |-> "cands", peer |-> p]),
                                   Send(p, [type |-> "cands", peer |-> h])})
                      /\ refused' = refused
                   \/ Moves(h, {}) /\ refused' = refused \union {<<h, p>>}
<1>1. /\ work[h] # << >> /\ Now(h).op = "candidates"
      /\ UNCHANGED <<registryVars, who, agent, up, requests, told, listed>>
    BY DEF CandidatesStep, Doing, Now
<1>2. Now(h) \in Operation /\ Now(h) \in Todo(h)
    BY <1>1, RangeOfList DEF HandlerInv, HandlerTypes, Now, Todo
<1> DEFINE p == Now(h).peer
           mine == Send(h, [type |-> "cands", peer |-> p])
           theirs == Send(p, [type |-> "cands", peer |-> h])
           known == p \in Live /\ clients[p].ep # "none" /\ clients[h].ep # "none"
<1>3. p \in Id /\ Now(h) = Candidates(p) /\ h \in Live
    BY <1>1, <1>2, OperationFields DEF HandlerInv, Alone
<1>4. /\ Then(h, IF known THEN <<mine, theirs>> ELSE << >>)
      /\ refused' = IF known THEN refused ELSE refused \union {<<h, p>>}
    BY DEF CandidatesStep, Exchange
<1>5. /\ mine \in Operation /\ theirs \in Operation
      /\ mine.op = "send" /\ theirs.op = "send"
    BY <1>3 DEF Operation, Message, Send
<1>6. Live' = Live
    BY <1>1 DEF registryVars, clientVars, Live
<1> HIDE DEF mine, theirs
<1>7. CASE known
  <2>1. /\ <<mine, theirs>> \in Seq(Operation)
        /\ Range(<<mine, theirs>>) = {mine, theirs}
    BY <1>5, SmallLists
  <2>2. Then(h, <<mine, theirs>>)
    BY <1>4, <1>7
  <2>3. Moves(h, Range(<<mine, theirs>>)) /\ work' \in [Id -> Seq(Operation)]
    BY <1>1, <2>1, <2>2, ThenMoves DEF HandlerInv
  <2>4. \A q \in Id : Alone(q)'
    BY <1>1, <1>5, <1>6, <2>1, <2>2, ThenAlone DEF HandlerInv
  <2>5. Moves(h, {mine, theirs})
    BY <2>1, <2>3
  <2> QED BY <1>1, <1>3, <1>4, <1>7, <2>3, <2>4, <2>5 DEF mine, theirs
<1>8. CASE ~known
  <2>1. << >> \in Seq(Operation) /\ Range(<< >>) = {}
    BY SmallLists
  <2>2. Then(h, << >>)
    BY <1>4, <1>8
  <2>3. Moves(h, Range(<< >>)) /\ work' \in [Id -> Seq(Operation)]
    BY <1>1, <2>1, <2>2, ThenMoves DEF HandlerInv
  <2>4. \A q \in Id : Alone(q)'
    BY <1>1, <1>6, <2>1, <2>2, ThenAlone DEF HandlerInv
  <2>5. Moves(h, {})
    BY <2>1, <2>3
  <2> QED BY <1>1, <1>3, <1>4, <1>8, <2>3, <2>4, <2>5
<1> QED BY <1>7, <1>8

\* RemoveStep, by a client that is registered.
LEMMA RemoveShape ==
    ASSUME HandlerInv, NEW h \in Id, RemoveStep(h)
    PROVE  /\ UNCHANGED <<who, agent, up, requests, refused>> /\ Outdate
           /\ work' \in [Id -> Seq(Operation)] /\ \A q \in Id : Alone(q)'
           /\ h \in Live /\ Remove(h) /\ Live' = Live \ {h}
           /\ Now(h).op = "remove"
           /\ \/ Now(h).code = NoRoom /\ Moves(h, {Broadcast})
              \/ Now(h).code \in Code /\ Moves(h, {Notify(Now(h).code), Broadcast})
<1>1. /\ work[h] # << >> /\ Now(h).op = "remove" /\ Remove(h)
      /\ UNCHANGED <<who, agent, up, requests, refused>> /\ Outdate
      /\ Then(h, IF Now(h).code = NoRoom THEN <<Broadcast>>
                                         ELSE <<Notify(Now(h).code), Broadcast>>)
    BY DEF RemoveStep, Doing, Now, AfterRemove
<1>2. Now(h) \in Operation /\ Now(h) \in Todo(h)
    BY <1>1, RangeOfList DEF HandlerInv, HandlerTypes, Now, Todo
<1>3. h \in Live /\ Now(h).code \in Code \union {NoRoom}
    BY <1>1, <1>2, OperationFields DEF HandlerInv, Alone
<1>4. Live' = Live \ {h}
    BY <1>1 DEF Remove, Live, Restrict
<1>5. Broadcast \in Operation /\ Broadcast.op = "broadcast"
    BY DEF Broadcast, Operation
<1>6. CASE Now(h).code = NoRoom
  <2>1. <<Broadcast>> \in Seq(Operation) /\ Range(<<Broadcast>>) = {Broadcast}
    BY <1>5, SmallLists
  <2>2. Then(h, <<Broadcast>>)
    BY <1>1, <1>6
  <2>3. Moves(h, Range(<<Broadcast>>)) /\ work' \in [Id -> Seq(Operation)]
    BY <1>1, <2>1, <2>2, ThenMoves DEF HandlerInv
  <2>4. \A q \in Id : Alone(q)'
    BY <1>1, <1>4, <1>5, <2>1, <2>2, ThenAlone DEF HandlerInv
  <2>5. Moves(h, {Broadcast})
    BY <2>1, <2>3
  <2> QED BY <1>1, <1>3, <1>4, <1>6, <2>3, <2>4, <2>5
<1>7. CASE Now(h).code # NoRoom
  <2> DEFINE op == Notify(Now(h).code)
  <2>0. op \in Operation /\ op.op = "notify"
    BY <1>3, <1>7 DEF Notify, Operation
  <2> HIDE DEF op
  <2>1. /\ <<op, Broadcast>> \in Seq(Operation)
        /\ Range(<<op, Broadcast>>) = {op, Broadcast}
    BY <1>5, <2>0, SmallLists
  <2>2. Then(h, <<op, Broadcast>>)
    BY <1>1, <1>7 DEF op
  <2>3. Moves(h, Range(<<op, Broadcast>>)) /\ work' \in [Id -> Seq(Operation)]
    BY <1>1, <2>1, <2>2, ThenMoves DEF HandlerInv
  <2>4. \A q \in Id : Alone(q)'
    BY <1>1, <1>4, <1>5, <2>0, <2>1, <2>2, ThenAlone DEF HandlerInv
  <2>5. Moves(h, {op, Broadcast})
    BY <2>1, <2>3
  <2> QED BY <1>1, <1>3, <1>4, <1>7, <2>3, <2>4, <2>5 DEF op
<1> QED BY <1>6, <1>7

\* Reading from the connection.
LEMMA TakeFacts ==
    ASSUME HandlerTypes, NEW h \in Id, up[h] # << >>,
           up' = [up EXCEPT ![h] = Tail(@)]
    PROVE  /\ up' \in [Id -> Seq(Answer)] /\ Head(up[h]) \in Answer
           /\ Head(up[h]) \in Waiting(h)
           /\ Waiting(h) \subseteq Waiting(h)' \union {Head(up[h])}
           /\ Waiting(h)' \subseteq Waiting(h)
           /\ \A q \in Id \ {h} : up'[q] = up[q] /\ Waiting(q)' = Waiting(q)
<1>1. up \in [Id -> Seq(Answer)]
    BY DEF HandlerTypes
<1>2. /\ Head(up[h]) \in Answer /\ Tail(up[h]) \in Seq(Answer)
      /\ Range(up[h]) = {Head(up[h])} \union Range(Tail(up[h]))
    BY <1>1, RangeOfList
<1>3. /\ up' \in [Id -> Seq(Answer)] /\ up'[h] = Tail(up[h])
      /\ \A q \in Id \ {h} : up'[q] = up[q]
    BY <1>1, <1>2
<1> QED BY <1>2, <1>3 DEF Waiting

\* A connection that is served has a fingerprint and nothing to do.
LEMMA IdleFacts ==
    ASSUME HandlerInv, NEW h \in Id, Idle(h)
    PROVE  /\ h \in Live /\ work[h] = << >>
           /\ h \in 1 .. seq /\ who[h] = clients[h].fp /\ who[h] \in FP
BY DEF Idle, HandlerInv, HandlerTypes, RegistryInv, TypeOK, Connection

\* Register starts a handler that welcomes its client and tells the others.
LEMMA RegisterShape ==
    ASSUME HandlerInv, NEW fp \in FP, Register(fp)
    PROVE  /\ MayRegister(fp) /\ Add(fp) /\ Outdate
           /\ who' = Append(who, fp) /\ UNCHANGED <<agent, up, requests, refused>>
           /\ seq + 1 \in Id /\ Live' = Live \union {seq + 1}
           /\ work' \in [Id -> Seq(Operation)] /\ \A q \in Id : Alone(q)'
           /\ \E s \in Id : s = seq + 1 /\ Starts(s, {Welcome, Broadcast})
<1>1. /\ MayRegister(fp) /\ Add(fp) /\ Outdate
      /\ who' = Append(who, fp) /\ UNCHANGED <<agent, up, requests, refused>>
      /\ work' = [work EXCEPT ![seq + 1] = <<Welcome, Broadcast>>]
    BY DEF Register
<1>2. seq \in Nat /\ seq + 1 \in Id
    BY <1>1, BoundAssumption DEF Add, HandlerInv, RegistryInv, TypeOK, Id
<1>3. Live' = Live \union {seq + 1}
    BY <1>1, AddShape DEF HandlerInv, RegistryInv
<1>4. work[seq + 1] = << >>
    BY <1>2 DEF HandlerInv, Unborn
<1>5. /\ Welcome \in Operation /\ Welcome.op = "welcome"
      /\ Broadcast \in Operation /\ Broadcast.op = "broadcast"
    BY DEF Welcome, Broadcast, Operation
<1>6. /\ <<Welcome, Broadcast>> \in Seq(Operation)
      /\ Range(<<Welcome, Broadcast>>) = {Welcome, Broadcast}
    BY <1>5, SmallLists
<1>7. PICK s \in Id : s = seq + 1
    BY <1>2
<1>8. /\ work' \in [Id -> Seq(Operation)] /\ \A q \in Id : Alone(q)'
      /\ Starts(s, Range(<<Welcome, Broadcast>>))
    BY <1>1, <1>3, <1>4, <1>5, <1>6, <1>7, StartMoves DEF HandlerInv
<1> QED BY <1>1, <1>2, <1>3, <1>6, <1>7, <1>8

\* HandleReport stores an endpoint and tells everybody.
LEMMA ReportShape ==
    ASSUME HandlerInv, NEW h \in Id, HandleReport(h)
    PROVE  /\ Idle(h) /\ Head(up[h]) = Report /\ up[h] # << >>
           /\ up' = [up EXCEPT ![h] = Tail(@)]
           /\ \E ep \in Endpoint : UpdateEndpoint(h, ep)
           /\ Live' = Live
           /\ UNCHANGED <<who, agent, requests, refused>> /\ Outdate
           /\ work' \in [Id -> Seq(Operation)] /\ \A q \in Id : Alone(q)'
           /\ Starts(h, {Broadcast})
<1>1. /\ Idle(h) /\ Head(up[h]) = Report /\ up[h] # << >>
      /\ up' = [up EXCEPT ![h] = Tail(@)]
      /\ \E ep \in Endpoint : UpdateEndpoint(h, ep)
      /\ UNCHANGED <<who, agent, requests, refused>> /\ Outdate
      /\ work' = [work EXCEPT ![h] = <<Broadcast>>]
    BY RequestAssumption DEF HandleReport, AfterReport
<1>2. Live' = Live
    BY <1>1 DEF UpdateEndpoint, Live, HandlerInv, RegistryInv, TypeOK
<1>3. Broadcast \in Operation /\ Broadcast.op = "broadcast"
    BY DEF Broadcast, Operation
<1>4. <<Broadcast>> \in Seq(Operation) /\ Range(<<Broadcast>>) = {Broadcast}
    BY <1>3, SmallLists
<1>5. /\ work' \in [Id -> Seq(Operation)] /\ \A q \in Id : Alone(q)'
      /\ Starts(h, Range(<<Broadcast>>))
    BY <1>1, <1>2, <1>3, <1>4, IdleFacts, StartMoves DEF HandlerInv
<1> QED BY <1>1, <1>2, <1>4, <1>5

\* HandleConnect goes on with the candidates, or refuses.
LEMMA ConnectShape ==
    ASSUME HandlerInv, NEW h \in Id, HandleConnect(h)
    PROVE  /\ Idle(h) /\ up[h] # << >>
           /\ up' = [up EXCEPT ![h] = Tail(@)]
           /\ UNCHANGED <<registryVars, who, agent, requests, told, listed>>
           /\ work' \in [Id -> Seq(Operation)] /\ \A q \in Id : Alone(q)'
           /\ \E p \in Id :
                /\ Head(up[h]) = Ask(p)
                /\ \/ Starts(h, {Candidates(p)}) /\ refused' = refused
                   \/ Starts(h, {}) /\ refused' = refused \union {<<h, p>>}
<1> DEFINE p == Head(up[h]).peer
           visible == p \in Live /\ VisibleTo(h, who[h], p, who[p])
<1>1. /\ Idle(h) /\ up[h] # << >> /\ Head(up[h]) # Report
      /\ up' = [up EXCEPT ![h] = Tail(@)]
      /\ UNCHANGED <<registryVars, who, agent, requests, told, listed>>
      /\ work' = [work EXCEPT ![h] = IF visible THEN <<Candidates(p)>> ELSE << >>]
      /\ refused' = IF visible THEN refused ELSE refused \union {<<h, p>>}
    BY DEF HandleConnect
<1>2. Head(up[h]) \in Answer
    BY <1>1, TakeFacts DEF HandlerInv
<1>3. p \in Id /\ Head(up[h]) = Ask(p)
    BY <1>1, <1>2 DEF Answer, Ask, Report
<1>4. h \in Live /\ work[h] = << >> /\ Live' = Live
    BY <1>1, IdleFacts DEF registryVars, clientVars, Live
<1>5. Candidates(p) \in Operation
    BY <1>3 DEF Candidates, Operation
<1> HIDE DEF p, visible
<1>6. CASE visible
  <2>1. /\ <<Candidates(p)>> \in Seq(Operation)
        /\ Range(<<Candidates(p)>>) = {Candidates(p)}
    BY <1>5, SmallLists
  <2>2. Len(<<Candidates(p)>>) = 1
    OBVIOUS
  <2>3. work' = [work EXCEPT ![h] = <<Candidates(p)>>] /\ refused' = refused
    BY <1>1, <1>6
  <2>4. /\ work' \in [Id -> Seq(Operation)] /\ \A q \in Id : Alone(q)'
        /\ Starts(h, Range(<<Candidates(p)>>))
    BY <1>4, <2>1, <2>2, <2>3, StartMoves DEF HandlerInv
  <2> QED BY <1>1, <1>3, <2>1, <2>3, <2>4
<1>7. CASE ~visible
  <2>1. << >> \in Seq(Operation) /\ Range(<< >>) = {}
    BY SmallLists
  <2>2. /\ work' = [work EXCEPT ![h] = << >>]
        /\ refused' = refused \union {<<h, p>>}
    BY <1>1, <1>7
  <2>3. /\ work' \in [Id -> Seq(Operation)] /\ \A q \in Id : Alone(q)'
        /\ Starts(h, Range(<< >>))
    BY <1>4, <2>1, <2>2, StartMoves DEF HandlerInv
  <2> QED BY <1>1, <1>3, <2>1, <2>2, <2>3
<1> QED BY <1>6, <1>7

\* HandleRoomCreate puts its client into a new room.
LEMMA CreateShape ==
    ASSUME HandlerInv, NEW h \in Id, HandleRoomCreate(h)
    PROVE  /\ Idle(h) /\ UNCHANGED <<who, agent, up, refused>> /\ Outdate
           /\ Live' = Live
           /\ work' \in [Id -> Seq(Operation)] /\ \A q \in Id : Alone(q)'
           /\ \E code \in Code :
                /\ CreateRoom(who[h], code)
                /\ Starts(h, {Send(h, [type |-> "created", room |-> code]), Created(code)})
<1>1. PICK code \in Code :
        /\ CreateRoom(who[h], code)
        /\ work' = [work EXCEPT ![h] =
                <<Send(h, [type |-> "created", room |-> code]), Created(code)>>]
    BY DEF HandleRoomCreate
<1>2. Idle(h) /\ UNCHANGED <<who, agent, up, refused>> /\ Outdate
    BY DEF HandleRoomCreate, Request
<1>3. Live' = Live
    BY <1>1 DEF CreateRoom, clientVars, Live
<1> DEFINE first == Send(h, [type |-> "created", room |-> code])
           second == Created(code)
<1>4. /\ first \in Operation /\ first.op = "send"
      /\ second \in Operation /\ second.op = "created"
    BY DEF Send, Created, Operation, Message
<1> HIDE DEF first, second
<1>5. /\ <<first, second>> \in Seq(Operation)
      /\ Range(<<first, second>>) = {first, second}
    BY <1>4, SmallLists
<1>6. work' = [work EXCEPT ![h] = <<first, second>>]
    BY <1>1 DEF first, second
<1>7. /\ work' \in [Id -> Seq(Operation)] /\ \A q \in Id : Alone(q)'
      /\ Starts(h, Range(<<first, second>>))
    BY <1>2, <1>3, <1>4, <1>5, <1>6, IdleFacts, StartMoves DEF HandlerInv
<1>8. Starts(h, {first, second})
    BY <1>5, <1>7
<1> QED BY <1>1, <1>2, <1>3, <1>7, <1>8 DEF first, second

\* HandleRoomJoin sends the new list to its client, then to the members.
LEMMA JoinShape ==
    ASSUME HandlerInv, NEW h \in Id, HandleRoomJoin(h)
    PROVE  /\ Idle(h) /\ UNCHANGED <<who, agent, up, refused>> /\ Outdate
           /\ Live' = Live
           /\ work' \in [Id -> Seq(Operation)] /\ \A q \in Id : Alone(q)'
           /\ \E code \in Code, list \in List :
                /\ JoinRoom(who[h], code) /\ list = MemberList(code)'
                /\ Starts(h, {Send(h, [type |-> "joined", room |-> code, list |-> list]),
                              Notify(code), Broadcast})
<1>1. PICK code \in Code :
        /\ JoinRoom(who[h], code)
        /\ work' = [work EXCEPT ![h] =
                <<Send(h, [type |-> "joined", room |-> code, list |-> MemberList(code)']),
                  Notify(code), Broadcast>>]
    BY DEF HandleRoomJoin
<1>2. Idle(h) /\ UNCHANGED <<who, agent, up, refused>> /\ Outdate
    BY DEF HandleRoomJoin, Request
<1>3. Live' = Live
    BY <1>1 DEF JoinRoom, clientVars, Live
<1>4. TypeOK'
    BY <1>1, <1>2, IdleFacts, RoomRegistryInv DEF HandlerInv, RegistryInv
<1>5. PICK list \in List : list = MemberList(code)'
    BY <1>4 DEF MemberList, ResolvedMembers, List, TypeOK
<1> DEFINE first == Send(h, [type |-> "joined", room |-> code, list |-> list])
           second == Notify(code)
<1>6. /\ first \in Operation /\ first.op = "send"
      /\ second \in Operation /\ second.op = "notify"
      /\ Broadcast \in Operation /\ Broadcast.op = "broadcast"
    BY <1>5 DEF Send, Notify, Broadcast, Operation, Message
<1>7. work' = [work EXCEPT ![h] = <<first, second, Broadcast>>]
    BY <1>1, <1>5
<1> HIDE DEF first, second
<1>8. /\ <<first, second, Broadcast>> \in Seq(Operation)
      /\ Range(<<first, second, Broadcast>>) = {first, second, Broadcast}
    BY <1>6, SmallLists
<1>9. /\ work' \in [Id -> Seq(Operation)] /\ \A q \in Id : Alone(q)'
      /\ Starts(h, Range(<<first, second, Broadcast>>))
    BY <1>2, <1>3, <1>6, <1>7, <1>8, IdleFacts, StartMoves DEF HandlerInv
<1>10. Starts(h, {first, second, Broadcast})
    BY <1>8, <1>9
<1> QED BY <1>1, <1>2, <1>3, <1>5, <1>9, <1>10 DEF first, second

\* HandleRoomLeave tells its client, then those who stay.
LEMMA LeaveShape ==
    ASSUME HandlerInv, NEW h \in Id, HandleRoomLeave(h)
    PROVE  /\ Idle(h) /\ UNCHANGED <<who, agent, up, refused>> /\ Outdate
           /\ Live' = Live
           /\ work' \in [Id -> Seq(Operation)] /\ \A q \in Id : Alone(q)'
           /\ RoomOf(h) \in Code /\ LeaveRoom(who[h])
           /\ Starts(h, {Send(h, [type |-> "left"]), Notify(RoomOf(h)), Broadcast})
<1>1. /\ Idle(h) /\ UNCHANGED <<who, agent, up, refused>> /\ Outdate
      /\ LeaveRoom(who[h])
      /\ work' = [work EXCEPT ![h] =
            <<Send(h, [type |-> "left"]), Notify(RoomOf(h)), Broadcast>>]
    BY DEF HandleRoomLeave, Request, AfterLeave
<1>2. Live' = Live
    BY <1>1 DEF LeaveRoom, clientVars, Live
<1>3. RoomOf(h) \in Code
    BY <1>1, IdleFacts DEF LeaveRoom, RoomOf, HandlerInv, RegistryInv, TypeOK
<1> DEFINE first == Send(h, [type |-> "left"])
           second == Notify(RoomOf(h))
<1>4. /\ first \in Operation /\ first.op = "send"
      /\ second \in Operation /\ second.op = "notify"
      /\ Broadcast \in Operation /\ Broadcast.op = "broadcast"
    BY <1>3 DEF Send, Notify, Broadcast, Operation, Message
<1>5. work' = [work EXCEPT ![h] = <<first, second, Broadcast>>]
    BY <1>1
<1> HIDE DEF first, second
<1>6. /\ <<first, second, Broadcast>> \in Seq(Operation)
      /\ Range(<<first, second, Broadcast>>) = {first, second, Broadcast}
    BY <1>4, SmallLists
<1>7. /\ work' \in [Id -> Seq(Operation)] /\ \A q \in Id : Alone(q)'
      /\ Starts(h, Range(<<first, second, Broadcast>>))
    BY <1>1, <1>2, <1>4, <1>5, <1>6, IdleFacts, StartMoves DEF HandlerInv
<1>8. Starts(h, {first, second, Broadcast})
    BY <1>6, <1>7
<1> QED BY <1>1, <1>2, <1>3, <1>7, <1>8 DEF first, second

\* Disconnect starts the deferred cleanup, which remembers the room.
LEMMA DisconnectShape ==
    ASSUME HandlerInv, NEW h \in Id, Disconnect(h)
    PROVE  /\ Idle(h) /\ UNCHANGED <<registryVars, who, agent, up, refused>> /\ Outdate
           /\ work' \in [Id -> Seq(Operation)] /\ \A q \in Id : Alone(q)'
           /\ Starts(h, {Removal(RoomOf(h))})
<1> DEFINE op == Removal(RoomOf(h))
<1>1. /\ Idle(h) /\ UNCHANGED <<registryVars, who, agent, up, refused>> /\ Outdate
      /\ work' = [work EXCEPT ![h] = <<op>>]
    BY DEF Disconnect, Request
<1>2. Live' = Live
    BY <1>1 DEF registryVars, clientVars, Live
<1>3. RoomOf(h) \in Code \union {NoRoom}
    BY <1>1, IdleFacts DEF RoomOf, HandlerInv, RegistryInv, TypeOK
<1>4. op \in Operation
    BY <1>3 DEF Removal, Operation
<1> HIDE DEF op
<1>5. <<op>> \in Seq(Operation) /\ Range(<<op>>) = {op} /\ Len(<<op>>) = 1
    BY <1>4, SmallLists
<1>6. /\ work' \in [Id -> Seq(Operation)] /\ \A q \in Id : Alone(q)'
      /\ Starts(h, Range(<<op>>))
    BY <1>1, <1>2, <1>5, IdleFacts, StartMoves DEF HandlerInv
<1> QED BY <1>1, <1>5, <1>6 DEF op

\* Whatever the handlers do to the registry is a call of it.
LEMMA RegistryStep ==
    ASSUME HandlerInv, [ServerNext]_vars
    PROVE  [Next]_registryVars
<1>1. ASSUME NEW h \in Id, Idle(h)
      PROVE  h \in Live /\ who[h] = clients[h].fp
    BY <1>1, IdleFacts
<1>2. ASSUME NEW fp \in FP, Register(fp) PROVE Next
    BY <1>2 DEF Register, Next
<1>3. ASSUME NEW h \in Id, HandlerStep(h) PROVE [Next]_registryVars
  <2>1. CASE RemoveStep(h)
    BY <2>1, RemoveShape DEF Next
  <2>2. CASE ~RemoveStep(h)
    BY <1>3, <2>2 DEF HandlerStep, SendStep, WelcomeStep, CreatedStep, NotifyStep,
       PushStep, BroadcastStep, ListsStep, CandidatesStep, Reads
  <2> QED BY <2>1, <2>2
<1>4. ASSUME NEW h \in Id, HandleReport(h) PROVE Next
    BY <1>1, <1>4, ReportShape DEF Next
<1>5. ASSUME NEW h \in Id, HandleConnect(h) \/ Disconnect(h)
      PROVE  UNCHANGED registryVars
    BY <1>5 DEF HandleConnect, Disconnect
<1>6. ASSUME NEW h \in Id, HandleRoomCreate(h) \/ HandleRoomJoin(h) \/ HandleRoomLeave(h)
      PROVE  Next
    BY <1>1, <1>6 DEF HandleRoomCreate, HandleRoomJoin, HandleRoomLeave, Next
<1>7. CASE UNCHANGED vars
    BY <1>7 DEF vars
<1> QED BY <1>2, <1>3, <1>4, <1>5, <1>6, <1>7 DEF ServerNext

-----------------------------------------------------------------------------
(* The handlers' own invariant.                                            *)

\* Nothing is registered and nothing is to do.
LEMMA HandlerInit == ServerInit => HandlerInv
<1> SUFFICES ASSUME ServerInit PROVE HandlerInv
    OBVIOUS
<1>1. RegistryInv
    BY InitRegistryInv DEF ServerInit
<1>2. Live = {} /\ seq = 0
    BY DEF ServerInit, Init, Live
<1>3. << >> \in Seq(FP) /\ << >> \in Seq(Operation) /\ << >> \in Seq(Answer)
    BY SmallLists
<1>4. Nobody \in List
    BY DEF Nobody, List
<1>5. [on |-> FALSE, room |-> NoRoom, list |-> Nobody,
       routes |-> {}, tried |-> {}, punch |-> {}] \in Client
    BY <1>4 DEF Client
<1>6. agent \in [Id -> Client]
    BY <1>5 DEF ServerInit
<1>7. HandlerTypes
    BY <1>2, <1>3, <1>6 DEF ServerInit, HandlerTypes
<1>8. \A q \in Id : Todo(q) = {}
    BY DEF ServerInit, Todo, Range
<1>9. \A q \in Id : Unborn(q)
    BY DEF ServerInit, Unborn
<1> QED BY <1>1, <1>2, <1>7, <1>8, <1>9 DEF HandlerInv, Alone

\* Who moves has something to do, and so has been registered.
LEMMA MoverIsKnown ==
    ASSUME HandlerInv, NEW h \in Id, NEW new, Moves(h, new)
    PROVE  h \in 1 .. seq
<1>1. work[h] # << >>
    BY SmallLists DEF Moves, Todo
<1> QED BY <1>1, BusyIsKnown

\* What a step by a registered client has to keep.
LEMMA HandlerInvKept ==
    ASSUME HandlerInv, RegistryInv', NEW h \in 1 .. seq,
           work' \in [Id -> Seq(Operation)], \A q \in Id : Alone(q)',
           \A q \in Id \ {h} : work'[q] = work[q],
           agent' \in [Id -> Client], up' \in [Id -> Seq(Answer)],
           \A q \in Id : q > seq => agent'[q] = agent[q] /\ up'[q] = up[q],
           told' \subseteq Id, listed' \subseteq Id, who' = who, seq' = seq,
           \A id \in Live' : id \in Live /\ clients'[id].fp = clients[id].fp
    PROVE  HandlerInv'
<1>1. HandlerTypes'
    BY DEF HandlerInv, HandlerTypes
<1>2. \A id \in Live' : who'[id] = clients'[id].fp
    BY DEF HandlerInv
<1>3. seq \in Nat /\ Id \subseteq Nat
    BY DEF HandlerInv, RegistryInv, TypeOK, Id
<1>4. \A q \in Id : q > seq' => Unborn(q)'
  <2> SUFFICES ASSUME NEW q \in Id, q > seq PROVE Unborn(q)'
    OBVIOUS
  <2>1. q # h /\ Unborn(q)
    BY <1>3 DEF HandlerInv
  <2> QED BY <2>1 DEF Unborn
<1> QED BY <1>1, <1>2, <1>4 DEF HandlerInv

\* What Outdate leaves of the history.
LEMMA OutdateFacts ==
    ASSUME Outdate
    PROVE  /\ told' \subseteq told /\ listed' \subseteq listed
           /\ \A i \in told : CurrentMembers(i)' = CurrentMembers(i) => i \in told'
           /\ \A i \in listed : PeerList(i)' = PeerList(i) => i \in listed'
           /\ \A i \in listed' : i \in listed /\ PeerList(i)' = PeerList(i)
BY DEF Outdate

\* Every step of the server keeps it.
LEMMA HandlerKept == HandlerInv /\ [ServerNext]_vars => HandlerInv'
<1> SUFFICES ASSUME HandlerInv, [ServerNext]_vars PROVE HandlerInv'
    OBVIOUS
<1>1. RegistryInv'
    BY RegistryStep, NextRegistryInv DEF HandlerInv
<1>2. HandlerTypes
    BY DEF HandlerInv
<1>3. agent \in [Id -> Client] /\ up \in [Id -> Seq(Answer)] /\ told \subseteq Id /\ listed \subseteq Id
    BY DEF HandlerInv, HandlerTypes
<1>4. Live \subseteq Id /\ seq \in Nat /\ \A id \in Live : id <= seq
    BY BoundAssumption DEF HandlerInv, RegistryInv, TypeOK, Id
<1>5. ASSUME NEW h \in Id, NEW new, QuietStep(h, new) PROVE HandlerInv'
  <2>1. /\ Live' = Live /\ clients' = clients /\ seq' = seq /\ who' = who
        /\ UNCHANGED <<agent, up, told, listed>>
    BY <1>5 DEF QuietStep, Reads, registryVars, clientVars, Live
  <2>2. /\ h \in 1 .. seq /\ \A q \in Id \ {h} : work'[q] = work[q]
    BY <1>5, MoverIsKnown DEF QuietStep, Moves
  <2> QED BY <1>1, <1>3, <1>5, <2>1, <2>2, HandlerInvKept DEF QuietStep
<1>6. ASSUME NEW h \in Id, SendStep(h) PROVE HandlerInv'
  <2>1. PICK to \in Id, msg \in Message :
             /\ Now(h) = Send(to, msg) /\ Moves(h, {})
             /\ Delivered(to, msg)
             /\ work' \in [Id -> Seq(Operation)] /\ \A q \in Id : Alone(q)'
             /\ UNCHANGED <<registryVars, who, requests, refused>>
    BY <1>6, SendShape
  <2>2. /\ Live' = Live /\ clients' = clients /\ seq' = seq /\ who' = who
    BY <2>1 DEF registryVars, clientVars, Live
  <2>3. /\ h \in 1 .. seq /\ \A q \in Id \ {h} : work'[q] = work[q]
    BY <2>1, MoverIsKnown DEF Moves
  <2>4. /\ agent' \in [Id -> Client] /\ up' \in [Id -> Seq(Answer)]
        /\ \A q \in Id : q > seq => agent'[q] = agent[q] /\ up'[q] = up[q]
        /\ told' \subseteq Id /\ listed' \subseteq Id
    <3>1. CASE to \in Live
      <4>1. told' \subseteq Id /\ listed' \subseteq Id
        BY <1>3, <2>1, <3>1 DEF Delivered
      <4>2. ~(to > seq)
        BY <1>4, <3>1 DEF Id
      <4> QED BY <1>2, <2>1, <3>1, <4>1, <4>2, DeliveredFacts
    <3>2. CASE to \notin Live
      BY <1>3, <2>1, <3>2 DEF Delivered
    <3> QED BY <3>1, <3>2
  <2> QED BY <1>1, <2>1, <2>2, <2>3, <2>4, HandlerInvKept
<1>7. ASSUME NEW h \in Id, CandidatesStep(h) PROVE HandlerInv'
  <2>1. /\ Live' = Live /\ clients' = clients /\ seq' = seq /\ who' = who
        /\ UNCHANGED <<agent, up, told, listed>>
        /\ work' \in [Id -> Seq(Operation)] /\ \A q \in Id : Alone(q)'
    BY <1>7, CandidatesShape DEF registryVars, clientVars, Live
  <2>2. h \in 1 .. seq /\ \A q \in Id \ {h} : work'[q] = work[q]
    BY <1>7, CandidatesShape, MoverIsKnown DEF Moves
  <2> QED BY <1>1, <1>3, <2>1, <2>2, HandlerInvKept
<1>8. ASSUME NEW h \in Id, RemoveStep(h) PROVE HandlerInv'
  <2>1. /\ UNCHANGED <<who, agent, up>> /\ Outdate
        /\ work' \in [Id -> Seq(Operation)] /\ \A q \in Id : Alone(q)'
        /\ h \in Live /\ Remove(h) /\ Live' = Live \ {h}
    BY <1>8, RemoveShape
  <2>2. h \in 1 .. seq /\ \A q \in Id \ {h} : work'[q] = work[q]
    BY <1>8, RemoveShape, MoverIsKnown DEF Moves
  <2>3. seq' = seq /\ \A id \in Live' : clients'[id] = clients[id]
    BY <2>1 DEF Remove, Live, Restrict
  <2>4. told' \subseteq Id /\ listed' \subseteq Id
    BY <1>3, <2>1, OutdateFacts
  <2> QED BY <1>1, <1>3, <2>1, <2>2, <2>3, <2>4, HandlerInvKept
<1>9. ASSUME NEW fp \in FP, Register(fp) PROVE HandlerInv'
  <2>1. /\ Add(fp) /\ Outdate /\ who' = Append(who, fp) /\ UNCHANGED <<agent, up>>
        /\ seq + 1 \in Id /\ Live' = Live \union {seq + 1}
        /\ work' \in [Id -> Seq(Operation)] /\ \A q \in Id : Alone(q)'
    BY <1>9, RegisterShape
  <2>2. /\ seq' = seq + 1 /\ clients'[seq + 1].fp = fp
        /\ \A id \in Live : clients'[id] = clients[id]
    <3>1. PICK a \in FreeIP :
            /\ clients'[seq + 1] = [fp |-> fp, vip |-> a, ep |-> "none"]
            /\ \A i \in Live : clients'[i] = clients[i]
            /\ seq' = seq + 1
      BY <2>1, AddShape DEF HandlerInv, RegistryInv
    <3> QED BY <3>1
  <2>3. told' \subseteq Id /\ listed' \subseteq Id
    BY <1>3, <2>1, OutdateFacts
  <2>4. /\ who' \in Seq(FP) /\ Len(who') = seq + 1 /\ who'[seq + 1] = fp
        /\ \A i \in 1 .. seq : who'[i] = who[i]
    BY <1>2, <1>4, <2>1 DEF HandlerTypes
  <2>5. HandlerTypes'
    BY <1>3, <2>1, <2>2, <2>3, <2>4 DEF HandlerTypes
  <2>6. \A id \in Live' : who'[id] = clients'[id].fp
    <3>1. \A id \in Live : id \in 1 .. seq /\ who[id] = clients[id].fp
      BY DEF HandlerInv, RegistryInv, TypeOK
    <3> QED BY <2>1, <2>2, <2>4, <3>1
  <2>7. PICK s \in Id : s = seq + 1 /\ Starts(s, {Welcome, Broadcast})
    BY <1>9, RegisterShape
  <2>8. \A q \in Id : q > seq' => Unborn(q)'
    <3> SUFFICES ASSUME NEW q \in Id, q > seq + 1 PROVE Unborn(q)'
      BY <2>2
    <3>1. q # s /\ Unborn(q)
      BY <1>4, <2>7 DEF HandlerInv, Id
    <3>2. work'[q] = work[q]
      BY <2>7, <3>1 DEF Starts
    <3> QED BY <2>1, <3>1, <3>2 DEF Unborn
  <2> QED BY <1>1, <2>1, <2>5, <2>6, <2>8 DEF HandlerInv
<1>10. ASSUME NEW h \in Id, NEW new, Idle(h), Starts(h, new),
              work' \in [Id -> Seq(Operation)], \A q \in Id : Alone(q)',
              UNCHANGED <<who, agent, seq>>, told' \subseteq told, listed' \subseteq listed,
              Live' = Live, \A id \in Live : clients'[id].fp = clients[id].fp,
              up' \in [Id -> Seq(Answer)], \A q \in Id \ {h} : up'[q] = up[q]
       PROVE  HandlerInv'
  <2>1. h \in 1 .. seq
    BY <1>10, IdleFacts
  <2>2. \A q \in Id \ {h} : work'[q] = work[q]
    BY <1>10 DEF Starts
  <2>3. \A q \in Id : q > seq => agent'[q] = agent[q] /\ up'[q] = up[q]
    BY <1>4, <1>10, <2>1 DEF Id
  <2> QED BY <1>1, <1>3, <1>10, <2>1, <2>2, <2>3, HandlerInvKept
<1>11. ASSUME NEW h \in Id, HandleReport(h) PROVE HandlerInv'
  <2>1. \A id \in Live : clients'[id].fp = clients[id].fp
    <3>1. PICK ep \in Endpoint : clients' = [clients EXCEPT ![h].ep = ep]
      BY <1>11, ReportShape DEF UpdateEndpoint
    <3>2. clients \in [Live -> Connection]
      BY DEF HandlerInv, RegistryInv, TypeOK
    <3> QED BY <3>1, <3>2 DEF Connection
  <2>2. seq' = seq
    BY <1>11, ReportShape DEF UpdateEndpoint
  <2>3. up' \in [Id -> Seq(Answer)] /\ \A q \in Id \ {h} : up'[q] = up[q]
    BY <1>2, <1>11, ReportShape, TakeFacts
  <2> QED BY <1>10, <1>11, <2>1, <2>2, <2>3, ReportShape, OutdateFacts
<1>12. ASSUME NEW h \in Id, HandleConnect(h) PROVE HandlerInv'
  <2>1. UNCHANGED <<clients, seq, who, agent, told, listed>> /\ Live' = Live
    BY <1>12, ConnectShape DEF registryVars, clientVars, Live
  <2>2. up' \in [Id -> Seq(Answer)] /\ \A q \in Id \ {h} : up'[q] = up[q]
    BY <1>2, <1>12, ConnectShape, TakeFacts
  <2> QED BY <1>10, <1>12, <2>1, <2>2, ConnectShape
<1>13. ASSUME NEW h \in Id, HandleRoomCreate(h) PROVE HandlerInv'
  <2>1. UNCHANGED <<clients, seq>>
    BY <1>13, CreateShape DEF CreateRoom, clientVars
  <2> QED BY <1>3, <1>10, <1>13, <2>1, CreateShape, OutdateFacts
<1>14. ASSUME NEW h \in Id, HandleRoomJoin(h) PROVE HandlerInv'
  <2>1. UNCHANGED <<clients, seq>>
    BY <1>14, JoinShape DEF JoinRoom, clientVars
  <2> QED BY <1>3, <1>10, <1>14, <2>1, JoinShape, OutdateFacts
<1>15. ASSUME NEW h \in Id, HandleRoomLeave(h) PROVE HandlerInv'
  <2>1. UNCHANGED <<clients, seq>>
    BY <1>15, LeaveShape DEF LeaveRoom, clientVars
  <2> QED BY <1>3, <1>10, <1>15, <2>1, LeaveShape, OutdateFacts
<1>16. ASSUME NEW h \in Id, Disconnect(h) PROVE HandlerInv'
  <2>1. UNCHANGED <<clients, seq>> /\ Live' = Live
    BY <1>16, DisconnectShape DEF registryVars, clientVars, Live
  <2> QED BY <1>3, <1>10, <1>16, <2>1, DisconnectShape, OutdateFacts
<1>17. CASE UNCHANGED vars
    BY <1>1, <1>17 DEF vars, registryVars, clientVars, HandlerInv, HandlerTypes,
       Alone, Unborn, Todo, Live
<1>18. ASSUME NEW h \in Id, HandlerStep(h) PROVE HandlerInv'
  <2>1. CASE WelcomeStep(h) \/ CreatedStep(h) \/ NotifyStep(h)
    BY <1>5, <2>1, WelcomeShape, CreatedShape, NotifyShape
  <2>2. CASE PushStep(h)
    BY <1>5, <2>2, PushShape
  <2>3. CASE BroadcastStep(h) \/ ListsStep(h)
    BY <1>5, <2>3, BroadcastShape, ListsShape
  <2> QED BY <1>6, <1>7, <1>8, <1>18, <2>1, <2>2, <2>3 DEF HandlerStep
<1> QED
    BY <1>9, <1>11, <1>12, <1>13, <1>14, <1>15, <1>16, <1>17, <1>18 DEF ServerNext

\* The server's handlers keep the registry's rules: what was shown of any
\* sequence of its calls holds of the calls they make.
THEOREM ServerUsesRegistry == ServerSpec => Spec
<1>1. ServerInit => Init
    BY DEF ServerInit
<1>2. HandlerInv /\ [ServerNext]_vars => [Next]_registryVars
    BY RegistryStep
<1> QED BY <1>1, <1>2, HandlerInit, HandlerKept, PTL DEF ServerSpec, Spec

-----------------------------------------------------------------------------
(* Hole punching is two-sided.                                             *)

\* Handler h drops some operations and is given others.
Changes(h, gone, new) ==
    /\ Todo(h) \subseteq Todo(h)' \union gone
    /\ Todo(h)' \subseteq Todo(h) \union new
    /\ new \subseteq Todo(h)'
    /\ \A q \in Id \ {h} : Todo(q)' = Todo(q)

\* Handlers that move or start change what they have to do.
LEMMA MovesChanges ==
    ASSUME NEW h, NEW new
    PROVE  /\ Moves(h, new) => Changes(h, {Now(h)}, new)
           /\ Starts(h, new) => Changes(h, {}, new)
BY DEF Moves, Starts, Changes

Exchanges(op) == op.op = "send" /\ op.msg.type = "cands"

\* Steps that have nothing to do with candidates.
LEMMA PunchKept ==
    ASSUME PunchInv, NEW h \in Id, NEW gone, NEW new, Changes(h, gone, new),
           \A op \in gone \union new : ~Exchanges(op),
           \A p \in Id : agent'[p].punch = agent[p].punch /\ (agent[p].on => agent'[p].on),
           seq' = seq, Live' \subseteq Live, Live \subseteq Id,
           \A p \in Live' : clients'[p].ep # "none" \/ Report \in Waiting(p)' =>
                clients[p].ep # "none" \/ Report \in Waiting(p) \/ agent'[p].on
    PROVE  PunchInv'
<1>1. ASSUME NEW p \in Id, NEW q \in Id PROVE Given(p, q)' <=> Given(p, q)
  <2> DEFINE op == Send(p, [type |-> "cands", peer |-> q])
  <2>1. Exchanges(op)
    BY DEF Exchanges, Send
  <2> HIDE DEF op
  <2>2. \A g \in Id : op \in Todo(g)' <=> op \in Todo(g)
    BY <2>1 DEF Changes
  <2> QED BY <2>2 DEF Given, op
<1>2. \A p, q \in Id : Given(p, q)' =>
        /\ p <= seq' /\ q <= seq'
        /\ Given(q, p)' \/ p \notin Live' \/ q \notin Live'
    BY <1>1 DEF PunchInv
<1>3. \A p \in Live' :
        /\ clients'[p].ep # "none" \/ Report \in Waiting(p)' => agent'[p].on
        /\ \A q \in Id : Given(p, q)' => agent'[p].on
    BY <1>1 DEF PunchInv
<1> QED BY <1>2, <1>3 DEF PunchInv

\* Nobody is given anything at first.
LEMMA PunchInit == ServerInit => PunchInv
<1> SUFFICES ASSUME ServerInit PROVE PunchInv
    OBVIOUS
<1>1. Live = {} /\ \A q \in Id : Todo(q) = {} /\ agent[q].punch = {}
    BY DEF ServerInit, Init, Live, Todo, Range
<1>2. \A p, q \in Id : ~Given(p, q)
    BY <1>1 DEF Given
<1> QED BY <1>1, <1>2 DEF PunchInv

\* Writing a message: candidates that arrive were on their way, and only those
\* of a client that is gone are lost.
LEMMA PunchSend ==
    ASSUME HandlerInv, PunchInv, NEW h \in Id, SendStep(h)
    PROVE  PunchInv'
<1>1. PICK to \in Id, msg \in Message :
             /\ Now(h) = Send(to, msg) /\ Moves(h, {})
             /\ Delivered(to, msg)
             /\ work' \in [Id -> Seq(Operation)] /\ \A q \in Id : Alone(q)'
             /\ UNCHANGED <<registryVars, who, requests, refused>>
    BY SendShape
<1>2. /\ Live' = Live /\ clients' = clients /\ seq' = seq /\ Live \subseteq Id
    BY <1>1, ListTypes DEF HandlerInv, registryVars, clientVars, Live
<1>3. Changes(h, {Now(h)}, {})
    BY <1>1, MovesChanges
<1>4. HandlerTypes /\ agent \in [Id -> Client]
    BY DEF HandlerInv, HandlerTypes
<1>5. CASE to \notin Live
  <2>1. UNCHANGED <<agent, up>>
    BY <1>1, <1>5 DEF Delivered
  <2>2. ASSUME NEW p \in Id, NEW q \in Id
        PROVE  /\ Given(p, q)' => Given(p, q)
               /\ Given(p, q) => Given(p, q)' \/ p \notin Live
    <3> DEFINE op == Send(p, [type |-> "cands", peer |-> q])
    <3>1. op = Now(h) => p = to
      BY <1>1 DEF Send
    <3> HIDE DEF op
    <3>2. /\ \A g \in Id : op \in Todo(g)' => op \in Todo(g)
          /\ \A g \in Id : op \in Todo(g) => op \in Todo(g)' \/ op = Now(h)
      BY <1>3 DEF Changes
    <3> QED BY <1>5, <2>1, <3>1, <3>2 DEF Given, op
  <2>3. \A p, q \in Id : Given(p, q)' =>
        /\ p <= seq' /\ q <= seq'
        /\ Given(q, p)' \/ p \notin Live' \/ q \notin Live'
    BY <1>2, <2>2 DEF PunchInv
  <2>4. \A p \in Live' :
        /\ clients'[p].ep # "none" \/ Report \in Waiting(p)' => agent'[p].on
        /\ \A q \in Id : Given(p, q)' => agent'[p].on
    BY <1>2, <2>1, <2>2 DEF PunchInv, Waiting
  <2> QED BY <2>3, <2>4 DEF PunchInv
<1>6. CASE to \in Live
  <2>1. /\ agent' \in [Id -> Client] /\ agent'[to] = Read(agent[to], msg)
        /\ \A q \in Id \ {to} : agent'[q] = agent[q]
        /\ Waiting(to)' = Waiting(to) \union Range(Reaction(agent[to], msg))
        /\ \A q \in Id \ {to} : Waiting(q)' = Waiting(q)
    BY <1>1, <1>4, <1>6, DeliveredFacts
  <2>2. /\ agent[to].on \/ msg.type = "registered" => agent'[to].on
        /\ agent'[to].punch = IF msg.type = "cands" /\ agent[to].on
                              THEN agent[to].punch \union {msg.peer} ELSE agent[to].punch
    <3>1. agent[to] \in Client
      BY <1>4
    <3>2. agent[to].on \/ msg.type = "registered" => Read(agent[to], msg).on
      BY <3>1, ReadFacts, Zenon
    <3>3. Read(agent[to], msg).punch =
            IF msg.type = "cands" /\ agent[to].on
            THEN agent[to].punch \union {msg.peer} ELSE agent[to].punch
      BY <3>1, ReadFacts, Zenon
    <3>4. agent'[to] = Read(agent[to], msg)
      BY <2>1
    <3> HIDE DEF Read
    <3>5. agent[to].on \/ msg.type = "registered" => agent'[to].on
      BY <3>2, <3>4, Zenon
    <3> QED BY <3>3, <3>4, <3>5
  <2>3. Report \in Waiting(to)' => Report \in Waiting(to) \/ msg.type = "registered"
    <3>1. \A p : Report # Ask(p)
      BY DEF Report, Ask
    <3>2. Range(Reaction(agent[to], msg)) \subseteq
            {Ask(p) : p \in Fresh(agent[to], msg.peers)}
            \union (IF msg.type = "registered" THEN {Report} ELSE {})
      BY <1>4, ReactionFacts
    <3> QED BY <2>1, <3>1, <3>2
  <2>4. CASE msg.type # "cands"
    <3>1. ~Exchanges(Now(h))
      BY <1>1, <2>4 DEF Exchanges, Send
    <3>2. \A p \in Id : agent'[p].punch = agent[p].punch /\ (agent[p].on => agent'[p].on)
      BY <2>1, <2>2, <2>4
    <3>3. \A p \in Live' : clients'[p].ep # "none" \/ Report \in Waiting(p)' =>
                clients[p].ep # "none" \/ Report \in Waiting(p) \/ agent'[p].on
      BY <1>2, <2>1, <2>2, <2>3
    <3> QED BY <1>2, <1>3, <3>1, <3>2, <3>3, PunchKept
  <2>5. CASE msg.type = "cands"
    <3>1. PICK d \in Id : d = msg.peer /\ msg = [type |-> "cands", peer |-> d]
      BY <2>5, MessageFields
    <3>2. Given(to, d) /\ agent[to].on
      <4>1. Send(to, [type |-> "cands", peer |-> d]) \in Todo(h)
        BY <1>1, <3>1 DEF Moves
      <4>2. Given(to, d)
        BY <4>1 DEF Given
      <4> QED BY <1>6, <4>2 DEF PunchInv
    <3>3. /\ agent'[to].punch = agent[to].punch \union {d}
          /\ \A p \in Id : agent[p].on => agent'[p].on
      BY <2>1, <2>2, <2>5, <3>1, <3>2
    <3>4. ASSUME NEW p \in Id, NEW q \in Id PROVE Given(p, q)' <=> Given(p, q)
      <4> DEFINE op == Send(p, [type |-> "cands", peer |-> q])
      <4>1. op = Now(h) <=> p = to /\ q = d
        BY <1>1, <3>1 DEF Send
      <4> HIDE DEF op
      <4>2. /\ \A g \in Id : op \in Todo(g)' => op \in Todo(g)
            /\ \A g \in Id : op \in Todo(g) => op \in Todo(g)' \/ op = Now(h)
        BY <1>3 DEF Changes
      <4>3. Given(p, q) <=> q \in agent[p].punch \/ \E g \in Id : op \in Todo(g)
        BY DEF Given, op
      <4>4. Given(p, q)' <=> q \in agent'[p].punch \/ \E g \in Id : op \in Todo(g)'
        BY DEF Given, op
      <4>5. CASE p = to /\ q = d
        BY <3>2, <3>3, <4>4, <4>5
      <4>6. CASE p = to /\ q # d
        <5>1. q \in agent'[p].punch <=> q \in agent[p].punch
          BY <3>3, <4>6
        <5> QED BY <4>1, <4>2, <4>3, <4>4, <4>6, <5>1
      <4>7. CASE p # to
        <5>1. agent'[p] = agent[p]
          BY <2>1, <4>7
        <5> QED BY <4>1, <4>2, <4>3, <4>4, <4>7, <5>1
      <4> QED BY <4>5, <4>6, <4>7
    <3>5. \A p, q \in Id : Given(p, q)' =>
            /\ p <= seq' /\ q <= seq'
            /\ Given(q, p)' \/ p \notin Live' \/ q \notin Live'
      BY <1>2, <3>4 DEF PunchInv
    <3>6. \A p \in Live' :
            /\ clients'[p].ep # "none" \/ Report \in Waiting(p)' => agent'[p].on
            /\ \A q \in Id : Given(p, q)' => agent'[p].on
      BY <1>2, <2>1, <2>3, <2>5, <3>3, <3>4 DEF PunchInv
    <3> QED BY <3>5, <3>6 DEF PunchInv
  <2> QED BY <2>4, <2>5
<1> QED BY <1>5, <1>6

\* Both are given the other's candidates, and both have reported their own, so
\* that they have a tunnel to receive them with.
LEMMA PunchCandidates ==
    ASSUME HandlerInv, PunchInv, NEW h \in Id, CandidatesStep(h)
    PROVE  PunchInv'
<1>1. /\ UNCHANGED <<registryVars, agent, up>> /\ h \in Live
      /\ Live' = Live /\ clients' = clients /\ seq' = seq
    BY CandidatesShape DEF registryVars, clientVars, Live
<1>2. PICK d \in Id :
        /\ Now(h) = Candidates(d)
        /\ \/ /\ d \in Live
              /\ clients[d].ep # "none" /\ clients[h].ep # "none"
              /\ Moves(h, {Send(h, [type |-> "cands", peer |-> d]),
                           Send(d, [type |-> "cands", peer |-> h])})
           \/ Moves(h, {})
    BY CandidatesShape
<1>3. ~Exchanges(Now(h)) /\ Live \subseteq Id
    BY <1>2, ListTypes DEF Exchanges, Candidates, HandlerInv
<1>4. CASE Moves(h, {})
  <2>1. Changes(h, {Now(h)}, {})
    BY <1>4, MovesChanges
  <2>2. \A p \in Live' : Waiting(p)' = Waiting(p)
    BY <1>1 DEF Waiting
  <2> QED BY <1>1, <1>3, <2>1, <2>2, PunchKept
<1>5. CASE /\ d \in Live
           /\ clients[d].ep # "none" /\ clients[h].ep # "none"
           /\ Moves(h, {Send(h, [type |-> "cands", peer |-> d]),
                        Send(d, [type |-> "cands", peer |-> h])})
  <2>1. Changes(h, {Now(h)}, {Send(h, [type |-> "cands", peer |-> d]),
                              Send(d, [type |-> "cands", peer |-> h])})
    BY <1>5, MovesChanges
  <2>2. d \in 1 .. seq /\ h \in 1 .. seq /\ agent[d].on /\ agent[h].on
    BY <1>1, <1>5 DEF HandlerInv, RegistryInv, TypeOK, PunchInv
  <2>3. ASSUME NEW p \in Id, NEW q \in Id
        PROVE  Given(p, q)' <=> \/ Given(p, q)
                                \/ (p = h /\ q = d) \/ (p = d /\ q = h)
    <3> DEFINE op == Send(p, [type |-> "cands", peer |-> q])
               mine == Send(h, [type |-> "cands", peer |-> d])
               theirs == Send(d, [type |-> "cands", peer |-> h])
    <3>1. /\ op = mine <=> p = h /\ q = d
          /\ op = theirs <=> p = d /\ q = h
          /\ op # Now(h)
      BY <1>2 DEF Send, Candidates
    <3>2. Changes(h, {Now(h)}, {mine, theirs})
      BY <2>1
    <3> HIDE DEF op, mine, theirs
    <3>3. /\ op \in Todo(h)' <=> op \in Todo(h) \/ op = mine \/ op = theirs
          /\ \A g \in Id \ {h} : op \in Todo(g)' <=> op \in Todo(g)
      BY <3>1, <3>2 DEF Changes
    <3>4. Given(p, q) <=> q \in agent[p].punch \/ \E g \in Id : op \in Todo(g)
      BY DEF Given, op
    <3>5. Given(p, q)' <=> q \in agent'[p].punch \/ \E g \in Id : op \in Todo(g)'
      BY DEF Given, op
    <3> QED BY <1>1, <3>1, <3>3, <3>4, <3>5
  <2>4. \A p, q \in Id : Given(p, q)' =>
        /\ p <= seq' /\ q <= seq'
        /\ Given(q, p)' \/ p \notin Live' \/ q \notin Live'
    BY <1>1, <2>2, <2>3 DEF PunchInv
  <2>5. \A p \in Live' :
        /\ clients'[p].ep # "none" \/ Report \in Waiting(p)' => agent'[p].on
        /\ \A q \in Id : Given(p, q)' => agent'[p].on
    BY <1>1, <1>3, <2>2, <2>3 DEF PunchInv, Waiting
  <2> QED BY <2>4, <2>5 DEF PunchInv
<1> QED BY <1>2, <1>4, <1>5

\* A client that registers has been given nothing and has reported nothing.
LEMMA PunchRegister ==
    ASSUME HandlerInv, PunchInv, NEW fp \in FP, Register(fp)
    PROVE  PunchInv'
<1>1. /\ Add(fp) /\ UNCHANGED <<agent, up>>
      /\ seq + 1 \in Id /\ Live' = Live \union {seq + 1}
    BY RegisterShape
<1>2. PICK s \in Id : s = seq + 1 /\ Starts(s, {Welcome, Broadcast})
    BY RegisterShape
<1>3. /\ seq \in Nat /\ Live \subseteq Id /\ Id \subseteq Nat /\ seq' = seq + 1
      /\ clients'[s].ep = "none" /\ \A i \in Live : clients'[i] = clients[i]
  <2>1. PICK a \in FreeIP :
            /\ clients'[seq + 1] = [fp |-> fp, vip |-> a, ep |-> "none"]
            /\ \A i \in Live : clients'[i] = clients[i]
            /\ seq' = seq + 1
    BY <1>1, AddShape DEF HandlerInv, RegistryInv
  <2> QED BY <1>2, <2>1, ListTypes DEF HandlerInv, Id
<1>4. ASSUME NEW p \in Id, NEW q \in Id PROVE Given(p, q)' <=> Given(p, q)
  <2> DEFINE op == Send(p, [type |-> "cands", peer |-> q])
  <2>1. op # Welcome /\ op # Broadcast
    BY DEF Send, Welcome, Broadcast
  <2> HIDE DEF op
  <2>2. /\ Todo(s) = {} /\ Todo(s)' = {Welcome, Broadcast}
        /\ \A g \in Id \ {s} : Todo(g)' = Todo(g)
    BY <1>1, <1>2 DEF Starts
  <2>3. \A g \in Id : op \in Todo(g)' <=> op \in Todo(g)
    BY <2>1, <2>2
  <2>4. Given(p, q) <=> q \in agent[p].punch \/ \E g \in Id : op \in Todo(g)
    BY DEF Given, op
  <2>5. Given(p, q)' <=> q \in agent'[p].punch \/ \E g \in Id : op \in Todo(g)'
    BY DEF Given, op
  <2> QED BY <1>1, <2>3, <2>4, <2>5
<1>5. Waiting(s)' = {} /\ \A q \in Id : ~Given(s, q) /\ ~Given(q, s)
  <2>1. Unborn(s)
    BY <1>2, <1>3 DEF HandlerInv
  <2>2. Waiting(s)' = {}
    BY <1>1, <2>1, SmallLists DEF Unborn, Waiting
  <2>3. ~(s <= seq)
    BY <1>2, <1>3
  <2> QED BY <2>2, <2>3 DEF PunchInv
<1>6. \A p, q \in Id : Given(p, q)' =>
        /\ p <= seq' /\ q <= seq'
        /\ Given(q, p)' \/ p \notin Live' \/ q \notin Live'
  <2> SUFFICES ASSUME NEW p \in Id, NEW q \in Id, Given(p, q)
               PROVE  /\ p <= seq' /\ q <= seq'
                      /\ Given(q, p) \/ p \notin Live' \/ q \notin Live'
    BY <1>4
  <2>1. p # s /\ q # s
    BY <1>5
  <2>2. p <= seq /\ q <= seq /\ (Given(q, p) \/ p \notin Live \/ q \notin Live)
    BY DEF PunchInv
  <2> QED BY <1>1, <1>2, <1>3, <2>1, <2>2
<1>7. \A p \in Live' :
        /\ clients'[p].ep # "none" \/ Report \in Waiting(p)' => agent'[p].on
        /\ \A q \in Id : Given(p, q)' => agent'[p].on
    BY <1>1, <1>2, <1>3, <1>4, <1>5 DEF PunchInv, Waiting
<1> QED BY <1>6, <1>7 DEF PunchInv

\* Every other step leaves what was given as it is.
LEMMA PunchStep == HandlerInv /\ PunchInv /\ [ServerNext]_vars => PunchInv'
<1> SUFFICES ASSUME HandlerInv, PunchInv, [ServerNext]_vars PROVE PunchInv'
    OBVIOUS
<1>1. Live \subseteq Id /\ HandlerTypes /\ TypeOK
  BY ListTypes DEF HandlerInv, RegistryInv
<1>2. \A h \in Id : \A new : QuietStep(h, new) => Now(h) \in Operation
  BY DEF QuietStep
\* What steps that only read the registry have in common.
<1>3. ASSUME NEW h \in Id, NEW new, QuietStep(h, new), ~Exchanges(Now(h)),
             \A op \in new : ~Exchanges(op)
      PROVE  PunchInv'
  <2>1. Changes(h, {Now(h)}, new) /\ UNCHANGED <<registryVars, agent, up>>
    BY <1>3, MovesChanges DEF QuietStep, Reads
  <2>2. /\ Live' = Live /\ clients' = clients /\ seq' = seq
        /\ \A p \in Live' : Waiting(p)' = Waiting(p)
    BY <2>1 DEF registryVars, clientVars, Live, Waiting
  <2> QED BY <1>1, <1>3, <2>1, <2>2, PunchKept
\* And those by which a handler takes up a request.
<1>4. ASSUME NEW h \in Id, NEW new, Starts(h, new), \A op \in new : ~Exchanges(op),
             UNCHANGED <<agent, seq>>, Live' = Live,
             \A p \in Id : Waiting(p)' \subseteq Waiting(p),
             \A p \in Live : clients'[p].ep # "none" =>
                clients[p].ep # "none" \/ Report \in Waiting(p)
      PROVE  PunchInv'
  <2>1. Changes(h, {}, new)
    BY <1>4, MovesChanges
  <2>2. \A p \in Live' : clients'[p].ep # "none" \/ Report \in Waiting(p)' =>
            clients[p].ep # "none" \/ Report \in Waiting(p) \/ agent'[p].on
    BY <1>1, <1>4
  <2> QED BY <1>1, <1>4, <2>1, <2>2, PunchKept
<1>5. ASSUME NEW fp \in FP, Register(fp) PROVE PunchInv'
  BY <1>5, PunchRegister
<1>6. ASSUME NEW h \in Id, SendStep(h) PROVE PunchInv'
  BY <1>6, PunchSend
<1>7. ASSUME NEW h \in Id, WelcomeStep(h) PROVE PunchInv'
  <2> DEFINE reply == Send(h, [type |-> "registered", peers |-> PeerList(h)])
  <2>1. QuietStep(h, {reply}) /\ ~Exchanges(Now(h))
    BY <1>7, WelcomeShape DEF Exchanges
  <2>2. ~Exchanges(reply)
    BY DEF Exchanges, Send
  <2> QED BY <1>3, <2>1, <2>2
<1>8. ASSUME NEW h \in Id, CreatedStep(h) PROVE PunchInv'
  <2> DEFINE reply == Send(h, [type |-> "joined", room |-> Now(h).code,
                               list |-> CurrentMembers(h)])
  <2>1. QuietStep(h, {reply}) /\ ~Exchanges(Now(h))
    BY <1>8, CreatedShape DEF Exchanges
  <2>2. ~Exchanges(reply)
    BY DEF Exchanges, Send
  <2> QED BY <1>3, <2>1, <2>2
<1>9. ASSUME NEW h \in Id, NotifyStep(h) PROVE PunchInv'
  <2> DEFINE push == Push(Now(h).code, MemberList(Now(h).code),
                          members[Now(h).code], {})
  <2>1. QuietStep(h, {push}) /\ ~Exchanges(Now(h))
    BY <1>9, NotifyShape DEF Exchanges
  <2>2. ~Exchanges(push)
    BY DEF Exchanges, Push
  <2> QED BY <1>3, <2>1, <2>2
<1>10. ASSUME NEW h \in Id, PushStep(h) PROVE PunchInv'
  <2>1. ~Exchanges(Now(h))
    BY <1>10, PushShape DEF Exchanges
  <2>2. /\ \A fp : ~Exchanges(Send(byFP[fp], [type |-> "update", list |-> Now(h).list]))
        /\ \A fp : ~Exchanges(Push(Now(h).code, Now(h).list, Now(h).must,
                                   Now(h).seen \union {fp}))
    BY DEF Exchanges, Send, Push
  <2>3. \/ QuietStep(h, {})
        \/ \E fp : QuietStep(h, {Push(Now(h).code, Now(h).list, Now(h).must,
                                      Now(h).seen \union {fp})})
        \/ \E fp : QuietStep(h, {Send(byFP[fp], [type |-> "update", list |-> Now(h).list]),
                                 Push(Now(h).code, Now(h).list, Now(h).must,
                                      Now(h).seen \union {fp})})
    BY <1>10, PushShape
  <2>4. \A a : ~Exchanges(a) => (QuietStep(h, {a}) => PunchInv')
    BY <1>3, <2>1
  <2>5. \A a, b : ~Exchanges(a) /\ ~Exchanges(b) => (QuietStep(h, {a, b}) => PunchInv')
    BY <1>3, <2>1
  <2>6. QuietStep(h, {}) => PunchInv'
    BY <1>3, <2>1
  <2> QED BY <2>2, <2>3, <2>4, <2>5, <2>6
<1>11. ASSUME NEW h \in Id, BroadcastStep(h) PROVE PunchInv'
  <2>1. QuietStep(h, {Lists(Live)}) /\ ~Exchanges(Now(h))
    BY <1>11, BroadcastShape DEF Exchanges
  <2>2. ~Exchanges(Lists(Live))
    BY DEF Exchanges, Lists
  <2> QED BY <1>3, <2>1, <2>2
<1>12. ASSUME NEW h \in Id, ListsStep(h) PROVE PunchInv'
  <2>1. ~Exchanges(Now(h))
    BY <1>12, ListsShape DEF Exchanges
  <2>2. /\ \A c : ~Exchanges(Send(c, [type |-> "peers", peers |-> PeerList(c)]))
        /\ \A c : ~Exchanges(Lists(Now(h).left \ {c}))
    BY DEF Exchanges, Send, Lists
  <2>3. \/ QuietStep(h, {})
        \/ \E c : QuietStep(h, {Send(c, [type |-> "peers", peers |-> PeerList(c)]),
                                Lists(Now(h).left \ {c})})
    BY <1>12, ListsShape
  <2>4. \A a, b : ~Exchanges(a) /\ ~Exchanges(b) => (QuietStep(h, {a, b}) => PunchInv')
    BY <1>3, <2>1
  <2>5. QuietStep(h, {}) => PunchInv'
    BY <1>3, <2>1
  <2> QED BY <2>2, <2>3, <2>4, <2>5
<1>13. ASSUME NEW h \in Id, CandidatesStep(h) PROVE PunchInv'
  BY <1>13, PunchCandidates
<1>14. ASSUME NEW h \in Id, RemoveStep(h) PROVE PunchInv'
  <2>1. /\ UNCHANGED <<agent, up>> /\ Live' = Live \ {h}
        /\ Remove(h) /\ Now(h).op = "remove"
    BY <1>14, RemoveShape
  <2>2. PICK new : Moves(h, new) /\ (new = {Broadcast} \/ \E code : new = {Notify(code), Broadcast})
    BY <1>14, RemoveShape
  <2>3. ~Exchanges(Now(h)) /\ \A op \in new : ~Exchanges(op)
    <3>1. ~Exchanges(Broadcast) /\ \A code : ~Exchanges(Notify(code))
      BY DEF Exchanges, Broadcast, Notify
    <3> QED BY <2>1, <2>2, <3>1 DEF Exchanges
  <2>4. Changes(h, {Now(h)}, new)
    BY <2>2, MovesChanges
  <2>5. seq' = seq /\ \A p \in Live' : clients'[p] = clients[p]
    BY <2>1 DEF Remove, Restrict, Live
  <2>6. \A p \in Live' : Waiting(p)' = Waiting(p)
    BY <2>1 DEF Waiting
  <2> QED BY <1>1, <2>1, <2>3, <2>4, <2>5, <2>6, PunchKept
<1>15. ASSUME NEW h \in Id, HandleReport(h) PROVE PunchInv'
  <2>1. /\ Head(up[h]) = Report /\ up[h] # << >> /\ up' = [up EXCEPT ![h] = Tail(@)]
        /\ Live' = Live /\ UNCHANGED agent /\ Starts(h, {Broadcast})
    BY <1>15, ReportShape
  <2>2. PICK ep \in Endpoint : UpdateEndpoint(h, ep)
    BY <1>15, ReportShape
  <2>3. Report \in Waiting(h) /\ \A p \in Id : Waiting(p)' \subseteq Waiting(p)
    BY <1>1, <2>1, TakeFacts
  <2>4. seq' = seq /\ \A p \in Live \ {h} : clients'[p] = clients[p]
    BY <1>1, <2>2 DEF UpdateEndpoint, TypeOK
  <2>5. ~Exchanges(Broadcast)
    BY DEF Exchanges, Broadcast
  <2> QED BY <1>4, <2>1, <2>3, <2>4, <2>5
<1>16. ASSUME NEW h \in Id, HandleConnect(h) PROVE PunchInv'
  <2>1. /\ up[h] # << >> /\ up' = [up EXCEPT ![h] = Tail(@)]
        /\ UNCHANGED <<registryVars, agent>>
    BY <1>16, ConnectShape
  <2>2. PICK new : Starts(h, new) /\ (new = {} \/ \E p : new = {Candidates(p)})
    BY <1>16, ConnectShape
  <2>3. \A op \in new : ~Exchanges(op)
    BY <2>2 DEF Exchanges, Candidates
  <2>4. \A p \in Id : Waiting(p)' \subseteq Waiting(p)
    BY <1>1, <2>1, TakeFacts
  <2> QED BY <1>4, <2>1, <2>2, <2>3, <2>4 DEF registryVars, clientVars, Live
<1>17. ASSUME NEW h \in Id, \/ HandleRoomCreate(h) \/ HandleRoomJoin(h)
                            \/ HandleRoomLeave(h) \/ Disconnect(h)
       PROVE  PunchInv'
  <2>1. /\ UNCHANGED <<agent, up>> /\ UNCHANGED clientVars
        /\ \E new : Starts(h, new) /\ \A op \in new : ~Exchanges(op)
    <3>1. CASE HandleRoomCreate(h)
      <4>1. UNCHANGED <<agent, up>> /\ UNCHANGED clientVars
        BY <3>1, CreateShape DEF CreateRoom
      <4>2. PICK code \in Code :
              Starts(h, {Send(h, [type |-> "created", room |-> code]), Created(code)})
        BY <3>1, CreateShape
      <4>3. ~Exchanges(Created(code))
            /\ ~Exchanges(Send(h, [type |-> "created", room |-> code]))
        BY DEF Exchanges, Created, Send
      <4> QED BY <4>1, <4>2, <4>3
    <3>2. CASE HandleRoomJoin(h)
      <4>1. UNCHANGED <<agent, up>> /\ UNCHANGED clientVars
        BY <3>2, JoinShape DEF JoinRoom
      <4>2. PICK code \in Code, list \in List :
              Starts(h, {Send(h, [type |-> "joined", room |-> code, list |-> list]),
                         Notify(code), Broadcast})
        BY <3>2, JoinShape
      <4>3. /\ ~Exchanges(Notify(code)) /\ ~Exchanges(Broadcast)
            /\ ~Exchanges(Send(h, [type |-> "joined", room |-> code, list |-> list]))
        BY DEF Exchanges, Notify, Broadcast, Send
      <4> QED BY <4>1, <4>2, <4>3
    <3>3. CASE HandleRoomLeave(h)
      <4>1. UNCHANGED <<agent, up>> /\ UNCHANGED clientVars
        BY <3>3, LeaveShape DEF LeaveRoom
      <4>2. Starts(h, {Send(h, [type |-> "left"]), Notify(RoomOf(h)), Broadcast})
        BY <3>3, LeaveShape
      <4>3. /\ ~Exchanges(Notify(RoomOf(h))) /\ ~Exchanges(Broadcast)
            /\ ~Exchanges(Send(h, [type |-> "left"]))
        BY DEF Exchanges, Notify, Broadcast, Send
      <4> QED BY <4>1, <4>2, <4>3
    <3>4. CASE Disconnect(h)
      <4>1. UNCHANGED <<agent, up>> /\ UNCHANGED clientVars
        BY <3>4, DisconnectShape DEF registryVars
      <4>2. Starts(h, {Removal(RoomOf(h))}) /\ ~Exchanges(Removal(RoomOf(h)))
        BY <3>4, DisconnectShape DEF Exchanges, Removal
      <4> QED BY <4>1, <4>2
    <3> QED BY <1>17, <3>1, <3>2, <3>3, <3>4
  <2>2. PICK new : Starts(h, new) /\ \A op \in new : ~Exchanges(op)
    BY <2>1
  <2>3. \A p \in Id : Waiting(p)' \subseteq Waiting(p)
    BY <2>1 DEF Waiting
  <2> QED BY <1>4, <2>1, <2>2, <2>3 DEF clientVars, Live
<1>18. CASE UNCHANGED vars
  <2>1. /\ UNCHANGED <<clients, seq, agent, work>> /\ \A p \in Id : Waiting(p)' = Waiting(p)
        /\ \A p \in Id : Todo(p)' = Todo(p)
    BY <1>18 DEF vars, registryVars, clientVars, Waiting, Todo
  <2>2. \A p, q \in Id : Given(p, q)' <=> Given(p, q)
    BY <2>1 DEF Given
  <2> QED BY <1>1, <2>1, <2>2 DEF PunchInv, Live
<1> QED
  BY <1>5, <1>6, <1>7, <1>8, <1>9, <1>10, <1>11, <1>12, <1>13, <1>14, <1>15,
     <1>16, <1>17, <1>18 DEF ServerNext, HandlerStep

\* What handlers rely on holds however connections overlap.
THEOREM HandlerInvariant == ServerSpec => [](HandlerInv /\ PunchInv)
<1>1. ServerInit => HandlerInv /\ PunchInv
  BY HandlerInit, PunchInit
<1>2. (HandlerInv /\ PunchInv) /\ [ServerNext]_vars => (HandlerInv /\ PunchInv)'
  BY HandlerKept, PunchStep
<1> QED BY <1>1, <1>2, PTL DEF ServerSpec

\* PunchIsMutual: with no handler busy, what was given is what arrived.
THEOREM MutualPunching == ServerSpec => []PunchIsMutual
<1>1. HandlerInv /\ PunchInv => PunchIsMutual
  <2> SUFFICES ASSUME HandlerInv, PunchInv, Quiet,
                      NEW p \in Live, NEW q \in Live
               PROVE  q \in agent[p].punch <=> p \in agent[q].punch
    BY DEF PunchIsMutual
  <2>1. p \in Id /\ q \in Id
    BY ListTypes DEF HandlerInv
  <2>2. \A h \in Id : Todo(h) = {}
    BY SmallLists DEF Quiet, Todo
  <2> QED BY <2>1, <2>2 DEF PunchInv, Given
<1> QED BY <1>1, HandlerInvariant, PTL

-----------------------------------------------------------------------------
(* What clients are told, when connections do not overlap.                 *)

\* Two registered connections have two fingerprints, which byFP resolves.
LEMMA SerialFacts ==
    ASSUME HandlerInv, SerialInv
    PROVE  /\ \A id \in Live : /\ id \in Id /\ id \in 1 .. seq /\ who[id] \in FP
                               /\ who[id] = clients[id].fp /\ byFP[who[id]] = id
                               /\ RoomOf(id) \in Code \union {NoRoom}
           /\ \A i, j \in Live : who[i] = who[j] => i = j
           /\ \A fp \in FP, c \in Code : fp \in members[c] <=> inRoom[fp] = c
           /\ \A fp \in FP : inRoom[fp] # NoRoom => inRoom[fp] \in rooms /\ byFP[fp] \in Live
           /\ \A fp \in FP, c \in Code : fp \in members[c] => byFP[fp] # 0
<1>1. TypeOK /\ RoomsConsistent /\ ByFPSound /\ ByFPComplete /\ MembersResolve
  BY DEF SerialInv, RegistryInv
<1>2. \A id \in Live : who[id] = clients[id].fp /\ clients[id].fp \in FP
  BY <1>1 DEF HandlerInv, TypeOK, Connection
<1>3. \A id \in Live : byFP[who[id]] = id
  BY <1>1, <1>2 DEF ByFPComplete
<1>4. Live \subseteq Id /\ Live \subseteq 1 .. seq
  BY <1>1, ListTypes DEF HandlerInv, TypeOK
<1>5. \A id \in Live : RoomOf(id) \in Code \union {NoRoom}
  BY <1>1, <1>2 DEF RoomOf, TypeOK
<1>6. \A fp \in FP, c \in Code : fp \in members[c] <=> inRoom[fp] = c
  BY <1>1 DEF RoomsConsistent
<1>7. \A fp \in FP : inRoom[fp] # NoRoom => inRoom[fp] \in rooms /\ byFP[fp] \in Live
  <2> SUFFICES ASSUME NEW fp \in FP, inRoom[fp] # NoRoom
               PROVE  inRoom[fp] \in rooms /\ byFP[fp] \in Live
    OBVIOUS
  <2>1. PICK c \in Code : c = inRoom[fp]
    BY <1>1 DEF TypeOK
  <2>2. fp \in members[c] /\ c \in rooms
    BY <1>1, <1>6, <2>1 DEF RoomsConsistent
  <2>3. byFP[fp] # 0
    BY <1>1, <2>2 DEF MembersResolve, ResolvedMembers
  <2> QED BY <1>1, <2>1, <2>2, <2>3 DEF ByFPSound
<1>8. \A fp \in FP, c \in Code : fp \in members[c] => byFP[fp] # 0
  BY <1>1, <1>6 DEF MembersResolve, ResolvedMembers, RoomsConsistent
<1> QED BY <1>2, <1>3, <1>4, <1>5, <1>6, <1>7, <1>8

\* While the registry stays as it is, so does all that is assembled from it.
LEMMA SameView ==
    ASSUME UNCHANGED <<registryVars, who>>
    PROVE  /\ Live' = Live /\ seq' = seq /\ clients' = clients
           /\ \A id : RoomOf(id)' = RoomOf(id)
           /\ \A id : CurrentMembers(id)' = CurrentMembers(id)
           /\ \A id : PeerList(id)' = PeerList(id)
           /\ \A c : MemberList(c)' = MemberList(c)
           /\ \A h, op, id : Tells(h, op, id)' <=> Tells(h, op, id)
           /\ \A op, id : Informs(op, id)' <=> Informs(op, id)
           /\ \A op : Known(op)' <=> Known(op)
<1>1. UNCHANGED <<clients, byFP, seq, members, host, inRoom, who>>
  BY DEF registryVars, clientVars, roomVars
<1>2. Live' = Live
  BY <1>1 DEF Live
<1>3. \A id : RoomOf(id)' = RoomOf(id)
  BY <1>1 DEF RoomOf
<1>4. \A c : MemberList(c)' = MemberList(c)
  BY <1>1 DEF MemberList, ResolvedMembers
<1>5. \A id : CurrentMembers(id)' = CurrentMembers(id)
  BY <1>3, <1>4 DEF CurrentMembers, MemberList, ResolvedMembers
<1>6. \A id : PeerList(id)' = PeerList(id)
  BY <1>1, <1>2 DEF PeerList, VisiblePeers
<1>7. \A h, op, id : Tells(h, op, id)' <=> Tells(h, op, id)
  BY <1>1, <1>3, <1>4, <1>5 DEF Tells
<1>8. \A op, id : Informs(op, id)' <=> Informs(op, id)
  BY <1>6 DEF Informs
<1>9. \A op : Known(op)' <=> Known(op)
  BY <1>1 DEF Known
<1> QED BY <1>1, <1>2, <1>3, <1>4, <1>5, <1>6, <1>7, <1>8, <1>9

\* Steps that neither move a client nor answer it.
LEMMA RoomKept ==
    ASSUME RoomInv, NEW h \in Id, NEW gone, NEW new, Changes(h, gone, new),
           \A op \in gone : ~Placing(op),
           \A op \in new : ~Placing(op) /\ op.op # "remove",
           Live' \subseteq Live, Live \subseteq Id,
           \A id \in Live' : RoomOf(id)' = RoomOf(id) /\ agent'[id].room = agent[id].room
    PROVE  RoomInv'
<1>1. /\ \A g \in Id : \A op \in Todo(g)' : op \in Todo(g) \/ op \in new
      /\ \A g \in Id : \A op \in Todo(g) : op \in Todo(g)' \/ op \in gone
  BY DEF Changes
<1>2. \A g \in Id : \A op \in Todo(g)' : Placing(op) /\ op.op = "send" => op.to = g
  BY <1>1 DEF RoomInv
<1>3. ASSUME NEW id \in Live'
      PROVE  /\ \A op \in Todo(id)' :
                /\ op.op \in {"created", "remove"} => op.code = RoomOf(id)'
                /\ op.op = "send" /\ op.msg.type = "joined" => op.msg.room = RoomOf(id)'
                /\ op.op = "send" /\ op.msg.type = "left" => RoomOf(id)' = NoRoom
             /\ agent'[id].room = RoomOf(id)' \/ \E op \in Todo(id)' : Placing(op)
  <2>1. id \in Id /\ id \in Live /\ RoomOf(id)' = RoomOf(id) /\ agent'[id].room = agent[id].room
    OBVIOUS
  <2>2. ASSUME NEW op \in Todo(id)'
        PROVE  /\ op.op \in {"created", "remove"} => op.code = RoomOf(id)'
               /\ op.op = "send" /\ op.msg.type = "joined" => op.msg.room = RoomOf(id)'
               /\ op.op = "send" /\ op.msg.type = "left" => RoomOf(id)' = NoRoom
    <3>1. CASE op \in Todo(id)
      BY <2>1, <3>1 DEF RoomInv
    <3>2. CASE op \in new
      BY <3>2 DEF Placing
    <3> QED BY <1>1, <2>1, <3>1, <3>2
  <2>3. agent'[id].room = RoomOf(id)' \/ \E op \in Todo(id)' : Placing(op)
    BY <1>1, <2>1 DEF RoomInv
  <2> QED BY <2>2, <2>3
<1> QED BY <1>2, <1>3 DEF RoomInv

\* Whom the current list was on its way to before, or whose list changes.
LEMMA ToldKept ==
    ASSUME ToldInv, NEW h \in Id, NEW gone, NEW new, Changes(h, gone, new),
           \A id \in Live' : RoomOf(id)' # NoRoom =>
             \/ \E op \in new : Tells(h, op, id)'
             \/ /\ id \in Live /\ who'[id] = who[id]
                /\ id \in told => id \in told'
                /\ \E c \in Code : /\ RoomOf(id) = c /\ RoomOf(id)' = c
                                   /\ MemberList(c)' = MemberList(c)
                /\ \A op \in gone : Tells(h, op, id) =>
                        id \in told' \/ \E next \in new : Tells(h, next, id)',
           NoRoom \notin Code
    PROVE  ToldInv'
<1> SUFFICES ASSUME NEW id \in Live', RoomOf(id)' # NoRoom
             PROVE  id \in told' \/ \E g \in Id : \E op \in Todo(g)' : Tells(g, op, id)'
  BY DEF ToldInv
<1>1. \A op \in new : op \in Todo(h)'
  BY DEF Changes
<1>2. CASE \E op \in new : Tells(h, op, id)'
  BY <1>1, <1>2
<1>3. CASE /\ id \in Live /\ who'[id] = who[id]
           /\ id \in told => id \in told'
           /\ \E c \in Code : /\ RoomOf(id) = c /\ RoomOf(id)' = c
                              /\ MemberList(c)' = MemberList(c)
           /\ \A op \in gone : Tells(h, op, id) =>
                   id \in told' \/ \E next \in new : Tells(h, next, id)'
  <2>1. PICK c \in Code : RoomOf(id) = c /\ RoomOf(id)' = c /\ MemberList(c)' = MemberList(c)
    BY <1>3
  <2>2. c # NoRoom
    OBVIOUS
  <2>3. CurrentMembers(id) = MemberList(c) /\ CurrentMembers(id)' = MemberList(c)'
    BY <2>1, <2>2 DEF CurrentMembers, MemberList, ResolvedMembers
  <2>4. ASSUME NEW g \in Id, NEW op, Tells(g, op, id) PROVE Tells(g, op, id)'
    <3>1. CASE op.op = "notify" /\ op.code = RoomOf(id)
      BY <2>1, <3>1 DEF Tells
    <3>2. CASE op.op = "created" /\ g = id
      BY <3>2 DEF Tells
    <3>3. CASE /\ op.op = "push" /\ op.code = RoomOf(id) /\ op.list = MemberList(op.code)
               /\ who[id] \in op.must \ op.seen
      <4>1. op.code = c /\ op.list = MemberList(c)
        BY <2>1, <3>3
      <4>2. op.list = MemberList(op.code)'
        BY <2>1, <4>1 DEF MemberList, ResolvedMembers
      <4> QED BY <1>3, <2>1, <3>3, <4>1, <4>2 DEF Tells
    <3>4. CASE /\ op.op = "send" /\ op.to = id /\ op.msg.type \in {"joined", "update"}
               /\ op.msg.list = CurrentMembers(id)
      <4>1. op.msg.list = CurrentMembers(id)'
        BY <2>1, <2>3, <3>4
      <4> QED BY <3>4, <4>1 DEF Tells
    <3> QED BY <2>4, <3>1, <3>2, <3>3, <3>4 DEF Tells
  <2>5. CASE id \in told
    BY <1>3, <2>5
  <2>6. ASSUME NEW g \in Id, NEW op \in Todo(g), Tells(g, op, id)
        PROVE  id \in told' \/ \E f \in Id : \E next \in Todo(f)' : Tells(f, next, id)'
    <3>1. CASE op \in Todo(g)'
      BY <2>4, <2>6, <3>1
    <3>2. CASE g = h /\ op \in gone
      BY <1>1, <1>3, <2>6, <3>2
    <3> QED BY <3>1, <3>2 DEF Changes
  <2> QED BY <1>3, <2>1, <2>2, <2>5, <2>6 DEF ToldInv
<1> QED BY <1>2, <1>3

\* The same for peer lists.
LEMMA ListedKept ==
    ASSUME ListedInv, NEW h \in Id, NEW gone, NEW new, Changes(h, gone, new),
           \A id \in Live' :
             \/ \E op \in new : Informs(op, id)'
             \/ /\ id \in Live /\ PeerList(id)' = PeerList(id)
                /\ id \in listed => id \in listed'
                /\ \A op \in gone : Informs(op, id) =>
                        id \in listed' \/ \E next \in new : Informs(next, id)'
    PROVE  ListedInv'
<1> SUFFICES ASSUME NEW id \in Live'
             PROVE  id \in listed' \/ \E g \in Id : \E op \in Todo(g)' : Informs(op, id)'
  BY DEF ListedInv
<1>1. \A op \in new : op \in Todo(h)'
  BY DEF Changes
<1>2. CASE \E op \in new : Informs(op, id)'
  BY <1>1, <1>2
<1>3. CASE /\ id \in Live /\ PeerList(id)' = PeerList(id)
           /\ id \in listed => id \in listed'
           /\ \A op \in gone : Informs(op, id) =>
                   id \in listed' \/ \E next \in new : Informs(next, id)'
  <2>1. ASSUME NEW op, Informs(op, id) PROVE Informs(op, id)'
    BY <1>3, <2>1 DEF Informs
  <2>2. CASE id \in listed
    BY <1>3, <2>2
  <2>3. ASSUME NEW g \in Id, NEW op \in Todo(g), Informs(op, id)
        PROVE  id \in listed' \/ \E f \in Id : \E next \in Todo(f)' : Informs(next, id)'
    <3>1. CASE op \in Todo(g)'
      BY <2>1, <2>3, <3>1
    <3>2. CASE g = h /\ op \in gone
      BY <1>1, <1>3, <2>3, <3>2
    <3> QED BY <3>1, <3>2 DEF Changes
  <2> QED BY <1>3, <2>2, <2>3 DEF ListedInv
<1> QED BY <1>2, <1>3

\* Candidates that were given stay given, unless the step delivers them.
LEMMA GivenKept ==
    ASSUME NEW h \in Id, NEW gone, NEW new, Changes(h, gone, new),
           \A op \in gone : ~Exchanges(op),
           NEW p \in Id, NEW q \in Id, agent'[p].punch = agent[p].punch, Given(p, q)
    PROVE  Given(p, q)'
<1> DEFINE op == Send(p, [type |-> "cands", peer |-> q])
<1>1. Exchanges(op)
  BY DEF Exchanges, Send
<1> HIDE DEF op
<1>2. \A g \in Id : op \in Todo(g) => op \in Todo(g)'
  BY <1>1 DEF Changes
<1>3. Given(p, q) <=> q \in agent[p].punch \/ \E g \in Id : op \in Todo(g)
  BY DEF Given, op
<1>4. Given(p, q)' <=> q \in agent'[p].punch \/ \E g \in Id : op \in Todo(g)'
  BY DEF Given, op
<1> QED BY <1>2, <1>3, <1>4

\* Steps in which no client reads a list of peers and nobody registers.
LEMMA TriedKept ==
    ASSUME HandlerInv, TriedInv, NEW h \in Id, NEW gone, NEW new, Changes(h, gone, new),
           \A op \in new : Known(op),
           Live' \subseteq Live, Live \subseteq Id, seq' = seq,
           \A q \in Id : agent'[q].tried = agent[q].tried,
           \A p, q \in Live' :
             /\ Ask(p) \in Waiting(q) => \/ Ask(p) \in Waiting(q)'
                                         \/ Candidates(p) \in Todo(q)'
                                         \/ <<q, p>> \in refused'
             /\ Candidates(p) \in Todo(q) => \/ Candidates(p) \in Todo(q)'
                                             \/ <<q, p>> \in refused'
                                             \/ Given(p, q)'
             /\ Given(p, q) => Given(p, q)',
           refused \subseteq refused',
           \A i \in listed' : i \in listed /\ PeerList(i)' = PeerList(i)
    PROVE  TriedInv'
<1>1. \A p, q \in Live' : p \in agent'[q].tried =>
        \/ Ask(p) \in Waiting(q)' \/ Candidates(p) \in Todo(q)'
        \/ <<q, p>> \in refused' \/ Given(p, q)'
  BY DEF TriedInv
<1>2. \A q \in (Live \intersect listed)' : \A p \in PeerList(q)' :
        p.pub => p.id \in agent'[q].tried
  BY DEF TriedInv
<1>3. \A q \in Id : \A p \in agent'[q].tried : p <= seq'
  BY DEF TriedInv
<1>4. \A g \in Id : \A op \in Todo(g)' : Known(op)'
  BY DEF TriedInv, Changes, Known
<1> QED BY <1>1, <1>2, <1>3, <1>4 DEF TriedInv

\* Reading steps keep everybody informed if what they replace is.
LEMMA ReadingKeeps ==
    ASSUME HandlerInv, SerialInv, ServiceInv, NEW h \in Id, NEW new, QuietStep(h, new),
           Now(h).op \notin {"send", "candidates"},
           \A op \in new : Known(op),
           \A id \in Live : RoomOf(id) # NoRoom /\ Tells(h, Now(h), id) =>
                \E op \in new : Tells(h, op, id),
           \A id \in Live : Informs(Now(h), id) => \E op \in new : Informs(op, id)
    PROVE  /\ ToldInv' /\ ListedInv' /\ TriedInv'
           /\ Now(h).op # "created" /\ (\A op \in new : ~Placing(op) /\ op.op # "remove")
              => RoomInv'
<1>1. /\ UNCHANGED <<registryVars, who, agent, up, told, listed, refused>>
      /\ Moves(h, new) /\ Changes(h, {Now(h)}, new)
  BY MovesChanges DEF QuietStep, Reads
<1>2. /\ Live' = Live /\ seq' = seq /\ Live \subseteq Id
      /\ \A id : RoomOf(id)' = RoomOf(id)
      /\ \A id : PeerList(id)' = PeerList(id)
      /\ \A c : MemberList(c)' = MemberList(c)
      /\ \A g, op, id : Tells(g, op, id)' <=> Tells(g, op, id)
      /\ \A op, id : Informs(op, id)' <=> Informs(op, id)
  BY <1>1, SameView, ListTypes DEF HandlerInv
<1>3. \A id \in Live : RoomOf(id) # NoRoom => RoomOf(id) \in Code
  BY SerialFacts
<1>4. ToldInv'
  BY <1>1, <1>2, <1>3, ToldKept, SentinelAssumption DEF ServiceInv
<1>5. ListedInv'
  BY <1>1, <1>2, ListedKept DEF ServiceInv
<1>6. TriedInv'
  <2>1. \A p \in Id : Waiting(p)' = Waiting(p)
    BY <1>1 DEF Waiting
  <2>2. /\ ~Exchanges(Now(h)) /\ \A p : Now(h) # Candidates(p)
    BY DEF Exchanges, Candidates
  <2>3. \A p, q \in Id : Given(p, q) => Given(p, q)'
    BY <1>1, <2>2, GivenKept
  <2>4. \A p, q \in Id : Candidates(p) \in Todo(q) => Candidates(p) \in Todo(q)'
    BY <1>1, <2>2 DEF Changes
  <2> QED BY <1>1, <1>2, <2>1, <2>3, <2>4, TriedKept DEF ServiceInv
<1>7. ASSUME Now(h).op # "created", \A op \in new : ~Placing(op) /\ op.op # "remove"
      PROVE  RoomInv'
  <2>1. ~Placing(Now(h))
    BY <1>7 DEF Placing
  <2> QED BY <1>1, <1>2, <1>7, <2>1, RoomKept DEF ServiceInv
<1> QED BY <1>4, <1>5, <1>6, <1>7

\* The registered reply: nobody relies on it.
LEMMA WelcomeKeeps ==
    ASSUME HandlerInv, SerialInv, ServiceInv, NEW h \in Id, WelcomeStep(h)
    PROVE  ServiceInv'
<1> DEFINE reply == Send(h, [type |-> "registered", peers |-> PeerList(h)])
<1>1. QuietStep(h, {reply}) /\ Now(h).op = "welcome"
  BY WelcomeShape
<1>2. ~Placing(reply) /\ reply.op # "remove"
  BY DEF Placing, Send
<1>3. Known(reply)
  <2>1. \A p \in PeerList(h) : p.id \in Live
    BY DEF PeerList, VisiblePeers
  <2> QED BY <2>1, SerialFacts DEF Known, Send
<1>4. /\ \A id : ~Tells(h, Now(h), id) /\ ~Informs(Now(h), id)
  BY <1>1 DEF Tells, Informs
<1> QED BY <1>1, <1>2, <1>3, <1>4, ReadingKeeps DEF ServiceInv

\* A created room: its only member is sent the list.
LEMMA CreatedKeeps ==
    ASSUME HandlerInv, SerialInv, ServiceInv, NEW h \in Id, CreatedStep(h)
    PROVE  ServiceInv'
<1> DEFINE reply == Send(h, [type |-> "joined", room |-> Now(h).code,
                             list |-> CurrentMembers(h)])
<1>1. QuietStep(h, {reply}) /\ Now(h).op = "created"
  BY CreatedShape
<1>2. /\ reply.op = "send" /\ reply.to = h /\ reply.msg.type = "joined"
      /\ reply.msg.room = Now(h).code /\ reply.msg.list = CurrentMembers(h)
      /\ Placing(reply) /\ Known(reply)
  BY DEF Placing, Send, Known
<1> HIDE DEF reply
<1>3. \A id : Tells(h, Now(h), id) => id = h
  BY <1>1 DEF Tells
<1>4. \A id : ~Informs(Now(h), id)
  BY <1>1 DEF Informs
<1>5. Tells(h, reply, h)
  BY <1>2 DEF Tells
<1>6. ToldInv' /\ ListedInv' /\ TriedInv'
  BY <1>1, <1>2, <1>3, <1>4, <1>5, ReadingKeeps
<1>7. RoomInv'
  <2>1. Moves(h, {reply}) /\ UNCHANGED <<registryVars, who, agent>>
    BY <1>1 DEF QuietStep, Reads
  <2>2. Live' = Live /\ \A id : RoomOf(id)' = RoomOf(id)
    BY <2>1, SameView
  <2>3. /\ \A g \in Id \ {h} : Todo(g)' = Todo(g)
        /\ \A op \in Todo(h)' : op \in Todo(h) \/ op = reply
        /\ reply \in Todo(h)' /\ Now(h) \in Todo(h)
    BY <2>1 DEF Moves
  <2>4. RoomInv
    BY DEF ServiceInv
  <2>5. \A g \in Id : \A op \in Todo(g)' : Placing(op) /\ op.op = "send" => op.to = g
    BY <1>2, <2>3, <2>4 DEF RoomInv
  <2>6. ASSUME NEW id \in Live'
        PROVE  /\ \A op \in Todo(id)' :
                  /\ op.op \in {"created", "remove"} => op.code = RoomOf(id)'
                  /\ op.op = "send" /\ op.msg.type = "joined" => op.msg.room = RoomOf(id)'
                  /\ op.op = "send" /\ op.msg.type = "left" => RoomOf(id)' = NoRoom
               /\ agent'[id].room = RoomOf(id)' \/ \E op \in Todo(id)' : Placing(op)
    <3>1. id \in Id /\ id \in Live /\ RoomOf(id)' = RoomOf(id) /\ agent'[id] = agent[id]
      BY <2>1, <2>2, SerialFacts
    <3>2. CASE id # h
      <4>1. Todo(id)' = Todo(id)
        BY <2>3, <3>1, <3>2
      <4> QED BY <2>4, <3>1, <4>1 DEF RoomInv
    <3>3. CASE id = h
      <4>1. Now(h).code = RoomOf(h)
        BY <1>1, <2>3, <2>4, <3>1, <3>3 DEF RoomInv
      <4> QED BY <1>2, <2>3, <2>4, <3>1, <3>3, <4>1 DEF RoomInv
    <3> QED BY <3>2, <3>3
  <2> QED BY <2>5, <2>6 DEF RoomInv
<1> QED BY <1>6, <1>7 DEF ServiceInv

\* notifyRoom: the list that was assembled is the current one, and whoever is
\* in the room is in its range.
LEMMA NotifyKeeps ==
    ASSUME HandlerInv, SerialInv, ServiceInv, NEW h \in Id, NotifyStep(h)
    PROVE  ServiceInv'
<1>1. PICK code \in Code : code = Now(h).code
  BY NotifyShape
<1> DEFINE push == Push(code, MemberList(code), members[code], {})
<1>2. QuietStep(h, {push}) /\ Now(h).op = "notify"
  BY <1>1, NotifyShape
<1>3. ~Placing(push) /\ push.op # "remove" /\ Known(push)
  BY DEF Placing, Push, Known
<1>4. \A id : ~Informs(Now(h), id)
  BY <1>2 DEF Informs
<1>5. \A id \in Live : RoomOf(id) # NoRoom /\ Tells(h, Now(h), id) => Tells(h, push, id)
  <2> SUFFICES ASSUME NEW id \in Live, Tells(h, Now(h), id) PROVE Tells(h, push, id)
    OBVIOUS
  <2>1. RoomOf(id) = code
    BY <1>1, <1>2 DEF Tells
  <2>2. who[id] \in members[code]
    BY <2>1, SerialFacts DEF RoomOf
  <2> QED BY <2>1, <2>2 DEF Tells, Push
<1> QED BY <1>2, <1>3, <1>4, <1>5, ReadingKeeps DEF ServiceInv

\* The range over the room's members, one at a time.
LEMMA PushKeeps ==
    ASSUME HandlerInv, SerialInv, ServiceInv, NEW h \in Id, PushStep(h)
    PROVE  ServiceInv'
<1> DEFINE left == members[Now(h).code] \ Now(h).seen
           next(fp) == Push(Now(h).code, Now(h).list, Now(h).must, Now(h).seen \union {fp})
           update(fp) == Send(byFP[fp], [type |-> "update", list |-> Now(h).list])
<1>1. Now(h).op = "push"
  BY PushShape
<1>2. \A id : ~Informs(Now(h), id)
  BY <1>1 DEF Informs
<1>3. ASSUME NEW id \in Live, RoomOf(id) # NoRoom, Tells(h, Now(h), id)
      PROVE  /\ who[id] \in left /\ who[id] \in Now(h).must
             /\ Now(h).list = CurrentMembers(id)
             /\ Now(h).code = RoomOf(id) /\ Now(h).list = MemberList(Now(h).code)
             /\ byFP[who[id]] = id /\ id # 0
  <2>1. /\ Now(h).code = RoomOf(id) /\ Now(h).list = MemberList(Now(h).code)
        /\ who[id] \in Now(h).must \ Now(h).seen
    BY <1>1, <1>3 DEF Tells
  <2>2. Now(h).list = CurrentMembers(id)
    BY <1>3, <2>1 DEF CurrentMembers
  <2>3. /\ id \in 1 .. seq /\ byFP[who[id]] = id /\ who[id] \in FP
        /\ RoomOf(id) \in Code
    BY <1>3, SerialFacts
  <2>4. who[id] \in members[RoomOf(id)]
    BY <2>3, SerialFacts DEF RoomOf
  <2>5. id # 0
    BY <2>3 DEF HandlerInv, RegistryInv, TypeOK
  <2> QED BY <2>1, <2>2, <2>3, <2>4, <2>5
<1>4. \A fp : /\ ~Placing(next(fp)) /\ next(fp).op # "remove" /\ Known(next(fp))
              /\ ~Placing(update(fp)) /\ update(fp).op # "remove" /\ Known(update(fp))
  BY DEF Placing, Push, Send, Known
<1>5. ASSUME NEW fp, NEW id \in Live, RoomOf(id) # NoRoom, Tells(h, Now(h), id), fp # who[id]
      PROVE  Tells(h, next(fp), id)
  BY <1>3, <1>5 DEF Tells, Push
<1>6. ASSUME NEW id \in Live, RoomOf(id) # NoRoom, Tells(h, Now(h), id)
      PROVE  Tells(h, update(who[id]), id)
  BY <1>3, <1>6 DEF Tells, Send
<1>7. \/ left \intersect Now(h).must = {} /\ QuietStep(h, {})
      \/ \E fp \in left : byFP[fp] = 0 /\ QuietStep(h, {next(fp)})
      \/ \E fp \in left : byFP[fp] \in Live /\ QuietStep(h, {update(fp), next(fp)})
  BY PushShape
<1>8. Now(h).op \notin {"send", "candidates", "created"}
  BY <1>1
<1> HIDE DEF left, next, update
<1>9. CASE left \intersect Now(h).must = {} /\ QuietStep(h, {})
  <2>1. \A id \in Live : ~(RoomOf(id) # NoRoom /\ Tells(h, Now(h), id))
    BY <1>3, <1>9
  <2> QED BY <1>2, <1>8, <1>9, <2>1, ReadingKeeps DEF ServiceInv
<1>10. ASSUME NEW fp \in left, byFP[fp] = 0, QuietStep(h, {next(fp)}) PROVE ServiceInv'
  <2>1. \A id \in Live : RoomOf(id) # NoRoom /\ Tells(h, Now(h), id) => Tells(h, next(fp), id)
    BY <1>3, <1>5, <1>10
  <2> QED BY <1>2, <1>4, <1>8, <1>10, <2>1, ReadingKeeps DEF ServiceInv
<1>11. ASSUME NEW fp \in left, QuietStep(h, {update(fp), next(fp)}) PROVE ServiceInv'
  <2>1. \A id \in Live : RoomOf(id) # NoRoom /\ Tells(h, Now(h), id) =>
            Tells(h, update(fp), id) \/ Tells(h, next(fp), id)
    BY <1>5, <1>6
  <2>2. \A op \in {update(fp), next(fp)} : ~Placing(op) /\ op.op # "remove" /\ Known(op)
    BY <1>4
  <2> QED BY <1>2, <1>8, <1>11, <2>1, <2>2, ReadingKeeps DEF ServiceInv
<1> QED BY <1>7, <1>9, <1>10, <1>11

\* broadcastPeers: the clients collected are those there are.
LEMMA BroadcastKeeps ==
    ASSUME HandlerInv, SerialInv, ServiceInv, NEW h \in Id, BroadcastStep(h)
    PROVE  ServiceInv'
<1>1. QuietStep(h, {Lists(Live)}) /\ Now(h).op = "broadcast"
  BY BroadcastShape
<1>2. ~Placing(Lists(Live)) /\ Lists(Live).op # "remove" /\ Known(Lists(Live))
  BY DEF Placing, Lists, Known
<1>3. \A id : ~Tells(h, Now(h), id)
  BY <1>1 DEF Tells
<1>4. \A id \in Live : Informs(Lists(Live), id)
  BY DEF Informs, Lists
<1> QED BY <1>1, <1>2, <1>3, <1>4, ReadingKeeps DEF ServiceInv

\* And each one's list is the current one when it is computed.
LEMMA ListsKeeps ==
    ASSUME HandlerInv, SerialInv, ServiceInv, NEW h \in Id, ListsStep(h)
    PROVE  ServiceInv'
<1> DEFINE send(c) == Send(c, [type |-> "peers", peers |-> PeerList(c)])
           rest(c) == Lists(Now(h).left \ {c})
<1>1. Now(h).op = "lists"
  BY ListsShape
<1>2. \/ Now(h).left = {} /\ QuietStep(h, {})
      \/ \E c \in Now(h).left : QuietStep(h, {send(c), rest(c)})
  BY ListsShape
<1>3. \A id : ~Tells(h, Now(h), id) /\ (Informs(Now(h), id) => id \in Now(h).left)
  BY <1>1 DEF Tells, Informs
<1>4. \A c : /\ ~Placing(send(c)) /\ send(c).op # "remove"
             /\ ~Placing(rest(c)) /\ rest(c).op # "remove" /\ Known(rest(c))
  BY DEF Placing, Send, Lists, Known
<1>5. \A c : Known(send(c))
  <2>1. \A c : \A p \in PeerList(c) : p.id \in Live
    BY DEF PeerList, VisiblePeers
  <2> QED BY <2>1, SerialFacts DEF Known, Send
<1>6. \A c : Informs(send(c), c)
  BY DEF Informs, Send
<1>7. \A c, id : id \in Now(h).left /\ id # c => Informs(rest(c), id)
  BY DEF Informs, Lists
<1> HIDE DEF send, rest
<1>8. CASE Now(h).left = {} /\ QuietStep(h, {})
  BY <1>1, <1>3, <1>8, ReadingKeeps DEF ServiceInv
<1>9. ASSUME NEW c \in Now(h).left, QuietStep(h, {send(c), rest(c)}) PROVE ServiceInv'
  <2>1. \A id \in Live : Informs(Now(h), id) => Informs(send(c), id) \/ Informs(rest(c), id)
    BY <1>3, <1>6, <1>7
  <2>2. \A op \in {send(c), rest(c)} : ~Placing(op) /\ op.op # "remove" /\ Known(op)
    BY <1>4, <1>5
  <2> QED BY <1>1, <1>3, <1>9, <2>1, <2>2, ReadingKeeps DEF ServiceInv
<1> QED BY <1>2, <1>8, <1>9

\* Writing a message: the client is where, and knows what, the message says.
LEMMA SendKeeps ==
    ASSUME HandlerInv, PunchInv, SerialInv, ServiceInv, NEW h \in Id, SendStep(h)
    PROVE  ServiceInv'
<1>1. PICK to \in Id, msg \in Message :
             /\ Now(h) = Send(to, msg) /\ Moves(h, {})
             /\ Delivered(to, msg)
             /\ UNCHANGED <<registryVars, who, requests, refused>>
  BY SendShape
<1>2. /\ Live' = Live /\ seq' = seq /\ clients' = clients /\ Live \subseteq Id
      /\ \A id : RoomOf(id)' = RoomOf(id)
      /\ \A id : PeerList(id)' = PeerList(id)
      /\ \A c : MemberList(c)' = MemberList(c)
  BY <1>1, SameView, ListTypes DEF HandlerInv
<1>3. /\ Changes(h, {Now(h)}, {})
      /\ \A g \in Id : Todo(g)' \subseteq Todo(g)
      /\ \A g \in Id : \A op \in Todo(g) : op \in Todo(g)' \/ op = Now(h)
      /\ Now(h) \in Todo(h)
      /\ \A g \in Id \ {h} : Todo(g)' = Todo(g)
  BY <1>1, MovesChanges DEF Moves
<1>4. /\ Now(h).op = "send" /\ Now(h).to = to /\ Now(h).msg = msg
  BY <1>1 DEF Send
<1>5. HandlerTypes /\ agent \in [Id -> Client] /\ RoomInv /\ ToldInv /\ ListedInv /\ TriedInv
  BY DEF HandlerInv, HandlerTypes, ServiceInv
<1>6. \A i \in Id : i # to \/ to \notin Live =>
        agent'[i] = agent[i] /\ Waiting(i)' = Waiting(i)
  <2>1. CASE to \in Live
    BY <1>1, <1>5, <2>1, DeliveredFacts
  <2>2. CASE to \notin Live
    BY <1>1, <2>2 DEF Delivered, Waiting
  <2> QED BY <2>1, <2>2
<1>7. ASSUME to \in Live
      PROVE  /\ agent'[to].room = IF msg.type = "joined" THEN msg.room
                                  ELSE IF msg.type = "left" THEN NoRoom ELSE agent[to].room
             /\ agent'[to].punch = IF msg.type = "cands" /\ agent[to].on
                                   THEN agent[to].punch \union {msg.peer} ELSE agent[to].punch
             /\ agent'[to].tried = IF msg.type \in {"registered", "peers"}
                    THEN agent[to].tried \union {p.id : p \in {q \in msg.peers : q.pub}}
                    ELSE agent[to].tried
             /\ Waiting(to) \subseteq Waiting(to)'
             /\ msg.type \in {"registered", "peers"} =>
                    \A p \in Fresh(agent[to], msg.peers) : Ask(p) \in Waiting(to)'
  <2>1. /\ agent'[to] = Read(agent[to], msg)
        /\ Waiting(to)' = Waiting(to) \union Range(Reaction(agent[to], msg))
        /\ agent[to] \in Client
    BY <1>1, <1>5, <1>7, DeliveredFacts
  <2>2. Read(agent[to], msg).room = IF msg.type = "joined" THEN msg.room
                                    ELSE IF msg.type = "left" THEN NoRoom ELSE agent[to].room
    BY <2>1, ReadFacts, Zenon
  <2>3. Read(agent[to], msg).punch = IF msg.type = "cands" /\ agent[to].on
                                     THEN agent[to].punch \union {msg.peer} ELSE agent[to].punch
    BY <2>1, ReadFacts, Zenon
  <2>4. Read(agent[to], msg).tried = IF msg.type \in {"registered", "peers"}
                    THEN agent[to].tried \union {p.id : p \in {q \in msg.peers : q.pub}}
                    ELSE agent[to].tried
    BY <2>1, ReadFacts, Zenon
  <2>5. msg.type \in {"registered", "peers"} =>
            {Ask(p) : p \in Fresh(agent[to], msg.peers)} \subseteq Range(Reaction(agent[to], msg))
    BY <2>1, ReactionFacts
  <2> QED BY <2>1, <2>2, <2>3, <2>4, <2>5
<1>8. RoomInv'
  <2>1. \A g \in Id : \A op \in Todo(g)' : Placing(op) /\ op.op = "send" => op.to = g
    BY <1>3, <1>5 DEF RoomInv
  <2>2. msg.type \in {"joined", "left"} <=> Placing(Now(h))
    BY <1>4 DEF Placing
  <2>3. Placing(Now(h)) => to = h
    BY <1>3, <1>4, <1>5 DEF RoomInv
  <2>4. ASSUME NEW id \in Live'
        PROVE  /\ \A op \in Todo(id)' :
                  /\ op.op \in {"created", "remove"} => op.code = RoomOf(id)'
                  /\ op.op = "send" /\ op.msg.type = "joined" => op.msg.room = RoomOf(id)'
                  /\ op.op = "send" /\ op.msg.type = "left" => RoomOf(id)' = NoRoom
               /\ agent'[id].room = RoomOf(id)' \/ \E op \in Todo(id)' : Placing(op)
    <3>1. id \in Id /\ id \in Live /\ RoomOf(id)' = RoomOf(id) /\ Todo(id)' \subseteq Todo(id)
      BY <1>2, <1>3
    <3>2. \A op \in Todo(id)' :
                  /\ op.op \in {"created", "remove"} => op.code = RoomOf(id)'
                  /\ op.op = "send" /\ op.msg.type = "joined" => op.msg.room = RoomOf(id)'
                  /\ op.op = "send" /\ op.msg.type = "left" => RoomOf(id)' = NoRoom
      BY <1>5, <3>1 DEF RoomInv
    <3>3. CASE ~(Placing(Now(h)) /\ id = h)
      <4>1. agent'[id].room = agent[id].room
        BY <1>6, <1>7, <2>2, <2>3, <3>1, <3>3
      <4>2. \A op \in Todo(id) : Placing(op) => op \in Todo(id)'
        BY <1>3, <3>1, <3>3
      <4> QED BY <1>5, <3>1, <3>2, <4>1, <4>2 DEF RoomInv
    <3>4. CASE Placing(Now(h)) /\ id = h
      <4>1. to = id /\ to \in Live /\ msg.type \in {"joined", "left"}
        BY <2>2, <2>3, <3>1, <3>4
      <4>2. /\ msg.type = "joined" => msg.room = RoomOf(id)
            /\ msg.type = "left" => RoomOf(id) = NoRoom
        BY <1>3, <1>4, <1>5, <3>1, <3>4 DEF RoomInv
      <4>3. agent'[id].room = RoomOf(id)
        BY <1>7, <4>1, <4>2
      <4> QED BY <3>1, <3>2, <4>3
    <3> QED BY <3>3, <3>4
  <2> QED BY <2>1, <2>4 DEF RoomInv
<1>9. ToldInv'
  <2>1. told \subseteq told'
    BY <1>1 DEF Delivered
  <2>2. ASSUME NEW id \in Live, Tells(h, Now(h), id) PROVE id \in told'
    <3>1. to = id /\ msg.type \in {"joined", "update"} /\ msg.list = CurrentMembers(id)
      BY <1>4, <2>2 DEF Tells
    <3> QED BY <1>1, <3>1 DEF Delivered
  <2>3. \A id \in Live : RoomOf(id) # NoRoom => RoomOf(id) \in Code
    BY SerialFacts
  <2> QED BY <1>1, <1>2, <1>3, <1>5, <2>1, <2>2, <2>3, ToldKept, SentinelAssumption
<1>10. ListedInv'
  <2>1. listed \subseteq listed'
    BY <1>1 DEF Delivered
  <2>2. ASSUME NEW id \in Live, Informs(Now(h), id) PROVE id \in listed'
    <3>1. to = id /\ msg.type = "peers" /\ msg.peers = PeerList(id)
      BY <1>4, <2>2 DEF Informs
    <3> QED BY <1>1, <3>1 DEF Delivered
  <2> QED BY <1>2, <1>3, <1>5, <2>1, <2>2, ListedKept
<1>11. TriedInv'
  <2>1. ASSUME NEW p \in Live, NEW q \in Id, Given(p, q) PROVE Given(p, q)'
    <3> DEFINE op == Send(p, [type |-> "cands", peer |-> q])
    <3>1. p \in Id /\ agent[p].on
      BY <1>2, <2>1 DEF PunchInv
    <3>2. op = Now(h) => to = p /\ msg = [type |-> "cands", peer |-> q]
      BY <1>1 DEF Send
    <3>3. msg = [type |-> "cands", peer |-> q] => msg.type = "cands" /\ msg.peer = q
      OBVIOUS
    <3> HIDE DEF op
    <3>4. \A g \in Id : op \in Todo(g) => op \in Todo(g)' \/ op = Now(h)
      BY <1>3
    <3>5. agent[p].punch \subseteq agent'[p].punch
      BY <1>6, <1>7, <3>1
    <3>6. op = Now(h) => q \in agent'[p].punch
      BY <1>7, <2>1, <3>1, <3>2, <3>3
    <3>7. Given(p, q) <=> q \in agent[p].punch \/ \E g \in Id : op \in Todo(g)
      BY DEF Given, op
    <3>8. Given(p, q)' <=> q \in agent'[p].punch \/ \E g \in Id : op \in Todo(g)'
      BY DEF Given, op
    <3> QED BY <2>1, <3>4, <3>5, <3>6, <3>7, <3>8
  <2>2. Known(Now(h))
    BY <1>3, <1>5 DEF TriedInv
  <2>3. \A q \in Id : /\ agent[q].tried \subseteq agent'[q].tried
                      /\ Waiting(q) \subseteq Waiting(q)'
    BY <1>6, <1>7
  <2>4. \A p, q \in Live : Candidates(p) \in Todo(q) => Candidates(p) \in Todo(q)'
    <3>1. \A p : Candidates(p) # Now(h)
      BY <1>4 DEF Candidates
    <3> QED BY <1>2, <1>3, <3>1
  <2>5. ASSUME NEW p \in Live', NEW q \in Live', p \in agent'[q].tried
        PROVE  \/ Ask(p) \in Waiting(q)' \/ Candidates(p) \in Todo(q)'
               \/ <<q, p>> \in refused' \/ Given(p, q)'
    <3>1. p \in Live /\ q \in Live /\ p \in Id /\ q \in Id /\ refused' = refused
      BY <1>1, <1>2
    <3>2. CASE p \in agent[q].tried
      BY <1>5, <2>1, <2>3, <2>4, <3>1, <3>2 DEF TriedInv
    <3>3. CASE p \notin agent[q].tried
      <4>1. q = to /\ to \in Live
        BY <1>6, <2>5, <3>1, <3>3
      <4>2. /\ msg.type \in {"registered", "peers"}
            /\ p \in Fresh(agent[to], msg.peers)
        BY <1>7, <2>5, <3>3, <4>1 DEF Fresh
      <4> QED BY <1>7, <4>1, <4>2
    <3> QED BY <3>2, <3>3
  <2>6. ASSUME NEW q \in (Live \intersect listed)', NEW p \in PeerList(q)', p.pub
        PROVE  p.id \in agent'[q].tried
    <3>1. q \in Live /\ q \in Id /\ p \in PeerList(q)
      BY <1>2, <2>6
    <3>2. CASE q \in listed
      BY <1>5, <2>3, <2>6, <3>1, <3>2 DEF TriedInv
    <3>3. CASE q \notin listed
      <4>1. q = to /\ to \in Live /\ msg.type = "peers" /\ msg.peers = PeerList(q)
        BY <1>1, <2>6, <3>3 DEF Delivered
      <4> QED BY <1>7, <2>6, <3>1, <4>1
    <3> QED BY <3>2, <3>3
  <2>7. ASSUME NEW q \in Id, NEW p \in agent'[q].tried PROVE p <= seq'
    <3>1. CASE p \in agent[q].tried
      BY <1>2, <1>5, <3>1 DEF TriedInv
    <3>2. CASE p \notin agent[q].tried
      <4>1. q = to /\ to \in Live
        BY <1>6, <2>7, <3>2
      <4>2. msg.type \in {"registered", "peers"} /\ \E x \in msg.peers : p = x.id
        BY <1>7, <2>7, <3>2, <4>1
      <4> QED BY <1>2, <1>4, <2>2, <4>2 DEF Known
    <3> QED BY <3>1, <3>2
  <2>8. \A g \in Id : \A op \in Todo(g)' : Known(op)'
    BY <1>2, <1>3, <1>5 DEF TriedInv, Known
  <2> QED BY <2>5, <2>6, <2>7, <2>8 DEF TriedInv
<1> QED BY <1>8, <1>9, <1>10, <1>11 DEF ServiceInv

\* A request for candidates is answered with them, or refused.
LEMMA CandidatesKeeps ==
    ASSUME HandlerInv, SerialInv, ServiceInv, NEW h \in Id, CandidatesStep(h)
    PROVE  ServiceInv'
<1>1. UNCHANGED <<registryVars, who, agent, up, told, listed>> /\ h \in Live
  BY CandidatesShape
<1>2. PICK d \in Id :
        /\ Now(h) = Candidates(d)
        /\ \/ /\ Moves(h, {Send(h, [type |-> "cands", peer |-> d]),
                           Send(d, [type |-> "cands", peer |-> h])})
              /\ refused' = refused
           \/ Moves(h, {}) /\ refused' = refused \union {<<h, d>>}
  BY CandidatesShape
<1>3. /\ Live' = Live /\ seq' = seq /\ Live \subseteq Id
      /\ \A id : RoomOf(id)' = RoomOf(id)
      /\ \A id : PeerList(id)' = PeerList(id)
      /\ \A c : MemberList(c)' = MemberList(c)
  BY <1>1, SameView, ListTypes DEF HandlerInv
<1>4. /\ ~Placing(Now(h)) /\ ~Exchanges(Now(h)) /\ \A p : Candidates(p) = Now(h) => p = d
      /\ \A id : ~Tells(h, Now(h), id) /\ ~Informs(Now(h), id)
  BY <1>2 DEF Placing, Exchanges, Candidates, Tells, Informs
<1>5. PICK new : /\ Moves(h, new) /\ refused \subseteq refused'
                 /\ \/ <<h, d>> \in refused'
                    \/ Send(d, [type |-> "cands", peer |-> h]) \in new
                 /\ \A op \in new : ~Placing(op) /\ op.op # "remove" /\ Known(op)
  <2>1. \A x, y : /\ ~Placing(Send(x, [type |-> "cands", peer |-> y]))
                  /\ Send(x, [type |-> "cands", peer |-> y]).op # "remove"
                  /\ Known(Send(x, [type |-> "cands", peer |-> y]))
    BY DEF Placing, Send, Known
  <2>2. CASE /\ Moves(h, {Send(h, [type |-> "cands", peer |-> d]),
                          Send(d, [type |-> "cands", peer |-> h])})
             /\ refused' = refused
    BY <2>1, <2>2
  <2>3. CASE Moves(h, {}) /\ refused' = refused \union {<<h, d>>}
    BY <2>3
  <2> QED BY <1>2, <2>2, <2>3
<1>6. Changes(h, {Now(h)}, new)
  BY <1>5, MovesChanges
<1>7. RoomInv'
  BY <1>1, <1>3, <1>4, <1>5, <1>6, RoomKept DEF ServiceInv
<1>8. ToldInv'
  <2>1. \A id \in Live : RoomOf(id) # NoRoom => RoomOf(id) \in Code
    BY SerialFacts
  <2> QED BY <1>1, <1>3, <1>4, <1>6, <2>1, ToldKept, SentinelAssumption DEF ServiceInv
<1>9. ListedInv'
  BY <1>1, <1>3, <1>4, <1>6, ListedKept DEF ServiceInv
<1>10. TriedInv'
  <2>1. \A p, q \in Id : Given(p, q) => Given(p, q)'
    BY <1>1, <1>4, <1>6, GivenKept
  <2>2. \A p \in Id : Waiting(p)' = Waiting(p)
    BY <1>1 DEF Waiting
  <2>3. ASSUME NEW p \in Live, NEW q \in Live, Candidates(p) \in Todo(q)
        PROVE  Candidates(p) \in Todo(q)' \/ <<q, p>> \in refused' \/ Given(p, q)'
    <3>1. CASE Candidates(p) \in Todo(q)'
      BY <3>1
    <3>2. CASE q = h /\ Candidates(p) = Now(h)
      <4>1. p = d
        BY <1>4, <3>2
      <4>2. Send(d, [type |-> "cands", peer |-> h]) \in new => Given(d, h)'
        BY <1>6 DEF Changes, Given
      <4> QED BY <1>5, <3>2, <4>1, <4>2
    <3> QED BY <1>3, <1>6, <2>3, <3>1, <3>2 DEF Changes
  <2> QED BY <1>1, <1>3, <1>5, <1>6, <2>1, <2>2, <2>3, TriedKept DEF ServiceInv
<1> QED BY <1>7, <1>8, <1>9, <1>10 DEF ServiceInv

\* A user that is taken out of its room leaves every other room as it was.
LEMMA DropOthers ==
    ASSUME TypeOK, RoomsConsistent, NEW fp \in FP,
           IF inRoom[fp] = NoRoom THEN UNCHANGED roomVars ELSE DropMember(fp),
           \A g \in FP \ {fp} : byFP'[g] = byFP[g]
    PROVE  /\ inRoom' = [inRoom EXCEPT ![fp] = NoRoom]
           /\ \A c \in Code \ {inRoom[fp]} : MemberList(c)' = MemberList(c)
<1>1. CASE inRoom[fp] = NoRoom
  <2>1. UNCHANGED <<inRoom, members, host>>
    BY <1>1 DEF roomVars
  <2>2. inRoom' = [inRoom EXCEPT ![fp] = NoRoom]
    BY <1>1, <2>1 DEF TypeOK
  <2>3. ASSUME NEW c \in Code PROVE MemberList(c)' = MemberList(c)
    <3>1. fp \notin members[c]
      BY <1>1, SentinelAssumption DEF RoomsConsistent
    <3>2. members[c] \subseteq FP
      BY DEF TypeOK
    <3>3. ResolvedMembers(c)' = ResolvedMembers(c)
      BY <2>1, <3>1, <3>2 DEF ResolvedMembers
    <3> QED BY <2>1, <3>3 DEF MemberList
  <2> QED BY <2>2, <2>3
<1>2. CASE inRoom[fp] # NoRoom
  <2>1. DropMember(fp)
    BY <1>2
  <2>2. inRoom[fp] \in Code
    BY <1>2 DEF TypeOK
  <2>3. ASSUME NEW c \in Code, c # inRoom[fp] PROVE MemberList(c)' = MemberList(c)
    <3>1. fp \notin members[c] /\ members[c] \subseteq FP
      BY <2>3 DEF TypeOK, RoomsConsistent
    <3>2. members'[c] = members[c]
      BY <2>1, <2>3 DEF DropMember, TypeOK
    <3>3. host'[c] = host[c]
      BY <2>1, <2>3 DEF DropMember, TypeOK
    <3>4. ResolvedMembers(c)' = ResolvedMembers(c)
      BY <3>1, <3>2 DEF ResolvedMembers
    <3> QED BY <3>3, <3>4 DEF MemberList
  <2>4. inRoom' = [inRoom EXCEPT ![fp] = NoRoom]
    BY <2>1 DEF DropMember
  <2> QED BY <2>3, <2>4
<1> QED BY <1>1, <1>2

\* Every handler step that starts on a request or ends its connection.
LEMMA ChangeKeeps ==
    ASSUME HandlerInv, SerialInv, ServiceInv, NEW h \in Id, NEW gone, NEW new,
           Changes(h, gone, new), UNCHANGED agent, seq' = seq, Live' \subseteq Live,
           refused \subseteq refused',
           \A op \in gone : op.op = "remove",
           \A op \in new : op.op # "candidates" => Known(op) /\ ~Exchanges(op),
           \A p, q \in Live : Ask(p) \in Waiting(q) =>
                \/ Ask(p) \in Waiting(q)' \/ Candidates(p) \in Todo(q)'
                \/ <<q, p>> \in refused',
           \A i \in listed' : i \in listed /\ PeerList(i)' = PeerList(i)
    PROVE  TriedInv'
<1>1. Live \subseteq Id
  BY ListTypes DEF HandlerInv
<1>2. \A op \in new : Known(op)
  BY DEF Known
<1>3. /\ \A op \in gone : ~Exchanges(op)
      /\ \A p : Candidates(p) \notin gone
  BY DEF Exchanges, Candidates
<1>4. \A p, q \in Id : Given(p, q) => Given(p, q)'
  BY <1>3, GivenKept
<1>5. \A p, q \in Id : Candidates(p) \in Todo(q) => Candidates(p) \in Todo(q)'
  BY <1>3 DEF Changes
<1> QED BY <1>1, <1>2, <1>4, <1>5, TriedKept DEF ServiceInv

\* A connection's end: its room and all clients are told.
LEMMA RemoveKeeps ==
    ASSUME HandlerInv, SerialInv, ServiceInv, NEW h \in Id, RemoveStep(h)
    PROVE  ServiceInv'
<1>1. /\ UNCHANGED <<who, agent, up, refused>> /\ Outdate
      /\ h \in Live /\ Remove(h) /\ Live' = Live \ {h}
      /\ Now(h).op = "remove"
  BY RemoveShape
<1>2. PICK new : /\ Moves(h, new) /\ Broadcast \in new
                 /\ \/ Now(h).code = NoRoom /\ new = {Broadcast}
                    \/ Now(h).code \in Code /\ new = {Notify(Now(h).code), Broadcast}
  BY RemoveShape
<1>3. Now(h).code = RoomOf(h)
  BY <1>1, <1>2 DEF Moves, ServiceInv, RoomInv
<1>4. /\ TypeOK /\ RoomsConsistent /\ who[h] = clients[h].fp /\ who[h] \in FP
      /\ Live \subseteq Id
  BY <1>1, SerialFacts DEF SerialInv, RegistryInv
<1>5. /\ seq' = seq
      /\ IF inRoom[who[h]] = NoRoom THEN UNCHANGED roomVars ELSE DropMember(who[h])
      /\ \A g \in FP \ {who[h]} : byFP'[g] = byFP[g]
  BY <1>1, <1>4 DEF Remove, Forget, TypeOK
<1>6. PICK fp \in FP : fp = who[h]
  BY <1>4
<1>7. /\ inRoom' = [inRoom EXCEPT ![fp] = NoRoom]
      /\ \A c \in Code \ {RoomOf(h)} : MemberList(c)' = MemberList(c)
  BY <1>4, <1>5, <1>6, DropOthers DEF RoomOf
<1>8. \A id \in Live' : id \in Live /\ RoomOf(id)' = RoomOf(id)
  <2> SUFFICES ASSUME NEW id \in Live' PROVE id \in Live /\ RoomOf(id)' = RoomOf(id)
    OBVIOUS
  <2>1. id \in Live /\ id # h /\ who[id] # fp /\ who[id] \in FP
    BY <1>1, <1>6, SerialFacts
  <2> QED BY <1>1, <1>4, <1>7, <2>1 DEF RoomOf, TypeOK
<1>9. /\ Changes(h, {Now(h)}, new)
      /\ \A op \in new : /\ ~Placing(op) /\ op.op # "remove"
                         /\ Known(op) /\ ~Exchanges(op)
  <2>1. /\ ~Placing(Broadcast) /\ Broadcast.op # "remove"
        /\ Known(Broadcast) /\ ~Exchanges(Broadcast)
    BY DEF Broadcast, Placing, Known, Exchanges
  <2>2. \A c : /\ ~Placing(Notify(c)) /\ Notify(c).op # "remove"
               /\ Known(Notify(c)) /\ ~Exchanges(Notify(c))
    BY DEF Notify, Placing, Known, Exchanges
  <2> QED BY <1>2, <2>1, <2>2, MovesChanges
<1>10. ~Placing(Now(h))
  BY <1>1 DEF Placing
<1>11. RoomInv'
  BY <1>1, <1>4, <1>8, <1>9, <1>10, RoomKept DEF ServiceInv
<1>12. ToldInv'
  <2>1. \A id : ~Tells(h, Now(h), id)
    BY <1>1 DEF Tells
  <2>2. ASSUME NEW id \in Live', RoomOf(id)' # NoRoom
        PROVE  \/ \E op \in new : Tells(h, op, id)'
               \/ /\ id \in Live /\ who'[id] = who[id]
                  /\ id \in told => id \in told'
                  /\ \E c \in Code : /\ RoomOf(id) = c /\ RoomOf(id)' = c
                                     /\ MemberList(c)' = MemberList(c)
    <3>1. /\ id \in Live /\ RoomOf(id)' = RoomOf(id)
          /\ RoomOf(id) # NoRoom /\ RoomOf(id) \in Code
      BY <1>8, <2>2, SerialFacts
    <3>2. PICK c \in Code : c = RoomOf(id)
      BY <3>1
    <3>3. CASE c = RoomOf(h)
      <4>1. c # NoRoom /\ Notify(c) \in new
        BY <1>2, <1>3, <3>3, SentinelAssumption
      <4>2. Tells(h, Notify(c), id)'
        BY <3>1, <3>2 DEF Tells, Notify
      <4> QED BY <4>1, <4>2
    <3>4. CASE c # RoomOf(h)
      <4>1. MemberList(c)' = MemberList(c)
        BY <1>7, <3>4
      <4>2. CurrentMembers(id) = MemberList(c) /\ CurrentMembers(id)' = MemberList(c)'
        BY <3>1, <3>2, <2>2 DEF CurrentMembers, MemberList, ResolvedMembers
      <4>3. id \in told => id \in told'
        BY <1>1, <4>1, <4>2, OutdateFacts
      <4> QED BY <1>1, <3>1, <3>2, <4>1, <4>3
    <3> QED BY <3>3, <3>4
  <2> QED BY <1>9, <2>1, <2>2, ToldKept, SentinelAssumption DEF ServiceInv
<1>13. ListedInv'
  <2>1. \A id : Informs(Broadcast, id)'
    BY DEF Informs, Broadcast
  <2> QED BY <1>2, <1>9, <2>1, ListedKept DEF ServiceInv
<1>14. TriedInv'
  <2>1. \A p \in Id : Waiting(p)' = Waiting(p)
    BY <1>1 DEF Waiting
  <2>2. \A i \in listed' : i \in listed /\ PeerList(i)' = PeerList(i)
    BY <1>1, OutdateFacts
  <2> QED BY <1>1, <1>4, <1>5, <1>9, <2>1, <2>2, ChangeKeeps
<1> QED BY <1>11, <1>12, <1>13, <1>14 DEF ServiceInv

\* A registration: the user is in no room, and all clients are told.
LEMMA RegisterKeeps ==
    ASSUME ~Overlap, HandlerInv, SerialInv, ServiceInv, NEW fp \in FP, Register(fp)
    PROVE  ServiceInv'
<1>1. /\ MayRegister(fp) /\ Add(fp) /\ Outdate
      /\ who' = Append(who, fp) /\ UNCHANGED <<agent, up, refused>>
      /\ Live' = Live \union {seq + 1}
  BY RegisterShape
<1>2. PICK s \in Id : s = seq + 1 /\ Starts(s, {Welcome, Broadcast})
  BY RegisterShape
<1>3. /\ TypeOK /\ RoomsConsistent /\ seq \in Nat /\ Live \subseteq Id
      /\ \A id \in Live : id \in 1 .. seq
      /\ who \in Seq(FP) /\ Len(who) = seq
  BY SerialFacts DEF SerialInv, RegistryInv, TypeOK, HandlerInv, HandlerTypes
<1>4. /\ seq' = seq + 1 /\ UNCHANGED roomVars
      /\ byFP' = [byFP EXCEPT ![fp] = seq + 1]
  BY <1>1 DEF Add, Point
<1>5. who'[s] = fp /\ \A id \in Live : who'[id] = who[id]
  <2>1. who' = Append(who, fp) /\ who \in Seq(FP) /\ Len(who) = seq /\ seq \in Nat
    BY <1>1, <1>3
  <2>2. who'[seq + 1] = fp /\ \A i \in 1 .. seq : who'[i] = who[i]
    BY <2>1
  <2> QED BY <1>2, <1>3, <2>2
<1>6. inRoom[fp] = NoRoom
  <2>1. \A id \in Live : clients[id].fp # fp
    BY <1>1 DEF MayRegister
  <2>2. byFP[fp] \notin Live \/ byFP[fp] = 0
    BY <2>1 DEF SerialInv, RegistryInv, ByFPSound
  <2>3. 0 \notin Live
    BY <1>3
  <2> QED BY <2>2, <2>3, SerialFacts
<1>7. /\ RoomOf(s)' = NoRoom
      /\ \A id \in Live : RoomOf(id)' = RoomOf(id)
  BY <1>4, <1>5, <1>6 DEF RoomOf, roomVars
<1>8. ASSUME NEW c \in Code PROVE MemberList(c)' = MemberList(c)
  <2>1. fp \notin members[c] /\ members[c] \subseteq FP
    BY <1>3, <1>6, SentinelAssumption DEF RoomsConsistent, TypeOK
  <2>2. ResolvedMembers(c)' = ResolvedMembers(c)
    BY <1>3, <1>4, <2>1 DEF ResolvedMembers, roomVars, TypeOK
  <2> QED BY <1>4, <2>2 DEF MemberList, roomVars
<1>9. /\ Todo(s) = {} /\ Todo(s)' = {Welcome, Broadcast}
      /\ \A g \in Id \ {s} : Todo(g)' = Todo(g)
      /\ Changes(s, {}, {Welcome, Broadcast})
  BY <1>2, MovesChanges DEF Starts
<1>10. Unborn(s) /\ s \notin Live
  BY <1>2, <1>3 DEF HandlerInv
<1>11. /\ ~Placing(Welcome) /\ Welcome.op \notin {"remove", "created", "send"} /\ Known(Welcome)'
       /\ ~Placing(Broadcast) /\ Broadcast.op \notin {"remove", "created", "send"}
       /\ Known(Broadcast)'
  BY DEF Welcome, Broadcast, Placing, Known
<1>12. RoomInv'
  <2>1. RoomInv
    BY DEF ServiceInv
  <2>2. \A g \in Id : \A op \in Todo(g)' : Placing(op) /\ op.op = "send" => op.to = g
    BY <1>9, <1>11, <2>1 DEF RoomInv
  <2>3. ASSUME NEW id \in Live'
        PROVE  /\ \A op \in Todo(id)' :
                  /\ op.op \in {"created", "remove"} => op.code = RoomOf(id)'
                  /\ op.op = "send" /\ op.msg.type = "joined" => op.msg.room = RoomOf(id)'
                  /\ op.op = "send" /\ op.msg.type = "left" => RoomOf(id)' = NoRoom
               /\ agent'[id].room = RoomOf(id)' \/ \E op \in Todo(id)' : Placing(op)
    <3>1. CASE id = s
      <4>1. agent'[id].room = NoRoom
        BY <1>1, <1>10, <3>1 DEF Unborn
      <4> QED BY <1>7, <1>9, <1>11, <3>1, <4>1
    <3>2. CASE id # s
      <4>1. id \in Live /\ id \in Id /\ Todo(id)' = Todo(id) /\ agent'[id] = agent[id]
        BY <1>1, <1>2, <1>3, <1>9, <3>2
      <4>2. RoomOf(id)' = RoomOf(id)
        BY <1>7, <4>1
      <4> QED BY <2>1, <4>1, <4>2 DEF RoomInv
    <3> QED BY <3>1, <3>2
  <2> QED BY <2>2, <2>3 DEF RoomInv
<1>13. ToldInv'
  <2>1. ASSUME NEW id \in Live', RoomOf(id)' # NoRoom
        PROVE  /\ id \in Live /\ who'[id] = who[id]
               /\ id \in told => id \in told'
               /\ \E c \in Code : /\ RoomOf(id) = c /\ RoomOf(id)' = c
                                  /\ MemberList(c)' = MemberList(c)
    <3>1. id # s /\ id \in Live
      BY <1>1, <1>2, <1>7, <2>1
    <3>2. PICK c \in Code : c = RoomOf(id)
      BY <1>7, <2>1, <3>1, SerialFacts
    <3>3. RoomOf(id)' = c /\ MemberList(c)' = MemberList(c) /\ c # NoRoom
      BY <1>7, <1>8, <3>1, <3>2, SentinelAssumption
    <3>4. CurrentMembers(id) = MemberList(c) /\ CurrentMembers(id)' = MemberList(c)'
      BY <3>2, <3>3 DEF CurrentMembers, MemberList, ResolvedMembers
    <3>5. id \in told => id \in told'
      BY <1>1, <3>3, <3>4, OutdateFacts
    <3> QED BY <1>5, <3>1, <3>2, <3>3, <3>5
  <2> QED BY <1>9, <2>1, ToldKept, SentinelAssumption DEF ServiceInv
<1>14. ListedInv'
  <2>1. \A id : Informs(Broadcast, id)'
    BY DEF Informs, Broadcast
  <2> QED BY <1>9, <2>1, ListedKept DEF ServiceInv
<1>15. TriedInv'
  <2>1. TriedInv
    BY DEF ServiceInv
  <2>2. ASSUME NEW p \in Live', NEW q \in Live', p \in agent'[q].tried
        PROVE  \/ Ask(p) \in Waiting(q)' \/ Candidates(p) \in Todo(q)'
               \/ <<q, p>> \in refused' \/ Given(p, q)'
    <3>1. agent' = agent /\ up' = up /\ refused' = refused
      BY <1>1
    <3>2. q # s
      BY <1>10, <2>2, <3>1 DEF Unborn
    <3>3. q \in Live /\ q \in Id
      BY <1>1, <1>2, <1>3, <3>2
    <3>4. p # s
      BY <1>2, <1>3, <2>1, <2>2, <3>1, <3>3 DEF TriedInv
    <3>5. p \in Live /\ p \in Id
      BY <1>1, <1>2, <1>3, <3>4
    <3>6. Given(p, q) => Given(p, q)'
      BY <1>9, <3>1, <3>3, <3>5, GivenKept
    <3>7. Todo(q)' = Todo(q) /\ Waiting(q)' = Waiting(q)
      BY <1>9, <3>1, <3>2, <3>3 DEF Waiting
    <3> QED BY <2>1, <2>2, <3>1, <3>3, <3>5, <3>6, <3>7 DEF TriedInv
  <2>3. ASSUME NEW q \in (Live \intersect listed)', NEW p \in PeerList(q)', p.pub
        PROVE  p.id \in agent'[q].tried
    <3>1. q \in listed /\ PeerList(q)' = PeerList(q) /\ agent' = agent /\ q \in Live'
      BY <1>1, <2>3, OutdateFacts
    <3>2. CASE q = s
      <4>1. inRoom'[who'[s]] = NoRoom
        BY <1>7 DEF RoomOf
      <4>2. PeerList(s)' = {}
        BY <4>1 DEF PeerList, VisiblePeers
      <4> QED BY <2>3, <3>2, <4>2
    <3>3. CASE q # s
      <4>1. q \in Live
        BY <1>1, <1>2, <3>1, <3>3
      <4> QED BY <2>1, <2>3, <3>1, <4>1 DEF TriedInv
    <3> QED BY <3>2, <3>3
  <2>4. ASSUME NEW q \in Id, NEW p \in agent'[q].tried PROVE p <= seq'
    <3>1. p \in agent[q].tried
      BY <1>1, <2>4
    <3>2. p <= seq /\ agent[q].tried \subseteq Id
      BY <2>1, <3>1 DEF TriedInv, HandlerInv, HandlerTypes, Client
    <3> QED BY <1>3, <1>4, <3>1, <3>2 DEF Id
  <2>5. ASSUME NEW g \in Id, NEW op \in Todo(g)' PROVE Known(op)'
    <3>1. CASE g = s
      BY <1>9, <1>11, <3>1
    <3>2. CASE g # s
      <4>1. op \in Todo(g) /\ Known(op)
        BY <1>9, <2>1, <2>5, <3>2 DEF TriedInv
      <4>2. work[g] \in Seq(Operation)
        BY DEF HandlerInv, HandlerTypes
      <4>3. op \in Operation
        BY <4>1, <4>2 DEF Todo, Range
      <4> QED BY <4>3, <1>3, <1>4, <4>1, OperationFields, MessageFields DEF Known, Peer, Id
    <3> QED BY <3>1, <3>2
  <2> QED BY <2>2, <2>3, <2>4, <2>5 DEF TriedInv
<1> QED BY <1>12, <1>13, <1>14, <1>15 DEF ServiceInv

\* A client's endpoint has changed: all clients are told.
LEMMA ReportKeeps ==
    ASSUME HandlerInv, SerialInv, ServiceInv, NEW h \in Id, HandleReport(h)
    PROVE  ServiceInv'
<1>1. /\ Idle(h) /\ Head(up[h]) = Report /\ up[h] # << >>
      /\ up' = [up EXCEPT ![h] = Tail(@)] /\ Live' = Live
      /\ UNCHANGED <<who, agent, refused>> /\ Outdate /\ Starts(h, {Broadcast})
  BY ReportShape
<1>2. UNCHANGED <<byFP, seq, roomVars>>
  BY ReportShape DEF UpdateEndpoint
<1>3. /\ \A id : RoomOf(id)' = RoomOf(id)
      /\ \A c : MemberList(c)' = MemberList(c)
      /\ \A id : CurrentMembers(id)' = CurrentMembers(id)
  BY <1>1, <1>2 DEF RoomOf, MemberList, CurrentMembers, ResolvedMembers, roomVars
<1>4. Changes(h, {}, {Broadcast}) /\ Live \subseteq Id /\ HandlerTypes
  BY <1>1, MovesChanges, ListTypes DEF HandlerInv
<1>5. /\ ~Placing(Broadcast) /\ Broadcast.op # "remove"
      /\ Known(Broadcast) /\ ~Exchanges(Broadcast)
      /\ \A id : Informs(Broadcast, id)'
  BY DEF Broadcast, Placing, Known, Exchanges, Informs
<1>6. RoomInv'
  BY <1>1, <1>3, <1>4, <1>5, RoomKept DEF ServiceInv
<1>7. ToldInv'
  <2>1. \A id \in Live : RoomOf(id) # NoRoom => RoomOf(id) \in Code
    BY SerialFacts
  <2>2. \A id \in told : id \in told'
    BY <1>1, <1>3, OutdateFacts
  <2> QED BY <1>1, <1>3, <1>4, <2>1, <2>2, ToldKept, SentinelAssumption DEF ServiceInv
<1>8. ListedInv'
  BY <1>4, <1>5, ListedKept DEF ServiceInv
<1>9. TriedInv'
  <2>1. \A p, q \in Id : Ask(p) \in Waiting(q) => Ask(p) \in Waiting(q)'
    <3>1. \A p : Ask(p) # Report
      BY DEF Ask, Report
    <3> QED BY <1>1, <1>4, <3>1, TakeFacts
  <2>2. \A i \in listed' : i \in listed /\ PeerList(i)' = PeerList(i)
    BY <1>1, OutdateFacts
  <2> QED BY <1>1, <1>2, <1>4, <1>5, <2>1, <2>2, ChangeKeeps
<1> QED BY <1>6, <1>7, <1>8, <1>9 DEF ServiceInv

\* A request for candidates is looked into, or refused.
LEMMA ConnectKeeps ==
    ASSUME HandlerInv, SerialInv, ServiceInv, NEW h \in Id, HandleConnect(h)
    PROVE  ServiceInv'
<1>1. /\ up[h] # << >> /\ up' = [up EXCEPT ![h] = Tail(@)]
      /\ UNCHANGED <<registryVars, who, agent, told, listed>>
  BY ConnectShape
<1>2. PICK d \in Id :
        /\ Head(up[h]) = Ask(d)
        /\ \/ Starts(h, {Candidates(d)}) /\ refused' = refused
           \/ Starts(h, {}) /\ refused' = refused \union {<<h, d>>}
  BY ConnectShape
<1>3. PICK new :
        /\ Starts(h, new) /\ refused \subseteq refused'
        /\ new = {Candidates(d)} \/ (new = {} /\ <<h, d>> \in refused')
  BY <1>2
<1>4. /\ Live' = Live /\ seq' = seq
      /\ \A id : RoomOf(id)' = RoomOf(id)
      /\ \A id : PeerList(id)' = PeerList(id)
      /\ \A c : MemberList(c)' = MemberList(c)
  BY <1>1, SameView
<1>5. Changes(h, {}, new) /\ Live \subseteq Id /\ HandlerTypes
  BY <1>3, MovesChanges, ListTypes DEF HandlerInv
<1>6. \A op \in new : ~Placing(op) /\ op.op = "candidates"
  BY <1>3 DEF Candidates, Placing
<1>7. RoomInv'
  BY <1>1, <1>4, <1>5, <1>6, RoomKept DEF ServiceInv
<1>8. ToldInv'
  <2>1. \A id \in Live : RoomOf(id) # NoRoom => RoomOf(id) \in Code
    BY SerialFacts
  <2> QED BY <1>1, <1>4, <1>5, <2>1, ToldKept, SentinelAssumption DEF ServiceInv
<1>9. ListedInv'
  BY <1>1, <1>4, <1>5, ListedKept DEF ServiceInv
<1>10. TriedInv'
  <2>1. ASSUME NEW p \in Live, NEW q \in Live, Ask(p) \in Waiting(q)
        PROVE  \/ Ask(p) \in Waiting(q)' \/ Candidates(p) \in Todo(q)'
               \/ <<q, p>> \in refused'
    <3>1. Ask(p) \in Waiting(q)' \/ (q = h /\ Ask(p) = Head(up[h]))
      BY <1>1, <1>5, <2>1, TakeFacts
    <3>2. Ask(p) = Ask(d) => p = d
      BY DEF Ask
    <3>3. new \subseteq Todo(h)'
      BY <1>5 DEF Changes
    <3> QED BY <1>2, <1>3, <3>1, <3>2, <3>3
  <2> QED BY <1>1, <1>3, <1>4, <1>5, <1>6, <2>1, ChangeKeeps
<1> QED BY <1>7, <1>8, <1>9, <1>10 DEF ServiceInv

\* A request about rooms: what the handler does next places its client.
LEMMA PlacedKept ==
    ASSUME HandlerInv, RoomInv, NEW h \in Live, NEW new, Starts(h, new),
           UNCHANGED agent, Live' = Live,
           \E op \in new : Placing(op),
           \A op \in new :
             /\ Placing(op) /\ op.op = "send" => op.to = h
             /\ op.op \in {"created", "remove"} => op.code = RoomOf(h)'
             /\ op.op = "send" /\ op.msg.type = "joined" => op.msg.room = RoomOf(h)'
             /\ op.op = "send" /\ op.msg.type = "left" => RoomOf(h)' = NoRoom,
           \A id \in Live \ {h} : RoomOf(id)' = RoomOf(id)
    PROVE  RoomInv'
<1>1. Live \subseteq Id
  BY ListTypes DEF HandlerInv
<1>2. Todo(h)' = new /\ \A g \in Id \ {h} : Todo(g)' = Todo(g)
  BY DEF Starts
<1>3. \A g \in Id : \A op \in Todo(g)' : Placing(op) /\ op.op = "send" => op.to = g
  BY <1>2 DEF RoomInv
<1>4. ASSUME NEW id \in Live'
      PROVE  /\ \A op \in Todo(id)' :
                /\ op.op \in {"created", "remove"} => op.code = RoomOf(id)'
                /\ op.op = "send" /\ op.msg.type = "joined" => op.msg.room = RoomOf(id)'
                /\ op.op = "send" /\ op.msg.type = "left" => RoomOf(id)' = NoRoom
             /\ agent'[id].room = RoomOf(id)' \/ \E op \in Todo(id)' : Placing(op)
  <2>1. CASE id = h
    BY <1>2, <2>1
  <2>2. CASE id # h
    <3>1. id \in Live /\ id \in Id /\ Todo(id)' = Todo(id) /\ RoomOf(id)' = RoomOf(id)
      BY <1>1, <1>2, <2>2
    <3> QED BY <3>1 DEF RoomInv
  <2> QED BY <2>1, <2>2
<1> QED BY <1>3, <1>4 DEF RoomInv

\* Clients of rooms that are left alone keep what they were sent.
LEMMA UntouchedTold ==
    ASSUME HandlerInv, SerialInv, Outdate, NEW id \in Live, RoomOf(id) # NoRoom,
           who'[id] = who[id], RoomOf(id)' = RoomOf(id),
           \A c \in Code : c = RoomOf(id) => MemberList(c)' = MemberList(c)
    PROVE  /\ id \in told => id \in told'
           /\ \E c \in Code : /\ RoomOf(id) = c /\ RoomOf(id)' = c
                              /\ MemberList(c)' = MemberList(c)
<1>1. PICK c \in Code : c = RoomOf(id)
  BY SerialFacts
<1>2. RoomOf(id)' = c /\ MemberList(c)' = MemberList(c) /\ c # NoRoom
  BY <1>1
<1>3. CurrentMembers(id) = MemberList(c) /\ CurrentMembers(id)' = MemberList(c)'
  BY <1>1, <1>2 DEF CurrentMembers, MemberList, ResolvedMembers
<1>4. id \in told => id \in told'
  BY <1>2, <1>3, OutdateFacts
<1> QED BY <1>1, <1>2, <1>4

\* Only the user whose room a handler changes is somewhere else.
LEMMA OthersStay ==
    ASSUME HandlerInv, SerialInv, NEW h \in Live, NEW fp \in FP, fp = who[h],
           NEW room, inRoom' = [inRoom EXCEPT ![fp] = room], UNCHANGED who
    PROVE  /\ RoomOf(h)' = room
           /\ \A id \in Live \ {h} : RoomOf(id)' = RoomOf(id) /\ who[id] # fp
<1>1. inRoom \in [FP -> Code \union {NoRoom}]
  BY DEF SerialInv, RegistryInv, TypeOK
<1>2. \A id \in Live \ {h} : who[id] # fp /\ who[id] \in FP
  BY SerialFacts
<1> QED BY <1>1, <1>2 DEF RoomOf

\* room_create: the creator is told, and nobody sees anyone else than before.
LEMMA CreateKeeps ==
    ASSUME HandlerInv, SerialInv, ServiceInv, NEW h \in Id, HandleRoomCreate(h)
    PROVE  ServiceInv'
<1>1. /\ Idle(h) /\ h \in Live /\ UNCHANGED <<who, agent, up, refused>> /\ Outdate
      /\ Live' = Live
  BY CreateShape DEF Idle
<1>2. PICK code \in Code :
        /\ CreateRoom(who[h], code)
        /\ Starts(h, {Send(h, [type |-> "created", room |-> code]), Created(code)})
  BY CreateShape
<1> DEFINE reply == Send(h, [type |-> "created", room |-> code])
<1>3. PICK fp \in FP : fp = who[h]
  BY <1>1, SerialFacts
<1>4. /\ TypeOK /\ RoomsConsistent /\ Live \subseteq Id
  BY ListTypes DEF HandlerInv, SerialInv, RegistryInv
<1>5. /\ inRoom[fp] = NoRoom /\ code \notin rooms
      /\ members' = [members EXCEPT ![code] = {fp}] /\ host' = [host EXCEPT ![code] = fp]
      /\ inRoom' = [inRoom EXCEPT ![fp] = code] /\ UNCHANGED <<clients, byFP, seq>>
  BY <1>2, <1>3 DEF CreateRoom, MayEnter, clientVars
<1>6. /\ RoomOf(h)' = code
      /\ \A id \in Live \ {h} : RoomOf(id)' = RoomOf(id) /\ who[id] # fp
  BY <1>1, <1>3, <1>5, OthersStay
<1>7. \A g \in FP : inRoom[g] # code
  BY <1>4, <1>5, SentinelAssumption DEF RoomsConsistent
<1>8. \A c \in Code \ {code} : MemberList(c)' = MemberList(c)
  BY <1>4, <1>5 DEF MemberList, ResolvedMembers, TypeOK
<1>9. /\ Created(code).op = "created" /\ Created(code).code = code
      /\ Placing(Created(code)) /\ Known(Created(code)) /\ ~Exchanges(Created(code))
      /\ reply.op = "send" /\ reply.msg.type = "created" /\ reply.to = h
      /\ ~Placing(reply) /\ Known(reply) /\ ~Exchanges(reply)
  BY DEF Created, Send, Placing, Known, Exchanges
<1> HIDE DEF reply
<1>10. Changes(h, {}, {reply, Created(code)}) /\ Starts(h, {reply, Created(code)})
  BY <1>2, MovesChanges DEF reply
<1>11. RoomInv'
  <2>1. RoomInv
    BY DEF ServiceInv
  <2>2. \A op \in {reply, Created(code)} :
             /\ Placing(op) /\ op.op = "send" => op.to = h
             /\ op.op \in {"created", "remove"} => op.code = RoomOf(h)'
             /\ op.op = "send" /\ op.msg.type = "joined" => op.msg.room = RoomOf(h)'
             /\ op.op = "send" /\ op.msg.type = "left" => RoomOf(h)' = NoRoom
    BY <1>6, <1>9
  <2> QED BY <1>1, <1>6, <1>9, <1>10, <2>1, <2>2, PlacedKept
<1>12. ToldInv'
  <2>1. Tells(h, Created(code), h)'
    BY <1>9 DEF Tells
  <2>2. ASSUME NEW id \in Live, id # h, RoomOf(id)' # NoRoom
        PROVE  /\ id \in told => id \in told'
               /\ \E c \in Code : /\ RoomOf(id) = c /\ RoomOf(id)' = c
                                  /\ MemberList(c)' = MemberList(c)
    <3>1. RoomOf(id)' = RoomOf(id) /\ RoomOf(id) # NoRoom /\ who'[id] = who[id]
      BY <1>1, <1>6, <2>2
    <3>2. RoomOf(id) # code
      BY <1>7, SerialFacts DEF RoomOf
    <3> QED BY <1>1, <1>8, <3>1, <3>2, UntouchedTold
  <2> QED BY <1>1, <1>10, <2>1, <2>2, ToldKept, SentinelAssumption DEF ServiceInv
<1>13. ListedInv'
  <2>1. ASSUME NEW id \in Live PROVE PeerList(id)' = PeerList(id)
    <3>1. \A p \in Live : clients[p].fp = who[p] /\ clients'[p] = clients[p]
      BY <1>5, SerialFacts
    <3>2. \A p \in Live : inRoom[who[p]] # code
      BY <1>7, SerialFacts
    <3>3. \A p \in Live \ {h} : inRoom'[who[p]] = inRoom[who[p]]
      BY <1>1, <1>6 DEF RoomOf
    <3>4. inRoom'[who[h]] = code /\ inRoom[who[h]] = NoRoom
      BY <1>1, <1>3, <1>5, <1>6 DEF RoomOf
    <3>5. VisiblePeers(id, who[id])' = VisiblePeers(id, who[id])
      <4>1. \A p : p \in VisiblePeers(id, who[id]) <=>
                /\ inRoom[who[id]] # NoRoom
                /\ p \in Live \ {id} /\ inRoom[who[p]] = inRoom[who[id]]
        BY <3>1 DEF VisiblePeers
      <4>2. \A p : p \in VisiblePeers(id, who[id])' <=>
                /\ inRoom'[who[id]] # NoRoom
                /\ p \in Live \ {id} /\ inRoom'[who[p]] = inRoom'[who[id]]
        BY <1>1, <3>1 DEF VisiblePeers
      <4>3. CASE id = h
        BY <3>2, <3>3, <3>4, <4>1, <4>2, <4>3, SentinelAssumption
      <4>4. CASE id # h
        BY <3>2, <3>3, <3>4, <4>1, <4>2, <4>4, SentinelAssumption
      <4> QED BY <4>3, <4>4
    <3> QED BY <1>1, <1>5, <3>5 DEF PeerList
  <2>2. \A id \in Live : id \in listed => id \in listed'
    BY <1>1, <2>1, OutdateFacts
  <2> QED BY <1>1, <1>10, <2>1, <2>2, ListedKept DEF ServiceInv
<1>14. TriedInv'
  <2>1. \A p : Waiting(p)' = Waiting(p)
    BY <1>1 DEF Waiting
  <2>2. \A i \in listed' : i \in listed /\ PeerList(i)' = PeerList(i)
    BY <1>1, OutdateFacts
  <2>3. \A op \in {reply, Created(code)} : Known(op) /\ ~Exchanges(op)
    BY <1>9
  <2> QED BY <1>1, <1>5, <1>10, <2>1, <2>2, <2>3, ChangeKeeps
<1> QED BY <1>11, <1>12, <1>13, <1>14 DEF ServiceInv

\* room_join and room_leave: the room and all clients are told.
LEMMA MovedKeeps ==
    ASSUME HandlerInv, SerialInv, ServiceInv, NEW h \in Live, NEW code \in Code, NEW reply,
           UNCHANGED <<who, agent, up, refused, seq>>, Outdate, Live' = Live,
           Starts(h, {reply, Notify(code), Broadcast}),
           reply.op = "send", reply.to = h,
           \/ reply.msg.type = "joined" /\ reply.msg.room = RoomOf(h)'
           \/ reply.msg.type = "left" /\ RoomOf(h)' = NoRoom,
           RoomOf(h)' \in {code, NoRoom},
           \A id \in Live \ {h} : RoomOf(id)' = RoomOf(id),
           \A c \in Code \ {code} : MemberList(c)' = MemberList(c)
    PROVE  ServiceInv'
<1> DEFINE new == {reply, Notify(code), Broadcast}
<1>1. /\ Notify(code).op = "notify" /\ Notify(code).code = code /\ Broadcast.op = "broadcast"
      /\ Placing(reply)
  BY DEF Notify, Broadcast, Placing
<1>2. \A op \in new : Known(op) /\ ~Exchanges(op)
  BY <1>1 DEF Known, Exchanges
<1>3. /\ Changes(h, {}, new) /\ Live \subseteq Id
  BY MovesChanges, ListTypes DEF HandlerInv
<1>4. RoomInv'
  <2>1. RoomInv
    BY DEF ServiceInv
  <2>2. \A op \in new :
             /\ Placing(op) /\ op.op = "send" => op.to = h
             /\ op.op \in {"created", "remove"} => op.code = RoomOf(h)'
             /\ op.op = "send" /\ op.msg.type = "joined" => op.msg.room = RoomOf(h)'
             /\ op.op = "send" /\ op.msg.type = "left" => RoomOf(h)' = NoRoom
    BY <1>1
  <2> QED BY <1>1, <2>1, <2>2, PlacedKept
<1>5. ToldInv'
  <2>1. ASSUME NEW id \in Live, RoomOf(id)' # NoRoom
        PROVE  \/ \E op \in new : Tells(h, op, id)'
               \/ /\ id \in told => id \in told'
                  /\ \E c \in Code : /\ RoomOf(id) = c /\ RoomOf(id)' = c
                                     /\ MemberList(c)' = MemberList(c)
    <3>1. CASE RoomOf(id)' = code
      BY <1>1, <3>1 DEF Tells
    <3>2. CASE RoomOf(id)' # code
      <4>1. id # h
        BY <2>1, <3>2
      <4>2. RoomOf(id)' = RoomOf(id) /\ RoomOf(id) # NoRoom /\ who'[id] = who[id]
        BY <2>1, <4>1
      <4> QED BY <3>2, <4>2, UntouchedTold
    <3> QED BY <3>1, <3>2
  <2> QED BY <1>3, <2>1, ToldKept, SentinelAssumption DEF ServiceInv
<1>6. ListedInv'
  <2>1. \A id : Informs(Broadcast, id)'
    BY <1>1 DEF Informs
  <2> QED BY <1>3, <2>1, ListedKept DEF ServiceInv
<1>7. TriedInv'
  <2>1. \A p : Waiting(p)' = Waiting(p)
    BY DEF Waiting
  <2>2. \A i \in listed' : i \in listed /\ PeerList(i)' = PeerList(i)
    BY OutdateFacts
  <2> QED BY <1>2, <1>3, <2>1, <2>2, ChangeKeeps
<1> QED BY <1>4, <1>5, <1>6, <1>7 DEF ServiceInv

\* room_join.
LEMMA JoinKeeps ==
    ASSUME HandlerInv, SerialInv, ServiceInv, NEW h \in Id, HandleRoomJoin(h)
    PROVE  ServiceInv'
<1>1. /\ h \in Live /\ UNCHANGED <<who, agent, up, refused>> /\ Outdate /\ Live' = Live
  BY JoinShape DEF Idle
<1>2. PICK code \in Code, list \in List :
        /\ JoinRoom(who[h], code)
        /\ Starts(h, {Send(h, [type |-> "joined", room |-> code, list |-> list]),
                      Notify(code), Broadcast})
  BY JoinShape
<1> DEFINE reply == Send(h, [type |-> "joined", room |-> code, list |-> list])
<1>3. PICK fp \in FP : fp = who[h]
  BY <1>1, SerialFacts
<1>4. /\ members' = [members EXCEPT ![code] = @ \union {fp}]
      /\ inRoom' = [inRoom EXCEPT ![fp] = code] /\ UNCHANGED <<host, byFP, seq>>
  BY <1>2, <1>3 DEF JoinRoom, clientVars
<1>5. /\ RoomOf(h)' = code
      /\ \A id \in Live \ {h} : RoomOf(id)' = RoomOf(id)
  BY <1>1, <1>3, <1>4, OthersStay
<1>6. \A c \in Code \ {code} : MemberList(c)' = MemberList(c)
  <2>1. members \in [Code -> SUBSET FP]
    BY DEF SerialInv, RegistryInv, TypeOK
  <2> QED BY <1>4, <2>1 DEF MemberList, ResolvedMembers
<1>7. reply.op = "send" /\ reply.to = h /\ reply.msg.type = "joined" /\ reply.msg.room = code
  BY DEF Send
<1> QED BY <1>1, <1>2, <1>4, <1>5, <1>6, <1>7, MovedKeeps

\* room_leave.
LEMMA LeaveKeeps ==
    ASSUME HandlerInv, SerialInv, ServiceInv, NEW h \in Id, HandleRoomLeave(h)
    PROVE  ServiceInv'
<1>1. /\ h \in Live /\ UNCHANGED <<who, agent, up, refused>> /\ Outdate /\ Live' = Live
      /\ RoomOf(h) \in Code /\ LeaveRoom(who[h])
      /\ Starts(h, {Send(h, [type |-> "left"]), Notify(RoomOf(h)), Broadcast})
  BY LeaveShape DEF Idle
<1>2. PICK fp \in FP : fp = who[h]
  BY <1>1, SerialFacts
<1>3. PICK code \in Code : code = RoomOf(h)
  BY <1>1
<1> DEFINE reply == Send(h, [type |-> "left"])
<1>4. /\ DropMember(fp) /\ inRoom[fp] # NoRoom /\ UNCHANGED <<byFP, seq>>
  BY <1>1, <1>2 DEF LeaveRoom, clientVars
<1>5. /\ inRoom' = [inRoom EXCEPT ![fp] = NoRoom]
      /\ \A c \in Code \ {code} : MemberList(c)' = MemberList(c)
  <2>1. TypeOK /\ RoomsConsistent
    BY DEF SerialInv, RegistryInv
  <2> QED BY <1>2, <1>3, <1>4, <2>1, DropOthers DEF RoomOf
<1>6. /\ RoomOf(h)' = NoRoom
      /\ \A id \in Live \ {h} : RoomOf(id)' = RoomOf(id)
  BY <1>1, <1>2, <1>5, OthersStay
<1>7. reply.op = "send" /\ reply.to = h /\ reply.msg.type = "left"
  BY DEF Send
<1>8. Starts(h, {reply, Notify(code), Broadcast})
  BY <1>1, <1>3
<1> HIDE DEF reply
<1> QED BY <1>1, <1>4, <1>5, <1>6, <1>7, <1>8, MovedKeeps

\* The end of a connection: its room is looked up, nothing has changed yet.
LEMMA DisconnectKeeps ==
    ASSUME HandlerInv, SerialInv, ServiceInv, NEW h \in Id, Disconnect(h)
    PROVE  ServiceInv'
<1>1. /\ Idle(h) /\ h \in Live /\ UNCHANGED <<registryVars, who, agent, up, refused>> /\ Outdate
      /\ Starts(h, {Removal(RoomOf(h))})
  BY DisconnectShape DEF Idle
<1>2. /\ Live' = Live /\ seq' = seq /\ Live \subseteq Id
      /\ \A id : RoomOf(id)' = RoomOf(id)
      /\ \A id : CurrentMembers(id)' = CurrentMembers(id)
      /\ \A id : PeerList(id)' = PeerList(id)
      /\ \A c : MemberList(c)' = MemberList(c)
  BY <1>1, SameView, ListTypes DEF HandlerInv
<1> DEFINE end == Removal(RoomOf(h))
<1>3. /\ end.op = "remove" /\ end.code = RoomOf(h)
      /\ ~Placing(end) /\ Known(end) /\ ~Exchanges(end)
  BY DEF Removal, Placing, Known, Exchanges
<1> HIDE DEF end
<1>4. Changes(h, {}, {end}) /\ Todo(h) = {} /\ Todo(h)' = {end}
  BY <1>1, MovesChanges DEF end, Starts
<1>5. RoomInv'
  <2>1. RoomInv
    BY DEF ServiceInv
  <2>2. \A g \in Id \ {h} : Todo(g)' = Todo(g)
    BY <1>4 DEF Changes
  <2>3. \A g \in Id : \A op \in Todo(g)' : Placing(op) /\ op.op = "send" => op.to = g
    BY <1>3, <1>4, <2>1, <2>2 DEF RoomInv
  <2>4. ASSUME NEW id \in Live'
        PROVE  /\ \A op \in Todo(id)' :
                  /\ op.op \in {"created", "remove"} => op.code = RoomOf(id)'
                  /\ op.op = "send" /\ op.msg.type = "joined" => op.msg.room = RoomOf(id)'
                  /\ op.op = "send" /\ op.msg.type = "left" => RoomOf(id)' = NoRoom
               /\ agent'[id].room = RoomOf(id)' \/ \E op \in Todo(id)' : Placing(op)
    <3>1. id \in Live /\ id \in Id /\ RoomOf(id)' = RoomOf(id) /\ agent' = agent
      BY <1>1, <1>2
    <3>2. CASE id = h
      BY <1>3, <1>4, <2>1, <3>1, <3>2 DEF RoomInv
    <3>3. CASE id # h
      BY <2>1, <2>2, <3>1, <3>3 DEF RoomInv
    <3> QED BY <3>2, <3>3
  <2> QED BY <2>3, <2>4 DEF RoomInv
<1>6. ToldInv'
  <2>1. \A id \in Live : RoomOf(id) # NoRoom => RoomOf(id) \in Code
    BY SerialFacts
  <2>2. \A id \in told : id \in told'
    BY <1>1, <1>2, OutdateFacts
  <2> QED BY <1>1, <1>2, <1>4, <2>1, <2>2, ToldKept, SentinelAssumption DEF ServiceInv
<1>7. ListedInv'
  <2>1. \A id \in listed : id \in listed'
    BY <1>1, <1>2, OutdateFacts
  <2> QED BY <1>2, <1>4, <2>1, ListedKept DEF ServiceInv
<1>8. TriedInv'
  <2>1. \A p : Waiting(p)' = Waiting(p)
    BY <1>1 DEF Waiting
  <2>2. \A i \in listed' : i \in listed /\ PeerList(i)' = PeerList(i)
    BY <1>1, OutdateFacts
  <2> QED BY <1>1, <1>2, <1>3, <1>4, <2>1, <2>2, ChangeKeeps
<1> QED BY <1>5, <1>6, <1>7, <1>8 DEF ServiceInv

\* Nobody is registered at first, and nothing is to be done.
LEMMA ServiceInit == ServerInit => ServiceInv
<1> SUFFICES ASSUME ServerInit PROVE ServiceInv
  OBVIOUS
<1>1. Live = {} /\ \A q \in Id : Todo(q) = {} /\ agent[q].tried = {}
  BY SmallLists DEF ServerInit, Init, Live, Todo
<1>2. RoomInv /\ ToldInv /\ ListedInv
  BY <1>1 DEF RoomInv, ToldInv, ListedInv
<1>3. TriedInv
  BY <1>1 DEF TriedInv
<1> QED BY <1>2, <1>3 DEF ServiceInv

\* Every step keeps what clients are told.
LEMMA ServiceStep ==
    ~Overlap /\ HandlerInv /\ PunchInv /\ SerialInv /\ ServiceInv /\ [ServerNext]_vars
        => ServiceInv'
<1> SUFFICES ASSUME ~Overlap, HandlerInv, PunchInv, SerialInv, ServiceInv, [ServerNext]_vars
             PROVE  ServiceInv'
  OBVIOUS
<1>1. ASSUME NEW fp \in FP, Register(fp) PROVE ServiceInv'
  BY <1>1, RegisterKeeps
<1>2. ASSUME NEW h \in Id, HandlerStep(h) PROVE ServiceInv'
  <2>1. CASE SendStep(h)
    BY <2>1, SendKeeps
  <2>2. CASE WelcomeStep(h)
    BY <2>2, WelcomeKeeps
  <2>3. CASE CreatedStep(h)
    BY <2>3, CreatedKeeps
  <2>4. CASE NotifyStep(h)
    BY <2>4, NotifyKeeps
  <2>5. CASE PushStep(h)
    BY <2>5, PushKeeps
  <2>6. CASE BroadcastStep(h)
    BY <2>6, BroadcastKeeps
  <2>7. CASE ListsStep(h)
    BY <2>7, ListsKeeps
  <2>8. CASE CandidatesStep(h)
    BY <2>8, CandidatesKeeps
  <2>9. CASE RemoveStep(h)
    BY <2>9, RemoveKeeps
  <2> QED BY <1>2, <2>1, <2>2, <2>3, <2>4, <2>5, <2>6, <2>7, <2>8, <2>9 DEF HandlerStep
<1>3. ASSUME NEW h \in Id,
             \/ HandleReport(h) \/ HandleConnect(h) \/ HandleRoomCreate(h)
             \/ HandleRoomJoin(h) \/ HandleRoomLeave(h) \/ Disconnect(h)
      PROVE  ServiceInv'
  BY <1>3, ReportKeeps, ConnectKeeps, CreateKeeps, JoinKeeps, LeaveKeeps, DisconnectKeeps
<1>4. CASE UNCHANGED vars
  <2>1. UNCHANGED <<registryVars, who, work, agent, up, told, listed, refused>>
    BY <1>4 DEF vars
  <2>2. /\ \A q : Todo(q)' = Todo(q) /\ Waiting(q)' = Waiting(q)
        /\ \A p, q \in Id : Given(p, q) <=> Given(p, q)'
    BY <2>1 DEF Todo, Waiting, Given
  <2>3. /\ Live' = Live /\ seq' = seq /\ Live \subseteq Id
        /\ \A id : RoomOf(id)' = RoomOf(id)
        /\ \A id : PeerList(id)' = PeerList(id)
        /\ \A h, op, id : Tells(h, op, id)' <=> Tells(h, op, id)
        /\ \A op, id : Informs(op, id)' <=> Informs(op, id)
        /\ \A op : Known(op)' <=> Known(op)
    BY <2>1, SameView, ListTypes DEF HandlerInv
  <2>4. RoomInv'
    BY <2>1, <2>2, <2>3 DEF ServiceInv, RoomInv
  <2>5. ToldInv' /\ ListedInv'
    BY <2>1, <2>2, <2>3 DEF ServiceInv, ToldInv, ListedInv
  <2>6. TriedInv'
    BY <2>1, <2>2, <2>3 DEF ServiceInv, TriedInv
  <2> QED BY <2>4, <2>5, <2>6 DEF ServiceInv
<1> QED BY <1>1, <1>2, <1>3, <1>4 DEF ServerNext

ServerInv == HandlerInv /\ PunchInv /\ SerialInv /\ ServiceInv

\* All of it holds of a server whose users' connections do not overlap.
THEOREM ServerInvariant == ~Overlap => (ServerSpec => []ServerInv)
<1>1. ASSUME ~Overlap PROVE ServerSpec => []ServerInv
  <2>1. ServerInit => ServerInv
    BY HandlerInit, PunchInit, ServiceInit, InitSerialInv DEF ServerInv, ServerInit
  <2>2. ServerInv /\ [ServerNext]_vars => ServerInv'
    BY <1>1, HandlerKept, PunchStep, RegistryStep, NextSerialInv, ServiceStep DEF ServerInv
  <2> QED BY <2>1, <2>2, PTL DEF ServerSpec
<1> QED BY <1>1

\* RoomAgrees: a handler that waits for a request has sent its client where
\* the server has it.
THEOREM RoomsAgree == ~Overlap => (ServerSpec => []RoomAgrees)
<1>1. ServerInv => RoomAgrees
  <2> SUFFICES ASSUME ServerInv, NEW id \in Id, Idle(id)
               PROVE  agent[id].room = RoomOf(id)
    BY DEF RoomAgrees
  <2>1. id \in Live /\ Todo(id) = {}
    BY SmallLists DEF Idle, Todo
  <2> QED BY <2>1 DEF ServerInv, ServiceInv, RoomInv
<1> QED BY <1>1, ServerInvariant, PTL

\* EveryoneTold: a member that has not got the current list still will.
THEOREM MembersAreTold == ~Overlap => (ServerSpec => []EveryoneTold)
<1>1. ServerInv => EveryoneTold
  <2>1. Quiet => \A h \in Id : Todo(h) = {}
    BY SmallLists DEF Quiet, Todo
  <2> QED BY <2>1 DEF ServerInv, ServiceInv, ToldInv, EveryoneTold
<1> QED BY <1>1, ServerInvariant, PTL

\* EveryoneListed: the same for lists of peers.
THEOREM ClientsAreListed == ~Overlap => (ServerSpec => []EveryoneListed)
<1>1. ServerInv => EveryoneListed
  <2>1. Quiet => \A h \in Id : Todo(h) = {}
    BY SmallLists DEF Quiet, Todo
  <2> QED BY <2>1 DEF ServerInv, ServiceInv, ListedInv, EveryoneListed
<1> QED BY <1>1, ServerInvariant, PTL

\* UnrefusedAreConnected: a client that has got the list has asked for every
\* peer on it, and an answer that was not a refusal was given to both.
THEOREM RoommatesMeet == ~Overlap => (ServerSpec => []UnrefusedAreConnected)
<1>1. ServerInv => UnrefusedAreConnected
  <2> SUFFICES ASSUME ServerInv, NothingInFlight, NEW p \in Live, NEW q \in Live,
                      Connectable(p, q), <<q, p>> \notin refused
               PROVE  q \in agent[p].punch
    BY DEF UnrefusedAreConnected
  <2>1. /\ \A h \in Id : Todo(h) = {}
        /\ \A h \in Live : Waiting(h) = {}
    BY SmallLists DEF NothingInFlight, Quiet, Todo, Waiting
  <2>2. /\ p \in Id /\ q \in Id /\ who[p] = clients[p].fp
    BY SerialFacts DEF ServerInv
  <2>3. q \in listed
    BY <2>1 DEF ServerInv, ServiceInv, ListedInv
  <2>4. [id |-> p, pub |-> clients[p].ep = "public"] \in PeerList(q)
    <3>1. p \in VisiblePeers(q, who[q])
      BY <2>2 DEF Connectable, RoomOf, VisiblePeers
    <3> QED BY <3>1 DEF PeerList
  <2>5. p \in agent[q].tried
    <3>1. PICK peer \in PeerList(q) : peer.id = p /\ peer.pub
      BY <2>4 DEF Connectable
    <3> QED BY <2>3, <3>1 DEF ServerInv, ServiceInv, TriedInv
  <2>6. Given(p, q)
    BY <2>1, <2>2, <2>5 DEF ServerInv, ServiceInv, TriedInv
  <2> QED BY <2>1, <2>6 DEF Given
<1> QED BY <1>1, ServerInvariant, PTL

\* The registry's own promises, whose proofs are above, hold of the server.
THEOREM ServerKeepsService == ~Overlap => (ServerSpec => ServiceSpec)
BY ServerUsesRegistry, RegistryImplementsService, PTL
=============================================================================
