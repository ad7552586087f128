------------------------------ MODULE PeerRoutes ------------------------------
(***************************************************************************)
(* How an agent keeps the route table and the system's /32 routes in step  *)
(* with the lists the server sends (internal/agent/agent.go: messageLoop,  *)
(* onRegistered, autoConnect, clearRoom, ensurePeerRoute, removePeerRoute).*)
(*                                                                         *)
(* The table changes under the agent's lock; the commands that change the  *)
(* system's routes run after it, one by one, and only when the adapter is  *)
(* open.  All of it is done by the message loop: while the adapter opens,  *)
(* which takes seconds, messages wait.                                     *)
(*                                                                         *)
(* A definition nothing uses, before another with the same parameters, is  *)
(* a faulty variant of it (the mutants of PROJECT.json).                   *)
(***************************************************************************)
EXTENDS Naturals, Sequences

CONSTANTS
    Peer,       \* connections of others: one that reconnects is another Peer
    Vip,        \* virtual addresses
    VipOf,      \* the address of each
    Nobody,
    MaxUnread,  \* bound on messages not yet read
    MaxUpdates  \* bound on changes of who is visible

ASSUME PeerRoutesAssumption ==
    VipOf \in [Peer -> Vip] /\ Nobody \notin Peer /\ MaxUnread \in Nat /\ MaxUpdates \in Nat

VARIABLES
    visible,    \* peers the server lets the agent see
    ready,      \* peers that have reported an endpoint
    unread,     \* messages written to the agent: [type, peers, ready]
    greeted,    \* has the server written the registered reply?
    pending,    \* the list of the reply, while the adapter opens
    adapter,    \* "none", "opening", "open", "failed"
    routes,     \* a.routes: the peer behind each address
    attempted,  \* a.attempted
    adding, deleting,  \* route commands still to run
    osRoutes,   \* the system's routes into the adapter
    missed,     \* history: addresses whose route was not added: no adapter, or no luck
    leftover,   \* history: routes that were not deleted, or are an earlier agent's
    changes

serverVars == <<visible, ready, greeted, changes>>
tableVars == <<routes, attempted, adding, deleting, missed>>
routeVars == <<serverVars, tableVars, unread, pending, adapter, osRoutes, leftover>>

Nothing == [peers |-> {}, ready |-> {}]

RoutesInit ==
    /\ visible = {} /\ ready = {} /\ unread = <<>> /\ greeted = FALSE
    /\ pending = Nothing /\ adapter = "none"
    /\ routes = [v \in Vip |-> Nobody] /\ attempted = {}
    /\ adding = {} /\ deleting = {}
    /\ osRoutes \in SUBSET Vip /\ missed = {} /\ leftover = osRoutes
    /\ changes = 0

-----------------------------------------------------------------------------
(* The server, as far as this agent hears of it                            *)

Write(type) ==
    /\ Len(unread) < MaxUnread
    /\ unread' = Append(unread, [type |-> type, peers |-> visible, ready |-> ready])

\* Peers come, reconnect, go, and report their endpoints.  No two of them that
\* are there at once have the same address.
VisibleChanges ==
    /\ changes < MaxUpdates
    /\ changes' = changes + 1
    /\ \/ \E p \in Peer \ visible :
            /\ visible' = {q \in visible : VipOf[q] # VipOf[p]} \union {p}
            /\ UNCHANGED ready
       \/ \E p \in visible : visible' = visible \ {p} /\ UNCHANGED ready
       \/ \E p \in visible \ ready : ready' = ready \union {p} /\ UNCHANGED visible
    /\ UNCHANGED <<tableVars, unread, greeted, pending, adapter, osRoutes, leftover>>

Greets ==
    /\ ~greeted
    /\ greeted' = TRUE
    /\ Write("registered")
    /\ UNCHANGED <<tableVars, visible, ready, changes, pending, adapter, osRoutes, leftover>>

\* Another handler's broadcast may come before the registered reply.
Broadcasts ==
    /\ Write("peers_list")
    /\ UNCHANGED <<serverVars, tableVars, pending, adapter, osRoutes, leftover>>

\* The agent leaves its room: room_left first, then the lists.
Leaves ==
    /\ greeted
    /\ changes < MaxUpdates
    /\ changes' = changes + 1
    /\ visible' = {}
    /\ Write("room_left")
    /\ UNCHANGED <<tableVars, ready, greeted, pending, adapter, osRoutes, leftover>>

-----------------------------------------------------------------------------
(* The message loop                                                        *)

Routed(table) == {v \in Vip : table[v] # Nobody}

Table(peers) ==
    [v \in Vip |-> IF \E p \in peers : VipOf[p] = v
                   THEN CHOOSE p \in peers : VipOf[p] = v ELSE Nobody]

\* ensurePeerRoute and removePeerRoute do nothing without an adapter.
Commands(add, delete, open) ==
    /\ adding' = IF open THEN add ELSE {}
    /\ deleting' = IF open THEN delete ELSE {}
    /\ missed' = IF open THEN missed \ add ELSE missed \union add

KeepsGone(new) == {}
Gone(new) == Routed(routes) \ Routed(new)

AutoConnect(list, open) ==
    LET new == Table(list.peers)
    IN  /\ routes' = new
        /\ Commands({v \in Routed(new) : new[v] # routes[v]}, Gone(new), open)
        /\ attempted' = attempted \union (list.peers \intersect list.ready)

ClearRoom ==
    /\ routes' = [v \in Vip |-> Nobody]
    /\ Commands({}, Routed(routes), adapter = "open")
    /\ UNCHANGED attempted

\* The message loop reads the next message.
Idle == adding = {} /\ deleting = {} /\ adapter # "opening"

Reads(type) ==
    /\ Idle
    /\ unread # <<>> /\ Head(unread).type = type
    /\ unread' = Tail(unread)
    /\ UNCHANGED <<serverVars, osRoutes, leftover>>

ReadRegistered ==
    /\ Reads("registered")
    /\ adapter' = "opening"
    /\ pending' = [peers |-> Head(unread).peers, ready |-> Head(unread).ready]
    /\ UNCHANGED tableVars

ReadPeersList ==
    /\ Reads("peers_list")
    /\ AutoConnect(Head(unread), adapter = "open")
    /\ UNCHANGED <<adapter, pending>>

ReadRoomLeft ==
    /\ Reads("room_left")
    /\ ClearRoom
    /\ UNCHANGED <<adapter, pending>>

\* vnic.Open returns, and onRegistered goes on with the list of the reply.
AdapterOpens ==
    /\ adapter = "opening"
    /\ adapter' \in {"open", "failed"}
    /\ AutoConnect(pending, adapter' = "open")
    /\ pending' = Nothing
    /\ UNCHANGED <<serverVars, unread, osRoutes, leftover>>

\* One command after the other; the additions first.  A command that fails is
\* logged, one for which Windows shows no interface is not run at all; either
\* way the loop goes on, and no one tries again.
RouteAdd ==
    /\ \E v \in adding :
        /\ adding' = adding \ {v}
        /\ \/ /\ osRoutes' = osRoutes \union {v}
              /\ leftover' = leftover \ {v}
              /\ UNCHANGED missed
           \/ missed' = missed \union {v} /\ UNCHANGED <<osRoutes, leftover>>
    /\ UNCHANGED <<serverVars, routes, attempted, deleting, unread, pending, adapter>>

RouteDelete ==
    /\ adding = {}
    /\ \E v \in deleting :
        /\ deleting' = deleting \ {v}
        /\ \/ osRoutes' = osRoutes \ {v} /\ leftover' = leftover \ {v}
           \/ leftover' = leftover \union {v} /\ UNCHANGED osRoutes
    /\ UNCHANGED <<serverVars, routes, attempted, adding, missed, unread, pending, adapter>>

RoutesNext ==
    \/ VisibleChanges \/ Greets \/ Broadcasts \/ Leaves
    \/ ReadRegistered \/ ReadPeersList \/ ReadRoomLeft
    \/ AdapterOpens \/ RouteAdd \/ RouteDelete

RoutesSpec == RoutesInit /\ [][RoutesNext]_routeVars

-----------------------------------------------------------------------------
(* Properties                                                              *)

\* Between messages, the system's routes differ from the table's in nothing but
\* the commands that were not carried out: a route is missing only if the last
\* command to add it failed, was skipped, or was never given, since the table
\* held the address before the adapter was open; one is left over only if the
\* last command to delete it failed or was skipped, or if it is an earlier
\* agent's.  That holds whatever lists, departures, reconnections under an old
\* address and delays of the adapter came before.  It is less than autoConnect
\* says, that the route of a peer that left "has to go too" (agent.go:694-697),
\* and than ensurePeerRoute, that traffic to a peer is "forced into our virtual
\* NIC" (agent.go:643-646): nothing repairs either kind.
RoutesFollowPeers ==
    Idle /\ adapter = "open" =>
        /\ Routed(routes) \ missed \subseteq osRoutes
        /\ osRoutes \ leftover \subseteq Routed(routes)
=============================================================================
