------------------------------- MODULE Server -------------------------------
(***************************************************************************)
(* The coordination server's connection handlers                           *)
(* (internal/server/handler.go) over the registry, with what each client's *)
(* message loop (internal/agent/agent.go) makes of the messages.           *)
(*                                                                         *)
(* HandleWS runs one goroutine per connection.  It takes the registry lock *)
(* once per registry call and holds nothing between calls, so a handler is *)
(* the list of operations it still has to do, work[id], and one step does  *)
(* one locked call or one message write.                                   *)
(*                                                                         *)
(* agent[id] is the client's state once it has read everything written to  *)
(* its WebSocket, in order: a delay in between changes neither that state  *)
(* nor, as up[id] holds its answers for any time, what the server can see. *)
(* A reply of type error changes no client state.                          *)
(***************************************************************************)
EXTENDS Registry, Sequences, FiniteSets

CONSTANTS
    UserRequests,  \* what users do: create, join, leave, and close, which is
                   \* also a lost connection
    MaxRequests,   \* bound on how often
    Endpoints      \* endpoints the clients' STUN probes can lead to

ASSUME RequestAssumption ==
    /\ UserRequests \subseteq {"create", "join", "leave", "close"}
    /\ MaxRequests \in Nat
    /\ Endpoints \subseteq Endpoint

VARIABLES
    who,       \* Client.KeyFP of every registration, in order
    work,      \* what each connection's handler has still to do
    agent,     \* the client behind each connection
    up,        \* what that client sent on its own, not yet read
    requests,  \* user requests so far
    told,      \* history: clients sent the member list that is current
    listed,    \* history: clients sent the peer list that is current
    refused    \* history: connect requests answered with an error, as
               \* <<asking client, peer>>

vars == <<registryVars, who, work, agent, up, requests, told, listed, refused>>

Id == 1 .. MaxSeq
Nobody == [fps |-> {}, host |-> NoFP]

ServerInit ==
    /\ Init
    /\ who = << >>
    /\ work = [id \in Id |-> << >>]
    /\ agent = [id \in Id |-> [on |-> FALSE, room |-> NoRoom, list |-> Nobody,
                               routes |-> {}, tried |-> {}, punch |-> {}]]
    /\ up = [id \in Id |-> << >>]
    /\ requests = 0
    /\ told = {}
    /\ listed = {}
    /\ refused = {}

-----------------------------------------------------------------------------
(* What the server knows                                                   *)

\* roomMembersLocked
MemberList(code) == [fps |-> ResolvedMembers(code), host |-> host[code]]

\* The peers of VisiblePeers, each with whether its PublicIP is set (peerOf).
PeerList(id) ==
    {[id |-> p, pub |-> clients[p].ep = "public"] : p \in VisiblePeers(id, who[id])}

RoomOf(id) == inRoom[who[id]]
CurrentMembers(id) == IF RoomOf(id) = NoRoom THEN Nobody ELSE MemberList(RoomOf(id))

\* Every step that changes the registry makes some of what was sent outdated.
Outdate ==
    /\ told' = {i \in told : CurrentMembers(i)' = CurrentMembers(i)}
    /\ listed' = {i \in listed : PeerList(i)' = PeerList(i)}

-----------------------------------------------------------------------------
(* The client's message loop (messageLoop, onRegistered, autoConnect)      *)

\* Peers that autoConnect asks the server for: reported and never tried.
Fresh(a, peers) == {p.id : p \in {q \in peers : q.pub}} \ a.tried

Ask(p) == [type |-> "ask", peer |-> p]
Report == [type |-> "report"]

TriedAll(a, peers) == a.tried \union {p.id : p \in peers}
Tried(a, peers) == a.tried \union Fresh(a, peers)

AfterPeers(a, peers) == [a EXCEPT !.routes = {p.id : p \in peers},
                                  !.tried = Tried(a, peers)]

Read(a, msg) ==
    CASE msg.type = "registered" -> [AfterPeers(a, msg.peers) EXCEPT !.on = TRUE]
      [] msg.type = "peers"  -> AfterPeers(a, msg.peers)
      [] msg.type = "created" -> a
      [] msg.type = "joined" -> [a EXCEPT !.room = msg.room, !.list = msg.list]
      [] msg.type = "update" -> IF a.room = NoRoom THEN a
                                ELSE [a EXCEPT !.list = msg.list]
      [] msg.type = "left"   -> [a EXCEPT !.room = NoRoom, !.list = Nobody,
                                          !.routes = {}]
      [] msg.type = "cands"  -> IF a.on THEN [a EXCEPT !.punch = @ \union {msg.peer}]
                                ELSE a

\* The connect requests to S, one each.
Asks(S) ==
    CHOOSE asks \in [1 .. Cardinality(S) -> {Ask(p) : p \in S}] : IsInjective(asks)

\* What the client writes back: connect requests, and its endpoint once.
Reaction(a, msg) ==
    CASE msg.type = "registered" -> Append(Asks(Fresh(a, msg.peers)), Report)
      [] msg.type = "peers" -> Asks(Fresh(a, msg.peers))
      [] OTHER -> << >>

-----------------------------------------------------------------------------
(* Handler operations                                                      *)

Send(to, msg) == [op |-> "send", to |-> to, msg |-> msg]
Welcome == [op |-> "welcome"]
Created(code) == [op |-> "created", code |-> code]
Notify(code) == [op |-> "notify", code |-> code]
Push(code, list, must, seen) ==
    [op |-> "push", code |-> code, list |-> list, must |-> must, seen |-> seen]
Broadcast == [op |-> "broadcast"]
Lists(left) == [op |-> "lists", left |-> left]
Candidates(p) == [op |-> "candidates", peer |-> p]
Removal(code) == [op |-> "remove", code |-> code]

Doing(id, op) == work[id] # << >> /\ Head(work[id]).op = op
Now(id) == Head(work[id])

\* The operation at the head is replaced by the operations it leads to.
Then(id, ops) == work' = [work EXCEPT ![id] = ops \o Tail(@)]

\* sendClient.  Writing to a client that is gone fails and changes nothing.
SendStep(id) ==
    /\ Doing(id, "send")
    /\ LET to == Now(id).to
           msg == Now(id).msg
       IN  IF to \in Live
           THEN /\ agent' = [agent EXCEPT ![to] = Read(@, msg)]
                /\ up' = [up EXCEPT ![to] = @ \o Reaction(agent[to], msg)]
                /\ told' = IF /\ msg.type \in {"joined", "update"}
                              /\ msg.list = CurrentMembers(to)
                           THEN told \union {to} ELSE told
                /\ listed' = IF msg.type = "peers" /\ msg.peers = PeerList(to)
                             THEN listed \union {to} ELSE listed
           ELSE UNCHANGED <<agent, up, told, listed>>
    /\ Then(id, << >>)
    /\ UNCHANGED <<registryVars, who, requests, refused>>

\* What handlers still do after their call of the registry.
AfterReportQuietly(id) == << >>
AfterReport(id) == <<Broadcast>>

AfterLeaveSilently(id, code) == <<Notify(code), Broadcast>>
AfterLeave(id, code) == <<Send(id, [type |-> "left"]), Notify(code), Broadcast>>

\* The cleanup looks its room up before Remove, which drops the membership.
AfterRemoveUnannounced(code) == <<Broadcast>>
AfterRemove(code) ==
    IF code = NoRoom THEN <<Broadcast>> ELSE <<Notify(code), Broadcast>>

ExchangeOneWay(id, p) == <<Send(id, [type |-> "cands", peer |-> p])>>
Exchange(id, p) == <<Send(id, [type |-> "cands", peer |-> p]),
                     Send(p, [type |-> "cands", peer |-> id])>>

\* A step that only reads the registry to decide what the handler does next.
Reads == UNCHANGED <<registryVars, who, agent, up, requests, told, listed, refused>>

\* The registered reply (VisiblePeers).  The client ignores its room field.
WelcomeStep(id) ==
    /\ Doing(id, "welcome")
    /\ Then(id, <<Send(id, [type |-> "registered", peers |-> PeerList(id)])>>)
    /\ Reads

\* handleRoomCreate after room_created: RoomMembers, then room_joined.
CreatedStep(id) ==
    /\ Doing(id, "created")
    /\ Then(id, <<Send(id, [type |-> "joined", room |-> Now(id).code,
                            list |-> CurrentMembers(id)])>>)
    /\ Reads

\* notifyRoom: the list is assembled under the lock ...
NotifyStep(id) ==
    /\ Doing(id, "notify")
    /\ LET code == Now(id).code
       IN  Then(id, <<Push(code, MemberList(code), members[code], {})>>)
    /\ Reads

\* ... and the range over room.Members runs without it.  An entry present all
\* along is visited, one deleted meanwhile is not, one added may be.
PushStep(id) ==
    /\ Doing(id, "push")
    /\ LET now == Now(id)
           left == members[now.code] \ now.seen
       IN  \/ /\ left \intersect now.must = {}
              /\ Then(id, << >>)
           \/ \E fp \in left :
                LET next == Push(now.code, now.list, now.must, now.seen \union {fp})
                IN  IF byFP[fp] = 0 THEN Then(id, <<next>>)
                    ELSE Then(id, <<Send(byFP[fp], [type |-> "update", list |-> now.list]),
                                    next>>)
    /\ Reads

\* broadcastPeers: the clients are collected first (All), then each one's
\* list is computed and sent.
BroadcastStep(id) ==
    /\ Doing(id, "broadcast")
    /\ Then(id, <<Lists(Live)>>)
    /\ Reads

ListsStep(id) ==
    /\ Doing(id, "lists")
    /\ \/ /\ Now(id).left = {}
          /\ Then(id, << >>)
       \/ \E c \in Now(id).left :
            Then(id, <<Send(c, [type |-> "peers", peers |-> PeerList(c)]),
                       Lists(Now(id).left \ {c})>>)
    /\ Reads

\* handleConnectRequest once the two were found in the same room: both must
\* still be registered with candidates, then both are sent the other's.
CandidatesStep(id) ==
    /\ Doing(id, "candidates")
    /\ LET p == Now(id).peer
           known == p \in Live /\ clients[p].ep # "none" /\ clients[id].ep # "none"
       IN  /\ Then(id, IF known THEN Exchange(id, p) ELSE << >>)
           /\ refused' = IF known THEN refused ELSE refused \union {<<id, p>>}
    /\ UNCHANGED <<registryVars, who, agent, up, requests, told, listed>>

\* The deferred cleanup.
RemoveStep(id) ==
    /\ Doing(id, "remove")
    /\ Remove(id)
    /\ Then(id, AfterRemove(Now(id).code))
    /\ UNCHANGED <<who, agent, up, requests, refused>>
    /\ Outdate

-----------------------------------------------------------------------------
(* What a handler reads from its connection                                *)

Idle(id) == id \in Live /\ work[id] = << >>

Register(fp) ==
    /\ MayRegister(fp)
    /\ Add(fp)
    /\ who' = Append(who, fp)
    /\ work' = [work EXCEPT ![seq + 1] = <<Welcome, Broadcast>>]
    /\ UNCHANGED <<agent, up, requests, refused>>
    /\ Outdate

HandleReport(id) ==
    /\ Idle(id)
    /\ up[id] # << >> /\ Head(up[id]) = Report
    /\ \E ep \in Endpoints : UpdateEndpoint(id, ep)
    /\ work' = [work EXCEPT ![id] = AfterReport(id)]
    /\ up' = [up EXCEPT ![id] = Tail(@)]
    /\ UNCHANGED <<who, agent, requests, refused>>
    /\ Outdate

\* handleConnectRequest up to VisibleTo; otherwise it answers with an error.
HandleConnect(id) ==
    /\ Idle(id)
    /\ up[id] # << >> /\ Head(up[id]) # Report
    /\ LET p == Head(up[id]).peer
           visible == p \in Live /\ VisibleTo(id, who[id], p, who[p])
       IN  /\ work' = [work EXCEPT ![id] = IF visible THEN <<Candidates(p)>> ELSE << >>]
           /\ refused' = IF visible THEN refused ELSE refused \union {<<id, p>>}
    /\ up' = [up EXCEPT ![id] = Tail(@)]
    /\ UNCHANGED <<registryVars, who, agent, requests, told, listed>>

\* What users do; a request the registry refuses is answered with an error.
Request(type) ==
    /\ type \in UserRequests
    /\ requests < MaxRequests
    /\ requests' = requests + 1
    /\ UNCHANGED <<who, agent, up, refused>>
    /\ Outdate

\* newRoomCode draws one of 32^5 codes: not one whose deleted room a handler
\* still holds.
Unheld(code) ==
    \A id \in Id : \A i \in DOMAIN work[id] :
        work[id][i].op \in {"created", "notify", "push", "remove"} =>
            work[id][i].code # code

HandleRoomCreate(id) ==
    /\ Idle(id)
    /\ \E code \in Code :
        /\ Unheld(code)
        /\ CreateRoom(who[id], code)
        /\ Request("create")
        /\ work' = [work EXCEPT ![id] =
                <<Send(id, [type |-> "created", room |-> code]), Created(code)>>]

\* A code is known to users once its creator was sent room_created.
Shared(code) ==
    \A id \in Id : \A i \in DOMAIN work[id] :
        /\ work[id][i].op = "send"
        /\ work[id][i].msg.type = "created"
        => work[id][i].msg.room # code

HandleRoomJoin(id) ==
    /\ Idle(id)
    /\ \E code \in Code :
        /\ Shared(code)
        /\ JoinRoom(who[id], code)
        /\ Request("join")
        /\ work' = [work EXCEPT ![id] =
                <<Send(id, [type |-> "joined", room |-> code,
                            list |-> MemberList(code)']),
                  Notify(code), Broadcast>>]

HandleRoomLeave(id) ==
    /\ Idle(id)
    /\ LeaveRoom(who[id])
    /\ Request("leave")
    /\ work' = [work EXCEPT ![id] = AfterLeave(id, RoomOf(id))]

\* ReadJSON fails: the client closed, or missed the pong deadline.
Disconnect(id) ==
    /\ Idle(id)
    /\ work' = [work EXCEPT ![id] = <<Removal(RoomOf(id))>>]
    /\ UNCHANGED registryVars
    /\ Request("close")

HandlerStep(id) ==
    \/ SendStep(id)
    \/ WelcomeStep(id)
    \/ CreatedStep(id)
    \/ NotifyStep(id)
    \/ PushStep(id)
    \/ BroadcastStep(id)
    \/ ListsStep(id)
    \/ CandidatesStep(id)
    \/ RemoveStep(id)

ServerNext ==
    \/ \E fp \in FP : Register(fp)
    \/ \E id \in Id :
        \/ HandlerStep(id)
        \/ HandleReport(id)
        \/ HandleConnect(id)
        \/ HandleRoomCreate(id)
        \/ HandleRoomJoin(id)
        \/ HandleRoomLeave(id)
        \/ Disconnect(id)

ServerSpec == ServerInit /\ [][ServerNext]_vars

-----------------------------------------------------------------------------
(* Properties                                                              *)

\* No handler has anything left to do.
Quiet == \A id \in Id : work[id] = << >>

\* A client's room is the one the server has it in whenever its handler is
\* between two requests: a client that is no longer a member has been told so
\* (room_left, messages.go:85-87).
RoomAgrees == \A id \in Id : Idle(id) => agent[id].room = RoomOf(id)

\* No membership change goes unannounced: when the handlers are done, every
\* member was sent, since the last change, the list that is current now
\* (notifyRoom's callers, the cleanup's capture of the room before Remove).
EveryoneTold ==
    Quiet => \A id \in Live : RoomOf(id) # NoRoom => id \in told

\* The same for peer lists: every client was sent the list of peers it now
\* sees, with their endpoints, since it last changed (broadcastPeers' callers).
EveryoneListed == Quiet => Live \subseteq listed

\* Hole punching is two-sided: when the handlers are done, a client was given
\* a live peer's candidates exactly if the peer was given its own
\* (handleConnectRequest: "both sides receive the other's punch candidates").
PunchIsMutual ==
    Quiet => \A p, q \in Live : q \in agent[p].punch <=> p \in agent[q].punch

\* Two members of a room, one of whom the other can ask the server for.
Connectable(p, q) ==
    /\ p # q /\ RoomOf(p) # NoRoom /\ RoomOf(p) = RoomOf(q)
    /\ clients[p].ep = "public" /\ clients[q].ep # "none"

NothingInFlight == Quiet /\ \A id \in Live : up[id] = << >>

\* Everybody in a room connects to everybody (rooms.go:3-4), whatever the
\* order of reports, joins, departures and broadcasts: only the refusal of a
\* connect_request, which the client does not repeat, can prevent it.
UnrefusedAreConnected ==
    NothingInFlight => \A p, q \in Live :
        Connectable(p, q) /\ <<q, p>> \notin refused => q \in agent[p].punch

-----------------------------------------------------------------------------
(* Statements of the sources that the interleaving of handlers breaks.     *)

\* "Joining a room makes every member visible to you for hole punching (and
\* vice versa)" (rooms.go:3-4): members are wired together, unconditionally.
RoommatesConnected ==
    NothingInFlight => \A p, q \in Live : Connectable(p, q) => q \in agent[p].punch

\* "room membership and client state share one lock" (rooms.go:25-26): nobody
\* writes a Members map while a handler ranges over it, which Go answers with
\* a fatal error when it notices.
MembersMapUnshared ==
    [][\A id \in Id : Doing(id, "push") /\ Doing(id, "push")' =>
            members'[Now(id).code] = members[Now(id).code]]_vars
=============================================================================
