# Eliauk VPN: TLA+ models, model checking and proofs

Eliauk VPN gives friends who play Minecraft a virtual LAN. Clients register with a
coordination server, meet in rooms, punch UDP holes to each other, fall back to a
relay on the server, and carry IP packets of a virtual network card over encrypted
sessions. A desktop application owns the client and can run a dedicated game server.

This directory holds the specifications of that program. Line numbers of the code are
in `PROJECT.json` ("map"); file names below are relative to `src/`.

## 1. The system

| Component | Code | State it keeps | Operations |
|---|---|---|---|
| Registry and rooms | `internal/server/registry.go`, `rooms.go` | connections, fingerprint index, next address, rooms, two membership maps, hosts | `Add`, `Remove`, `UpdateEndpoint`, `CreateRoom`, `JoinRoom`, `LeaveRoom`, lookups |
| Connection handlers | `internal/server/handler.go`, `internal/protocol` | one goroutine per WebSocket, nothing shared but the registry | register, report_endpoint, connect_request, room_create/join/leave, the deferred cleanup, notifications |
| Packet relay | `internal/server/relay.go` | learned UDP addresses | learn, forward |
| Agent | `internal/agent/agent.go` | room, routes, peers already tried, tunnel, card | message loop, automatic connecting, whitelist, packet forwarding |
| P2P tunnel | `internal/p2p/tunnel.go` | per peer: state, path, remote address, session; whitelist; relay address | `BeginConnect`, `punchLoop`, `handleFrame`, `SendData`, `SetFriends` |
| Session encryption | `internal/crypto/crypto.go` | send counter, newest counter received, 64-bit replay bitmap; identity file | `Seal`, `Open`, `LoadOrCreate` |
| Desktop application | `cmd/gui/main.go` | settings, running agent and its cancel function, restart token, dedicated server, staged update | `agentLoop`, `saveSettings`, `startGame`, `stopGame`, `checkUpdate`, `quit` |
| Self-update | `internal/update/update.go` | staged executable and install script in the temp directory | check, verify, download, install, clean up |
| Minecraft integration | `internal/mc` | server process; `server.properties`, `servers.dat` | start, stop, rewrite files |
| LAN discovery | `internal/lan/lan.go` | a multicast listener | recognise, build and rewrite the advertisements of "Open to LAN" games |
| Virtual NIC | `internal/vnic/vnic.go` | Wintun adapter and session, count of readers, closed flag | `Open`, `Read`, `Release`, `Write`, `Close` |
| STUN client | `internal/stun` | none | three round trips, the parser, the verdict on the NAT |
| Configuration file | `internal/config/config.go` | `config.json` | `Load`, `Save` |
| Window and tray | `internal/webviewhost`, `internal/tray` | a thread, a queue and a done channel each | clicks, hide and show, terminate |
| Helpers and tools | `internal/winutil`, other `cmd/` | none | wrappers of Windows calls, manual diagnosis |

**Interactions.** Handlers call the registry (one lock per call) and write to other
clients' WebSockets (one lock per client). Agents react to those messages: they ask for
connections, report their endpoint, change their whitelist, and hand candidates to the
tunnel. Tunnels exchange datagrams directly or through the relay. The application
builds an agent from its settings, runs it, and replaces it when it ends or settings
change.

**What is hard.** Handlers interleave between any two registry calls and writes; a
client can reconnect before its old connection is noticed dead; both ends punch at the
same time with their own deadlines; datagrams are lost, repeated and reordered; replay
protection is bit arithmetic at a window's edge; the application's goroutines check
shared state in one critical section and act on it in another; handlers write to other
clients' connections, which may block; advertisements come back through the socket that
listens for them; memory is unmapped under goroutines that use it.
`PROJECT.json` lists every such place under "hazards", with the properties aimed at it.

**What makes each part correct.** Registry: addresses are unique, the membership maps
agree, members and hosts are live, hosts change only when they go. Handlers: every
change is announced to everyone it concerns, and roommates get wired together. Tunnel:
who is connected can send, sealed, to somebody who can answer; both get connected if a
path works. Replay window: nothing twice, nothing refused that is merely late.
Application: changed settings reach the agent or are waiting for it, no server is lost or
outlives a quit. Self-update: what was announced is installed, only forward, and the
application comes back. Files: whatever is cut off, the identity and the user's list of
servers survive, settings are found again or missed with an error, and no server starts
without the settings it needs. Heartbeat: the healthy are kept, the dead released. Data
plane: packets go to the machine that has the address they are routed by, and
advertisements never go round in circles. Routes: those of the members. Window and tray:
a quit is taken. Sections 3 and 5 say where the code falls short of this.

## 2. The modules

| Module | Models | Composes |
|---|---|---|
| `RoomService` | abstract: who is online, in which room, who hosts it | |
| `Registry` | `registry.go`, `rooms.go` | refines `RoomService` |
| `Server` | `handler.go` and the agent's message loop | extends `Registry` |
| `ServerProofs` | theorems about `Registry` and `Server` | |
| `SecureLink` | abstract: two clients that are joined, or not, and stay so | |
| `Tunnel` | `tunnel.go`, `relay.go` and the datagrams between two clients | refines `SecureLink` |
| `TunnelProofs` | theorems about `Tunnel` | |
| `IdealWindow` | abstract: a receiver that remembers every packet | |
| `ReplayWindow` | `Session.Seal` and `Session.Open` | refines `IdealWindow` |
| `ReplayProofs` | theorems about `ReplayWindow` | |
| `Application` | `agentLoop`, settings, dedicated server, `quit` | |
| `ApplicationProofs` | theorems about `Application` and `Shell` | |
| `SelfUpdate` | `update.go`, `checkUpdate`, `installPendingUpdate`, the install script | |
| `SelfUpdateProofs` | theorems about `SelfUpdate` | |
| `SavedFiles` | `config.go`, `serversdat.go`, `PrepareServerDir`, `LoadOrCreate` and what calls them | |
| `SavedFilesProofs` | theorems about `SavedFiles` | |
| `Heartbeat` | deadlines, pings and blocking writes of `handler.go` and `agent.go` | |
| `HeartbeatProofs` | theorems about `Heartbeat` | |
| `VirtualLan` | `lan.go`, the forwarding loops of `agent.go` | several agents and their tunnels |
| `PeerRoutes` | the route table of `agent.go` and the commands that install it | agent, server, system |
| `VirtualNic` | `vnic.go` | |
| `StunProbe` | `stun.go`, `detect.go` | client, two servers, NAT |
| `Shell` | `host.go`, `tray.go`, the event loop of `cmd/gui` | |
| `AdapterProofs` | theorems about `VirtualLan`, `PeerRoutes`, `VirtualNic` and `StunProbe` | |
| `MCServer`, `MCTunnel`, `MCSelfUpdate`, `MCParts` | the instances TLC checks | `MCParts`: the small parts |

**Convention.** Some definitions have a *faulty variant* right before them, with the
same parameters and used by nobody (`NoSuccessor` before `Successors`). Putting it in the
place of the real one gives the program with a plausible bug; each property of a
passing run is violated by one of them ("mutants" in `PROJECT.json`), so no property
holds by accident.

### Registry

One action per method; each method holds `Registry.mu` throughout, so each is atomic.
Connection ids are numbers in the order of registration, which is what `seq` gives the
code for host succession; fingerprints and room codes are model values. `MayRegister`
is the environment: with `Overlap = FALSE` a fingerprint registers again only after
its old connection was removed, with `Overlap = TRUE` at any time, which is what
happens when a client comes back before the heartbeat has noticed that it was gone.
An endpoint is `"none"`, `"lan"` (candidates, but no public address) or `"public"`.

### Server

`work[id]` is what the handler goroutine of connection `id` still has to do. One step
performs one locked registry call or one message write, so everything that other
handlers can do in between, they do. `agent[id]` is the client: its room, member list,
routes, the peers it has tried (`attempted`) and those it was given candidates of.
A message takes effect at the client when it is written, and what the client answers
waits in `up[id]` for any time. `notifyRoom`'s range over a map without the lock is
modelled by what Go promises of such a range. `told`, `listed` and `refused` are
history variables for the properties. The request `list_peers`, which no client in
the repository sends, is left out; so is the `room` field of `registered`, which the
agent does not read.

### Tunnel

Two clients, each with its peer's state, path, session and the position of its
`punchLoop`; `net` is the set of all datagrams sent, any of which may arrive at any
time, repeatedly or never. A frame's path says whether it comes over the relay, to a
candidate address (`"punch"`, which only reaches clients in `paths.reach`), or to an
address the receiver was heard at before, where NATs let it in. `handleFrame` is split
by frame type after the common part that learns the path (`Arrives`). Deadlines may pass
at any time unless the setting is *patient* (see fairness below). A pong and a sealed
packet both cause no answer and are one type, `"quiet"`; `"clear"` would be a packet
that went out unencrypted. The mode without an identity, which the agent never uses, is
left out.

### ReplayWindow

`Bits` is 64 in the code and a parameter here. The bitmap is a set of bit positions,
shifted as the machine shifts it: a shift by the width or more gives zero, in
particular `1 << 64`. Encryption is ideal: only sealed packets arrive.

### Application

`slipped` remembers that `signalRestart` came between `agentLoop`'s check for a token
and its publication of `cancel`. `loop` is the position of `agentLoop`, `doing` that of
the event loop and of the `-game-start` hook. Each step holds `app.mu` once, uses a
channel once, or makes one blocking call (dial, run, save, start a process, wait for
one). The agent is external: a dial fails or succeeds, a run ends when cancelled or when
its connection breaks. After `quit` the event loop may still pick queued actions before
it picks `quitCh`, as `select` chooses at random.

### SelfUpdate

A *copy* is a process of the application: `"boot"` until `CleanupStale` has listed the
temp directory, `"sweep"` while it removes what it listed, `"up"`, `"quit"` once the
window is gone, `"exiting"` once its script runs. Checks are goroutines and go on until
the process ends; each does what `checkUpdate` does, one locked section or one file
operation a step. `temp` is what matches `eliauk-update-*`. The install script is a
process of its own that reads its next line from the file, so removing the file stops
it: the relaunched copy's `CleanupStale` does just that (`main.go:93-95` says that the
script deletes itself, `update.go:200-203` explains why it must not). What Windows
contributes is listed at the top of the module. A manifest's signature and digest are
ideal: a download is whole or not. Elevation replaces a copy by another before it does
anything, and is not told apart.

`overlap` remembers that a user started a copy while another ran *or an install script
still waited*. The second case needs one user only, who quits and starts the application
again within the seconds the script waits: `CleanupStale` of the new copy then removes
the executable and the script it was announced with (section 5). `CleanupStale` ignores
errors, both of listing the directory and of removing a file (`SweepError`); `unswept`
remembers the copies that met one.

### SavedFiles

Every file is written by truncating and writing it, in two steps that can both fail and
between which the process can end; a file is absent, torn or whole. `at` is where the
event loop and the `-game-start` hook are, `loop` where `agentLoop` is with the
identity. Settings are the number of the last change. `server.properties` is the set of
*kinds* of lines the code treats differently. Power failures that lose completed writes
are left out. Reading a whole `server.properties` may fail too, and the code then goes on
as if it were empty (`mc.go:290`), so that nothing is claimed about the lines a user has
in it. `clashed` remembers that the event loop and the `-game-start` hook were in each
other's way.

### Heartbeat

Complements `Server`, which has no time and whose writes never block: here there is no
content, only who writes to whom. `at[c]` is where the handler of connection `c` is,
`cur[c]` the client it writes to, `todo[c]` those still to come, `writer[r]` who holds
`writeMu` of `r`. A client that is `"up"` reads what it is sent at once; one that is
`"frozen"` (asleep, hung) reads nothing, and what is written to it fills `pipe` up to
`Capacity`; one that has `"vanished"` does not acknowledge either, so that TCP gives up
after a while. `Tick` lets one ping period pass, once no goroutine can go on.
`troubled` remembers connections whose client failed, or whose handler was in a write
when a ping fell due.

### VirtualLan

Machines on physical LANs, each with its agent (`myVIP`, its address) and perhaps its
adapter (`nic`). An agent may end and the application's next one register, under another
address, which may have been a peer's. `Run` closes the two sockets and nothing else, so
the adapters of ended agents stay (`orphans`); what they and their listeners hear goes
into a closed socket. An agent registers with a connection of its own (`myID`), and
routes by the last list of peers it got (`behind`, the code's `a.routes`), which may be
any list the server ever wrote to it: one written before a peer came back leads to a
connection that is gone. `sent` remembers under which addresses a packet was sent.
`flying` are the packets on their way into a listener, out of an adapter or through a
tunnel. An IPv4 header is a sequence of words. The code computes the position of an
address from the *end* of the header, which is right without options, and the model
does so too. Windows is external: which interface a game's multicast leaves through,
and which sockets hear what is injected.

### PeerRoutes

The table (`routes`) changes under the agent's lock; `adding` and `deleting` are the
`route add` and `route delete` commands that follow it, each of which may fail or be
skipped because the adapter has no index yet: the code logs the one and ignores the
other. `missed` and `leftover` are what such commands leave behind. `unread` is what the
server has written to the agent. While the adapter opens the message loop waits, so the
list of `registered` is older than it looks when it is applied. A peer that reconnects
is another `Peer` with perhaps the same address.

### VirtualNic

The steps of `Read` (check of the flag, counting itself, receiving, checking again,
waiting on the auto-reset event), of `Write` and of `Close` (flag, event, waiting for
the count up to 100 ms, ending the session). `trespass` remembers who used the ring
after its end.

### StunProbe

Two servers, a NAT and what they answer are chosen at the start; `answers` may be lost
(a deadline passes), repeated, or read in a later round trip. The parser is modelled by
what it makes of three layouts of attributes, two of which it does not handle.

### Shell

The window and the tray each have a thread that puts clicks into a bounded channel or
drops them; the event loop takes from four channels and, after `quit`, waits up to two
seconds each for both threads, any of which may hang.

## 3. What is checked

| Run | Instance | What it shows |
|---|---|---|
| `server_rooms` | a fresh server with 2 connections and 4 user requests, and one in mid-life with 3 connections and 2 requests | clients agree with the server about their room; every member and client was sent a list since the last change; punching is two-sided; roommates are wired unless a request was refused |
| `server_reconnect` (violated) | overlapping reconnects | the old connection's cleanup takes the fingerprint from the new connection, which is online and cannot be found |
| `server_rejoin` (violated) | leaving and rejoining | a refused connect request is never repeated: two members are never wired |
| `server_map` (violated) | | a room's map is written while another handler ranges over it |
| `tunnel` | direct with one side reachable and a whitelist change; relay only; any deadline with the whitelist on one side; one datagram lost | a connected peer can be sent to, with encryption, and the other side takes part; who was never allowed has no session; both sides get connected when a path works; `SecureLink` is implemented |
| `replay_edge` (violated) | a window of 3, 9 packets | a packet exactly a window behind is accepted every time |
| `app_lifecycle` | 2 settings, 3 saves, 2 servers | changed settings cancel the agent or leave a token for it; without the hook every running server is the one shown and none outlives a quit; an agent comes up |
| `app_restart` (violated) | the same | a save at the wrong moment finds nothing to cancel: the agent runs on with the old settings |
| `self_update` | 2 starts by the user, 2 checks, 4 versions, 1 copy whose cleanup meets an error | unless copies or scripts overlapped, what is announced as staged is there and is what gets installed, a start without errors leaves nothing over, and updates only go forward; the application comes back |
| `heartbeat` | 2 connections, 1 list of buffer, deadlines of 3 ping periods, 2 requests, 1 failure | no healthy client is given up by either side unless its handler was held up; a dead one is released, and every handler returns from its writes, unless it writes to a client that is connected and does not read |
| `heartbeat_held` (violated) | the same | that exception: a client that stops reading keeps *another* one, which has ended, registered |
| `small_parts` | see below | packets go to the machine that has the address they are routed by, and advertisements go round no loop; where the system's routes differ from the table a command failed, was skipped or was an earlier agent's; a woken reader keeps off the freed ring; the verdict on the NAT is never too bold; late packets pass the replay window, which implements the ideal receiver; settings, identity and list survive crashes and failed writes, or the loss is noticed, and a server starts configured; a quit is taken; the registry: unique addresses although they are reused and the search wraps, membership maps and index agree, members and hosts are live, hosts change only by leaving, the longest registered member succeeds, `RoomService` is implemented |

The violated properties are statements of the code's own comments, quoted under
"findings"; each trace is a behaviour of the code.

`small_parts` checks the parts that share no state in one run: `focus` says which of
them moves, and the others stand still. Its instances are, in `VirtualLan`, three
machines, two of them on one physical LAN, three agents (the second and third may be on
the machine of an earlier one, or under its address) and one packet of a game, which has
every copy it can have, with addresses given in the order of their first use, as they
are all alike (`NewInOrder`), and lists that arrive when a packet is about to be routed,
as they matter at no other time (`ListsInTime`); in `PeerRoutes` two addresses and three
peers, of which one is another after a reconnection, and four changes; in `VirtualNic`
two readers and a writer; in `StunProbe` every NAT, server and layout; in `Shell` queues
of two and one and four clicks; in `ReplayWindow` a window of three and nine packets,
three times round; in `SavedFiles` three starts, three changes, two addresses and two
keys, for settings with properties, list and identity one at a time; in `Registry` three
fingerprints, two rooms, three addresses and four registrations, each after the old
connection is gone. `ReplayWindow`'s refinement says that what is accepted twice is at
the edge because `IdealWindow` forgets there too; that the edge is a defect is
`replay_edge`.

**Bounds.** They are constants with names that start with `Max`, plus the address pool.
Three fingerprints are the fewest for which a host leaves and *two* members remain to
choose from; four registrations make three clients and a reconnect, so that with three
addresses the search wraps and passes addresses in use; a network without any free
address is met only by the theorems. Two connections and four requests suffice for
create, join, leave, rejoin or close with everything in between; the mid-life start
(`SettledInit`) spends its states on three clients changing rooms at once instead of on
registering them. In passing runs a fingerprint registers again only when its old
connection is gone: with overlapping reconnects the registry is explored by
`server_reconnect`, and the theorems of section 4 that do not assume `~Overlap` hold for
it. In `Tunnel`, `net` needs no bound: it is a set of at most a few dozen kinds of
datagrams, each of which can arrive any number of times. Losing a datagram that is sent
again is a delay; `MaxLost` counts those that are gone for good, and one of them may be
the announcement, which is sent once. The three settings of `MCTunnel` give each
property its hard case; its safety properties are proved for all of them. In
`SelfUpdate` two checks can be of one copy or of two, and each can end in a script; in
`SavedFiles` the third start finds what a crash during the repair of a crash left. In
`Heartbeat` a handler writes to its own client and to another, so that two connections
make every circle of writes there can be; one failure is the cause of everything that
can go wrong, and a frozen client may come back. Its theorems, those of `SavedFiles` and
those of the small parts hold without the bounds. `CHECK_DEADLOCK FALSE` is set
everywhere because a system that has used up its bound of registrations, requests or
packets stops, as do a pair of clients whose connection has failed and an application
that has exited.

**Fairness.** Safety properties use none. `Tunnel!FairSpec`: goroutines are scheduled
(weak fairness of `punchLoop`), the server signals both sides (weak fairness of
`BeginConnect`), datagrams not lost arrive (weak fairness of each hello and
acknowledgement, with losses bounded, so that what is sent every 100 ms gets through),
and a turn of the loop meets a passed deadline (strong fairness); `paths.patient` makes
deadlines pass only for paths that do not work, as six seconds are long against a round
trip. Without it a deadline could pass before the first frame arrives and nothing would
be owed. `Application!FairSpec`: goroutines are scheduled, a dial ends, one that is
tried for ever succeeds in the end (strong fairness of `DialSucceeds`), and a cancelled
agent returns. `SelfUpdate!FairSpec`: a script that was started runs, and a process that
has begun to exit exits. `Heartbeat!FairSpec`: handlers, ping goroutines and agents that
can go on do, time passes, and TCP gives up on data that nobody acknowledges; a frozen
client is not assumed to thaw. `ShellFairness`: threads that do not hang and the relaying
goroutine are scheduled, the event loop runs, and it takes from each channel that is
ready again and again (strong fairness, since `select` chooses among the ready ones at
random). A running agent is *not* assumed to end, nor users to do anything.

## 4. What is proved

TLAPS checks the following for every value of the constants.

*`ServerProofs`, the registry.* The invariant `RegistryInv` collects types, the
agreement of `inRoom` with `members`, rooms being exactly those with members, unique
addresses, and the fingerprint index pointing at live connections of that fingerprint.
Unique addresses need the type of `clients`, the maps need each other: none is inductive
alone. From it follow `TypeCorrect`, `AddressesAreUnique`, `MembershipMapsAgree` and
`HostStability`. With the hypothesis `~Overlap`, `SerialInv` adds that every connection
is found by its fingerprint and every member has one; `IndexIsExact`,
`MembersAlwaysOnline`, `SuccessionIsByAge` and `RegistryImplementsService` (each step of
the registry is a step of `RoomService` or a stutter) rest on it. The hypothesis is
necessary: `server_reconnect` shows what happens without. `IndexIsSound` is what remains
of `IndexIsExact` then: the index may have lost a connection, but never leads to one
that is gone.

*`ServerProofs`, the handlers.* The properties of `Server` speak of the moments when
handlers have nothing left to do, so none of them is inductive: the invariants say what
the operations still to be done are good for. `HandlerInv` has the types, that a handler
deciding about candidates or about the end of its connection has nothing else to do
(`Alone`), and that a connection which does not exist yet has left no trace (`Unborn`).
It gives `ServerUsesRegistry`: a step of a handler is one of `Registry` or leaves it
alone, so everything proved of the registry holds of the server (`ServerKeepsService`).
`PunchInv` says that candidates given, or on their way (`Given`), go both ways; hence
`MutualPunching`. These hold however connections overlap. Without overlap `ServiceInv`
adds four parts. `RoomInv`: a client is where the server has it, or its handler still
has a message that puts it there; hence `RoomsAgree`. `ToldInv` and `ListedInv`: for
every member and client without the current list some handler has an operation that
will send it (`Tells`, `Informs`); hence `MembersAreTold` and `ClientsAreListed`.
`TriedInv`: a peer that was tried is asked for in a request on its way, pending, refused
or given; hence `RoommatesMeet`.

*`ReplayProofs`.* `WindowTypeOK` and `SeenIsRecent` are inductive together: a bit is
set exactly when the counter that far behind the newest was accepted. Hence
`ReorderingTolerated` and `ReplayImplementsIdeal`, for every width of the bitmap.
`AcceptedOnce`, which `replay_edge` refutes, fails in one place only:
`RepeatsAreAtTheEdge` shows that what is accepted again is exactly a window behind the
newest, and that all that is nearer was accepted once.

*`ApplicationProofs`.* `RestartPending` says that an agent which is not cancelled
although the settings have changed runs only if `signalRestart` slipped past it, and
then a token waits: this is all of `SettingsTakeEffect` that holds, and the extent of
the finding of `app_restart`. It is inductive with the types, in particular that
`app.cancel` is set only while an agent runs or has just ended. `ServerIsKnown` and
`QuitStopsServer` need what the event loop may hold at each of its places.
`WakeUpsAreNotLost` is the safety part of `AgentComesUp`: an idle `agentLoop` with
settings has a token waiting, or the event loop is about to put one, so that fairness
only has to schedule them. For `Shell`, `ShellInv` follows a quit through the channels
(`QuitOnItsWay`); `QuitIsKept` needs that the event loop never returns to its select,
`QuitIsMeant` that the tray outlives it (`TrayOutlives`): a closed `selCh` counts as a
quit. Hence `NoQuitIsLost`, the safety part of `QuitIsTaken`, and `QuitsForAReason`.

*`TunnelProofs`.* `TunnelInv` says what each datagram in flight shows about its sender
(`Good`): it has begun, it has a session if it acknowledges, and the relay has learned
both ends if it forwarded. Those facts are never undone (`NextProgress`), so they still
hold when the datagram arrives, however late; that is what makes the receiver's step
keep `PeerOK`. `ConnectedPeersCanSend`, `DataIsAlwaysSealed`, `HandshakesAreTwoSided`
and `WhitelistKeepsOut` follow, for all settings and deadlines. `LifeInv` adds that
whoever is connecting has a `punchLoop` at work (`NobodyWaitsForNothing`, the safety
part of `BothConnect`) and that a session comes with a connection. With it,
`TunnelImplementsLink` maps every step to one of `SecureLink` or a stutter: a connection
is made once, from *connecting* or late from *failed*, and not before both have begun.

*`HeartbeatProofs`.* `HeartInv` says who holds each lock (`LocksOK`) and that of a
connection that is not `troubled` a ping that fell due is on its way, or its pong back
(`Well`): so its age is one ping period at most when the next falls due, and
`HeartbeatKeepsTheHealthy` holds for any read deadline of two periods or more.
`DutyInv` says what a handler and a ping goroutine owe at each place: one that is to
write has a client to write to, the registered are those whose handler still serves, and
only a client that is connected has lists unread. With `LocksOK` it shows who waits
for whom when no goroutine can go on (`Settled`): each wait for a lock leads to its
holder, whose write is stuck at a client that does not read (`HolderIsBlocked`), and
never on to another lock. So `NoCircularWait` and `OnlyTheSilentKeepTheDead`, the safety
parts of `HandlersReturn` and `DeadAreReleased`, for any number of connections; the
latter bounds the finding of `heartbeat_held`.

*`AdapterProofs`.* `NicInv` separates the readers that were in `Read` when `Close` began
from those that may still come: once the session ended without giving up, the former are
outside. `ProbeInv` says what an answer shows, whichever round trip it is read in.
`RoutesInv` says that between the table and the system there are exactly the commands
under way and those not carried out (`CommandsPending`). `ListsInv` says that the lists
written, of whatever age, and the tables built from them name connections by the address
each registered with, so that an entry whose connection is alive leads to the machine
with that address (`RoutedToOwner`). `LanInv` traces every packet in flight to a machine
that sent it (`Traced`): what came through a tunnel carries a virtual source, and so the
loop guard stops it. The theorems are `CloseIsSafeForReaders`, `ProbeIsConservative`,
`RoutesAreThoseOfPeers` and `PacketsAreCarriedAsRouted`.

*`SavedFilesProofs`.* One invariant per file. `KeyInv`: until the file holds a key no
agent has used one. `ListInv`: between truncating the list and writing it the backup
holds the user's entry, and it is not touched while the list is damaged. `Alone`: unless
`clashed`, at most one actor is at work. With it, `ConfigInv`: what is about to be
written is not older than what was reported saved; and `LinesInv`: whoever has the
properties open is about to write the settings a server needs, and whoever starts a
server wrote them. Hence `IdentityIsKept`, `ListIsRecoverable`, `SettingsAreKept` and
`StartsAreConfigured`. What a user's own lines become is not among them: nothing keeps
them when the file cannot be read (section 5).

*`SelfUpdateProofs`.* `UpdateInv` follows an update from its check to its script.
`CheckOK` and `CopyOK`: whatever is staged in a copy or named by its script comes from a
check of that copy that ended, was whole and is newer than the copy; `Phases`: a script
is written only by a copy that is exiting and outlives it. `Tidy`, which is what
`PromiseKept` needs to be inductive, says that as long as no copy was started beside
another or before an install script had ended at most one copy or script is active: the
running copy is of the installed version, everything in the temp directory is its own or
on its list of what to sweep, and the file a check writes, a copy announces or a script
installs is there. A copy that sweeps what another, or a waiting script, still needs
breaks it, which is why the properties exclude `overlap`; a cleanup that met an error
(`unswept`) is excluded from `StartsClean` alone. Hence `AnnouncedIsInstalled`,
`StartsAreClean` and, with `NewerIsLater` on the comparison of versions of any length,
`UpdatesGoForward`. `NewerIsAnOrder` shows that this comparison is a strict order,
whatever the number of parts (the smallest part in which two versions differ exists
because the numbers are well-founded). It is what `NoUpdateFallsBack` rests on: each
single installation is of a newer version (`InstallsNewer`), so over any number of them
no version once left comes back.

The assumptions used are the named `ASSUME`s of the modules, all evaluated by TLC.

**Only model-checked:** the liveness properties `BothConnect`, `AgentComesUp`,
`ComesBack`, `DeadAreReleased`, `HandlersReturn` and `QuitIsTaken`. The prover does not
reason about `ENABLED` and fairness, nor by induction over data. What such a property
needs of the states, that nothing is lost or stuck on the way, is proved where it says
something beyond the safety properties: see the safety parts above. That `Settled` means
that no fair action is enabled is read off the guards and not proved, as it speaks of
`ENABLED`.

## 5. What is not modelled

Key derivation, AES-GCM and Ed25519 (ideal); WebSocket framing and JSON; texts, logs and
drawing of the window; the Windows API behind the tray, the window, the elevation prompt
and Wintun; path detection of Java and launchers; the NBT codec, which is taken as
lossless; the order of an agent's start-up; what Windows does with two adapters of one
name; the tunnel's mode without an identity, which the agent never uses; the wrappers of
Windows calls and the diagnostic programs.

Behaviours the models have without a property of their own, for a maintainer to know:

- Lists are assembled under the registry's lock but written without it, so an older
  member or peer list can be the last that a client gets, and a client that changed rooms
  meanwhile can be shown the members of the room it left: `EveryoneTold` and
  `EveryoneListed` count what was written since a change, not in which order.
- `quit` cancels the agent without ending `agentLoop`, which may run another one while
  `quit` waits up to ten seconds for the game server.
- Settings that could not be written stay in memory, and saving them again finds them
  unchanged and restarts nothing.
- `CleanupStale` removes the executable that another copy has staged and announced. This
  takes no second user: who quits with an update pending and starts the application
  again while the install script still waits for the old process loses the update that
  was announced to be installed (`main.go:977`). Two copies that both quit with an
  update may install the older one last.
- A check that starts while another's download is staged clears it, and if it fails the
  staged executable is forgotten until the next start removes it.
- `CleanupStale` removes nothing when it cannot list the directory, and passes over a
  file that it cannot remove; the next start tries again.
- `PrepareServerDir` says that existing settings are preserved (`mc.go:270-272`). It
  overwrites port, mode and motd (a test asks for the port to be reset,
  `mc_test.go:107-111`), and it takes any error of reading the file for a file without
  lines (`mc.go:290`), so that it writes back none of the user's other lines. The same
  happens to a file that was cut off.
- `sendClient` has no write deadline: besides the finding, a healthy client is dropped
  when its handler is in such a write for as long as its pings go unanswered. The
  agent's own `CreateRoom`, `JoinRoom` and `LeaveRoom` write while they hold `a.mu`.
- `IPv4Dst`, `IPv4Src` and the rewriting functions take the last words of the header: a
  packet with IP options is routed by its last option, although `IPv4Dst` says that it
  returns the destination of a packet (`lan.go:131`). `CarriedAsRouted` speaks of the
  address a packet is routed by for this reason.
- The listener hears the games of neighbours on the same physical LAN and forwards
  them under the agent's own address (`lan.go:48-50` says "sent from the local machine").
  An advertisement a game sends out of the virtual card is dropped by the loop guard, and
  every advertisement is when the physical LAN is itself `10.0.0.0/24`.
- `agent.Close` "tears down the agent" (`agent.go:205`), but neither it nor `Run` closes
  the adapter or the listener: every reconnection leaves one of each, with a goroutine,
  and the old address on this machine. The models show that what they hear goes nowhere
  (`Ends`), not which of two adapters Windows then takes a route to a peer through.
- A route that entered the table before the adapter was open is never added, since the
  next list finds it there (`missed`), and so is one whose command failed or found the
  adapter without an index; one whose deletion failed stays (`leftover`), against
  `agent.go:694-697`. Routes an earlier agent left are removed by chance.
- An agent routes by its last list: a packet to a peer that has come back goes to the
  connection that is gone, until the next list arrives.
- `vnic.Close` waits for goroutines counted in `Read`. One between `Read`'s check and its
  count, one that uses or releases a packet, and one in `Write` may touch the ring after
  its end.
- The STUN parser does not pad attributes to four bytes, so that one of odd length hides
  the mapped address, and an IPv6 address of less than sixteen bytes makes it loop for
  ever (`spins`).

## 6. Plan

In order of what matters most to the system:

1. `Registry`, `RoomService`, proofs. *Done.*
2. `Server` with the agent's message loop, proofs. *Done.* `Heartbeat`, proof of its
   safety property. *Done.*
3. `Tunnel` with the relay, `SecureLink`, proofs. *Done.*
4. `ReplayWindow`, `IdealWindow`, proofs. *Done.*
5. `Application`, proofs. *Done.* `SelfUpdate`, proofs. *Done.*
6. `SavedFiles`, proofs. *Done.*
7. `VirtualLan`, `PeerRoutes`, `VirtualNic`, `StunProbe`, `Shell`, proofs. *Done.*
8. The codec of `servers.dat` against a reference definition over bounded inputs.
9. A composition of `Server` and `Tunnel` for peers that fail and meet again, with an
   abstract specification of a room in which everybody reaches everybody.
