------------------------------ MODULE Heartbeat ------------------------------
(***************************************************************************)
(* How the server keeps and loses its connections: HandleWS with its ping  *)
(* goroutine, sendClient and broadcastPeers (internal/server/handler.go)   *)
(* on one side, the agent's messageLoop, pingLoop and Run on the other.    *)
(*                                                                         *)
(* A write to a client holds the client's writeMu until the kernel has     *)
(* taken it.  Only pings have a write deadline; sendClient's writes have   *)
(* none, and the handler that writes does not read its own connection.     *)
(*                                                                         *)
(* Time passes in Tick, one ping period (serverPingPeriod, 20 s) at a      *)
(* time and only when no goroutine can go on: whatever is not blocked is   *)
(* done in much less than that.  What is written is immaterial here: one   *)
(* broadcast stands for the member list and the peer list that follow.     *)
(*                                                                         *)
(* A definition nothing uses, before another with the same parameters, is  *)
(* a faulty variant of it (the mutants of PROJECT.json).                   *)
(***************************************************************************)
EXTENDS Naturals

CONSTANTS
    Conn,         \* connections, past and future
    NoOne, Pinger,
    Capacity,     \* lists that fit between a writer and a client not reading
    PongWait,     \* serverPongWait and wsPongWait in ping periods: 3
    MaxRequests,  \* bound on what clients send
    MaxFaults     \* bound on clients that freeze, vanish or quit

ASSUME HeartbeatAssumption ==
    /\ NoOne \notin Conn /\ Pinger \notin Conn /\ NoOne # Pinger
    /\ Capacity \in Nat \ {0}
    /\ PongWait \in Nat /\ PongWait >= 2
    /\ MaxRequests \in Nat /\ MaxFaults \in Nat

VARIABLES
    registered,  \* connections in the registry
    at,          \* where a connection's handler is
    cur,         \* the client it writes to, or waits to write to
    todo,        \* those it writes to afterwards
    writer,      \* who holds a client's writeMu
    ping,        \* where a connection's ping goroutine is
    open,        \* not closed by the server
    age,         \* ping periods since the last pong was handled
    client,      \* "up"; "frozen": reads nothing; "vanished": nothing arrives
                 \* at it any more; "closed": it closed, or TCP gave up
    pipe,        \* lists written to it and not read
    pinged,      \* is there a ping among them?
    pong,        \* is there a pong on the way back?
    patience,    \* ping periods since the client last had a pong
    requests, faults,
    troubled     \* history: connections whose client was not up once, or
                 \* whose handler was not reading when a ping fell due

handlerVars == <<registered, at, cur, todo>>
clientVars == <<client, patience>>
wireVars == <<pipe, pinged, pong>>
boundVars == <<requests, faults>>
vars == <<handlerVars, writer, ping, open, age, clientVars, wireVars, boundVars, troubled>>

Init ==
    /\ registered = {}
    /\ at = [c \in Conn |-> "off"]
    /\ cur = [c \in Conn |-> NoOne]
    /\ todo = [c \in Conn |-> {}]
    /\ writer = [c \in Conn |-> NoOne]
    /\ ping = [c \in Conn |-> "off"]
    /\ open = [c \in Conn |-> FALSE]
    /\ age = [c \in Conn |-> 0]
    /\ client = [c \in Conn |-> "off"]
    /\ pipe = [c \in Conn |-> 0]
    /\ pinged = [c \in Conn |-> FALSE]
    /\ pong = [c \in Conn |-> FALSE]
    /\ patience = [c \in Conn |-> 0]
    /\ requests = 0
    /\ faults = 0
    /\ troubled = {}

\* Reading from and writing to the connection fail.
Broken(c) == ~open[c] \/ client[c] = "closed"

-----------------------------------------------------------------------------
(* The handler                                                             *)

\* The handler begins to write to some clients, in any order.
Writes(c, clients, now) ==
    /\ at' = [at EXCEPT ![c] = now]
    /\ \E r \in clients :
        /\ cur' = [cur EXCEPT ![c] = r]
        /\ todo' = [todo EXCEPT ![c] = clients \ {r}]

\* HandleWS up to the first broadcast, which reaches the new client as well.
Register(c) ==
    /\ at[c] = "off"
    /\ registered' = registered \union {c}
    /\ Writes(c, registered', "serve")
    /\ ping' = [ping EXCEPT ![c] = "wait"]
    /\ open' = [open EXCEPT ![c] = TRUE]
    /\ client' = [client EXCEPT ![c] = "up"]
    /\ UNCHANGED <<writer, age, patience, wireVars, boundVars, troubled>>

\* One client is written to, then the next.
NextClient(c) ==
    /\ UNCHANGED registered
    /\ IF todo[c] # {} THEN Writes(c, todo[c], at[c])
       ELSE /\ at' = [at EXCEPT ![c] = IF at[c] = "serve" THEN "read" ELSE "gone"]
            /\ cur' = [cur EXCEPT ![c] = NoOne]
            /\ UNCHANGED todo

\* sendClient.  The lock is taken and released around a write that does not
\* block in one step; a list that a client reads at once leaves no trace.
Full(r) == ~Broken(r) /\ pipe[r] = Capacity
MayLock(r) == writer[r] = NoOne
Holds(c) == cur[c] # NoOne /\ writer[cur[c]] = c

KeepsLock(r) == IF Broken(r) THEN writer ELSE [writer EXCEPT ![r] = NoOne]
Unlocked(r) == [writer EXCEPT ![r] = NoOne]

SendClient(c) ==
    /\ cur[c] # NoOne
    /\ MayLock(cur[c]) \/ Holds(c)
    /\ ~Full(cur[c])
    /\ pipe' = IF Broken(cur[c]) \/ client[cur[c]] = "up" THEN pipe
               ELSE [pipe EXCEPT ![cur[c]] = @ + 1]
    /\ writer' = Unlocked(cur[c])
    /\ NextClient(c)
    /\ UNCHANGED <<ping, open, age, clientVars, pinged, pong, boundVars, troubled>>

SendBlocks(c) ==
    /\ cur[c] # NoOne
    /\ MayLock(cur[c])
    /\ Full(cur[c])
    /\ writer' = [writer EXCEPT ![cur[c]] = c]
    /\ UNCHANGED <<handlerVars, ping, open, age, clientVars, wireVars, boundVars, troubled>>

\* ReadJSON, which handles pongs on the way.  A deadline that has passed fails
\* it even if there is something to read.
Reading(c) == at[c] = "read" /\ age[c] < PongWait /\ ~Broken(c)

IgnorePong(c) == age
ResetAge(c) == [age EXCEPT ![c] = 0]

ReadPong(c) ==
    /\ Reading(c)
    /\ pong[c]
    /\ pong' = [pong EXCEPT ![c] = FALSE]
    /\ age' = ResetAge(c)
    /\ UNCHANGED <<handlerVars, writer, ping, open, clientVars, pipe, pinged, boundVars,
                   troubled>>

\* Any request whose handling writes to everyone: the endpoint, rooms.
ReadRequest(c) ==
    /\ Reading(c)
    /\ client[c] = "up"
    /\ requests < MaxRequests
    /\ requests' = requests + 1
    /\ Writes(c, registered, "serve")
    /\ UNCHANGED <<registered, writer, ping, open, age, clientVars, wireVars, faults,
                   troubled>>

NoDeadline(c) == Broken(c)
ReadError(c) == Broken(c) \/ age[c] >= PongWait

\* ReadJSON fails; the deferred functions run in reverse, close(done) first.
ReadFails(c) ==
    /\ at[c] = "read"
    /\ ReadError(c)
    /\ at' = [at EXCEPT ![c] = "closing"]
    /\ age' = [age EXCEPT ![c] = 0]
    /\ UNCHANGED <<registered, cur, todo, writer, ping, open, clientVars, wireVars,
                   boundVars, troubled>>

\* Remove, then the lists for those who remain.  The connection is not closed.
RemoveClient(c) ==
    /\ at[c] = "closing"
    /\ registered' = registered \ {c}
    /\ IF registered' # {} THEN Writes(c, registered', "bye")
       ELSE at' = [at EXCEPT ![c] = "gone"] /\ UNCHANGED <<cur, todo>>
    /\ UNCHANGED <<writer, ping, open, age, clientVars, wireVars, boundVars, troubled>>

HandlerStep(c) ==
    \/ SendClient(c) \/ SendBlocks(c)
    \/ ReadPong(c) \/ ReadFails(c)
    \/ RemoveClient(c)

-----------------------------------------------------------------------------
(* The ping goroutine                                                      *)

PingerVars == <<handlerVars, age, clientVars, pipe, boundVars, troubled>>

Done(c) == at[c] \in {"closing", "bye", "gone"}

PingerStops(c) ==
    /\ ping[c] = "wait"
    /\ Done(c)
    /\ ping' = [ping EXCEPT ![c] = "off"]
    /\ UNCHANGED <<PingerVars, writer, open, pinged, pong>>

\* A ping is two bytes: it fits unless lists fill the buffer.  A client that
\* reads answers at once; the answer may take its time.
PingWritten(c) ==
    /\ \/ ping[c] = "due" /\ MayLock(c)
       \/ ping[c] = "write"
    /\ ~Broken(c) /\ ~Full(c)
    /\ IF client[c] = "up" /\ ~pinged[c]
       THEN pong' = [pong EXCEPT ![c] = ~Done(c)] /\ UNCHANGED pinged
       ELSE pinged' = [pinged EXCEPT ![c] = TRUE] /\ UNCHANGED pong
    /\ ping' = [ping EXCEPT ![c] = "wait"]
    /\ writer' = Unlocked(c)
    /\ UNCHANGED <<PingerVars, open>>

PingBlocks(c) ==
    /\ ping[c] = "due"
    /\ MayLock(c)
    /\ Full(c)
    /\ ping' = [ping EXCEPT ![c] = "write"]
    /\ writer' = [writer EXCEPT ![c] = Pinger]
    /\ UNCHANGED <<PingerVars, open, pinged, pong>>

\* serverWriteWait is less than a ping period; a client that reads needs less.
PingFails(c) ==
    /\ \/ ping[c] = "due" /\ MayLock(c) /\ Broken(c)
       \/ ping[c] = "write" /\ Broken(c)
       \/ ping[c] = "write" /\ Full(c) /\ client[c] # "up"
    /\ open' = [open EXCEPT ![c] = FALSE]
    /\ ping' = [ping EXCEPT ![c] = "off"]
    /\ writer' = Unlocked(c)
    /\ UNCHANGED <<PingerVars, pinged, pong>>

PingerStep(c) == PingerStops(c) \/ PingWritten(c) \/ PingBlocks(c) \/ PingFails(c)

-----------------------------------------------------------------------------
(* The agent                                                               *)

AgentVars == <<handlerVars, writer, ping, open, age>>

\* messageLoop reads all there is; a ping is answered on the way.
AgentReads(c) ==
    /\ client[c] = "up" /\ open[c]
    /\ pipe[c] > 0 \/ pinged[c]
    /\ pipe' = [pipe EXCEPT ![c] = 0]
    /\ pinged' = [pinged EXCEPT ![c] = FALSE]
    /\ pong' = [pong EXCEPT ![c] = @ \/ (pinged[c] /\ ~Done(c))]
    /\ UNCHANGED <<AgentVars, clientVars, boundVars, troubled>>

\* A connection that is closed at this end, with what is under way on it.
Closed(c) ==
    /\ client' = [client EXCEPT ![c] = "closed"]
    /\ patience' = [patience EXCEPT ![c] = 0]
    /\ pipe' = [pipe EXCEPT ![c] = 0]
    /\ pinged' = [pinged EXCEPT ![c] = FALSE]
    /\ pong' = [pong EXCEPT ![c] = FALSE]

\* Its read deadline passes, or the server closed: Run closes the connection.
AgentEnds(c) ==
    /\ client[c] = "up"
    /\ patience[c] >= PongWait \/ ~open[c]
    /\ Closed(c)
    /\ UNCHANGED <<AgentVars, boundVars, troubled>>

AgentStep(c) == AgentReads(c) \/ AgentEnds(c)

\* Its machine sleeps or its process hangs; its network is gone; it quits.
Fails(c) ==
    /\ client[c] = "up"
    /\ faults < MaxFaults
    /\ faults' = faults + 1
    /\ troubled' = troubled \union {c}
    /\ UNCHANGED <<AgentVars, requests>>

Fault(c) ==
    /\ Fails(c)
    /\ \E state \in {"frozen", "vanished"} : client' = [client EXCEPT ![c] = state]
    /\ UNCHANGED <<patience, wireVars>>

Quits(c) == Fails(c) /\ Closed(c)

Thaw(c) ==
    /\ client[c] = "frozen"
    /\ client' = [client EXCEPT ![c] = "up"]
    /\ UNCHANGED <<AgentVars, patience, wireVars, boundVars, troubled>>

\* TCP gives up on data that nobody acknowledges.
TCPFails(c) ==
    /\ client[c] = "vanished"
    /\ pipe[c] > 0 \/ pinged[c]
    /\ Closed(c)
    /\ UNCHANGED <<AgentVars, boundVars, troubled>>

-----------------------------------------------------------------------------
(* Time                                                                    *)

HandlerCanGo(c) ==
    \/ cur[c] # NoOne /\ (MayLock(cur[c]) \/ (Holds(c) /\ ~Full(cur[c])))
    \/ Reading(c) /\ pong[c]
    \/ at[c] = "read" /\ (Broken(c) \/ age[c] >= PongWait)
    \/ at[c] = "closing"

PingerCanGo(c) ==
    \/ ping[c] = "wait" /\ Done(c)
    \/ ping[c] = "due" /\ MayLock(c)
    \/ ping[c] = "write"

AgentCanGo(c) ==
    /\ client[c] = "up"
    /\ pipe[c] > 0 \/ pinged[c] \/ patience[c] >= PongWait \/ ~open[c]

Settled == \A c \in Conn : ~HandlerCanGo(c) /\ ~PingerCanGo(c) /\ ~AgentCanGo(c)

Older(n) == IF n < PongWait THEN n + 1 ELSE n

\* Every ping falls due.  A client's own ping was answered if its handler,
\* which answers it while reading, is not held up.
Tick ==
    /\ Settled
    /\ ping' = [c \in Conn |-> IF ping[c] = "wait" THEN "due" ELSE ping[c]]
    /\ age' = [c \in Conn |-> IF at[c] \in {"read", "serve"} THEN Older(age[c]) ELSE age[c]]
    /\ patience' = [c \in Conn |->
            CASE client[c] = "up" /\ at[c] = "read" -> 0
              [] client[c] = "up" /\ at[c] # "read" -> Older(patience[c])
              [] client[c] = "frozen" -> Older(patience[c])
              [] OTHER -> patience[c]]
    /\ troubled' = troubled \union {c \in Conn : at[c] \notin {"off", "read"}}
    /\ UNCHANGED <<handlerVars, writer, open, client, wireVars, boundVars>>

Next ==
    \/ Tick
    \/ \E c \in Conn :
        \/ Register(c) \/ HandlerStep(c) \/ PingerStep(c) \/ AgentStep(c)
        \/ ReadRequest(c) \/ Fault(c) \/ Quits(c) \/ Thaw(c) \/ TCPFails(c)

Spec == Init /\ [][Next]_vars

-----------------------------------------------------------------------------
(* Properties                                                              *)

HeartbeatTypeOK ==
    /\ registered \subseteq Conn
    /\ at \in [Conn -> {"off", "serve", "read", "closing", "bye", "gone"}]
    /\ cur \in [Conn -> Conn \union {NoOne}]
    /\ todo \in [Conn -> SUBSET Conn]
    /\ writer \in [Conn -> Conn \union {NoOne, Pinger}]
    /\ ping \in [Conn -> {"off", "wait", "due", "write"}]
    /\ open \in [Conn -> BOOLEAN]
    /\ age \in [Conn -> 0 .. PongWait]
    /\ client \in [Conn -> {"off", "up", "frozen", "vanished", "closed"}]
    /\ pipe \in [Conn -> 0 .. Capacity]
    /\ pinged \in [Conn -> BOOLEAN]
    /\ pong \in [Conn -> BOOLEAN]
    /\ patience \in [Conn -> 0 .. PongWait]
    /\ requests \in 0 .. MaxRequests
    /\ faults \in 0 .. MaxFaults
    /\ troubled \subseteq Conn

\* The heartbeat drops nobody who is well: unless its client failed or its
\* handler was held up by a write, a connection is neither given up by the
\* server nor by the agent, however pings, pongs, requests and lists cross
\* (the read deadlines of both sides against their ping periods).
HealthyAreKept ==
    \A c \in Conn \ troubled : ~Done(c) /\ client[c] \in {"off", "up"}

\* The one thing that holds a handler up for good: a list for a client that
\* is connected and does not read, for which sendClient has no deadline.
HeldUp(c) ==
    /\ cur[c] # NoOne
    /\ client[cur[c]] = "frozen"
    /\ pipe[cur[c]] = Capacity

Fairness ==
    /\ WF_vars(Tick)
    /\ \A c \in Conn :
        /\ WF_vars(HandlerStep(c)) /\ WF_vars(PingerStep(c))
        /\ WF_vars(AgentStep(c)) /\ WF_vars(TCPFails(c))

FairSpec == Spec /\ Fairness

\* A dead client is torn down "so its virtual IP / room membership are
\* released" (handler.go:91-92), unless its handler is held up.
DeadAreReleased ==
    \A c \in Conn :
        c \in registered /\ client[c] # "up" ~> c \notin registered \/ client[c] = "up" \/ HeldUp(c)

\* Handlers that write to each other's clients do not wait for each other for
\* ever: each gets to read its own connection again, unless it is held up.
HandlersReturn ==
    \A c \in Conn : cur[c] # NoOne ~> cur[c] = NoOne \/ HeldUp(c)

-----------------------------------------------------------------------------
(* A statement of the sources that does not hold.                          *)

\* The heartbeat detects "dead clients so their registration is released"
\* (handler.go:22-23): a connection whose client has ended leaves the registry.
EndedAreReleased ==
    \A c \in Conn : c \in registered /\ client[c] = "closed" ~> c \notin registered
=============================================================================
