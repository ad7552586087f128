---------------------------- MODULE HeartbeatProofs ----------------------------
(***************************************************************************)
(* Theorems about Heartbeat, for any number of clients, buffers of any     *)
(* size and any read deadline of two ping periods or more, however clients *)
(* freeze, vanish, quit and come back: it drops nobody who is well, and    *)
(* handlers and ping goroutines never wait for each other in a circle.     *)
(***************************************************************************)
EXTENDS Heartbeat, TLAPS

\* A lock is held by the handler that writes to its client, or by the client's
\* ping goroutine in a write.
LocksOK ==
    /\ \A r \in Conn : writer[r] \in Conn => cur[writer[r]] = r
    /\ \A r \in Conn : writer[r] = Pinger <=> ping[r] = "write"
    /\ \A c \in Conn : at[c] \in {"off", "read", "closing", "gone"} => cur[c] = NoOne

\* A connection that is well: a ping that fell due is on its way, or back.
Well(c) ==
    /\ at[c] \in {"off", "serve", "read"}
    /\ age[c] \in {0, 1} /\ patience[c] = 0
    /\ at[c] # "off" => client[c] = "up" /\ open[c] /\ ping[c] # "off"
    /\ age[c] = 1 => ping[c] \in {"due", "write"} \/ pinged[c] \/ pong[c]

HeartInv ==
    /\ HeartbeatTypeOK
    /\ LocksOK
    /\ \A c \in Conn : at[c] = "off" => client[c] = "off" /\ ping[c] = "off" /\ age[c] = 0
    /\ \A c \in Conn \ troubled : Well(c)

\* A counter that stays below its bound.
LEMMA OlderIsNumber ==
    ASSUME NEW n \in 0 .. PongWait
    PROVE  Older(n) \in 0 .. PongWait
BY HeartbeatAssumption DEF Older

\* A function of connections in which one value is replaced.
LEMMA Replaced ==
    ASSUME NEW S, NEW f \in [Conn -> S], NEW c \in Conn, NEW v \in S
    PROVE  /\ [f EXCEPT ![c] = v] \in [Conn -> S]
           /\ [f EXCEPT ![c] = v][c] = v
           /\ \A d \in Conn \ {c} : [f EXCEPT ![c] = v][d] = f[d]
OBVIOUS

\* A handler that begins to write.
LEMMA WritesType ==
    ASSUME HeartbeatTypeOK, NEW c \in Conn, NEW clients \in SUBSET Conn,
           NEW now \in {"serve", "bye"}, Writes(c, clients, now)
    PROVE  /\ at' = [at EXCEPT ![c] = now]
           /\ at' \in [Conn -> {"off", "serve", "read", "closing", "bye", "gone"}]
           /\ cur' \in [Conn -> Conn \union {NoOne}] /\ cur'[c] # NoOne
           /\ \A d \in Conn \ {c} : cur'[d] = cur[d]
           /\ todo' \in [Conn -> SUBSET Conn]
BY HeartbeatAssumption DEF Writes, HeartbeatTypeOK

-----------------------------------------------------------------------------
(* Handlers                                                                *)

\* A new connection.
LEMMA RegisterKeeps ==
    ASSUME HeartInv, NEW c \in Conn, Register(c)
    PROVE  HeartInv'
<1>1. registered' \in SUBSET Conn
    BY DEF Register, HeartInv, HeartbeatTypeOK
<1>2. /\ at' = [at EXCEPT ![c] = "serve"]
      /\ at' \in [Conn -> {"off", "serve", "read", "closing", "bye", "gone"}]
      /\ cur' \in [Conn -> Conn \union {NoOne}] /\ cur'[c] # NoOne
      /\ \A d \in Conn \ {c} : cur'[d] = cur[d]
      /\ todo' \in [Conn -> SUBSET Conn]
    BY <1>1, WritesType DEF Register, HeartInv
<1>3. cur[c] = NoOne /\ at[c] = "off"
    BY DEF Register, HeartInv, LocksOK
<1>4. HeartbeatTypeOK'
    BY <1>1, <1>2 DEF Register, HeartInv, HeartbeatTypeOK, wireVars, boundVars
<1>5. LocksOK'
    BY <1>2, <1>3, HeartbeatAssumption
    DEF Register, HeartInv, HeartbeatTypeOK, LocksOK, wireVars, boundVars
<1> QED
    BY <1>2, <1>3, <1>4, <1>5
    DEF Register, HeartInv, HeartbeatTypeOK, Well, wireVars, boundVars

\* A list that is written.
LEMMA SendKeeps ==
    ASSUME HeartInv, NEW c \in Conn, SendClient(c)
    PROVE  HeartInv'
<1>1. cur[c] \in Conn /\ cur[c] # NoOne /\ at[c] \in {"serve", "bye"}
    BY DEF SendClient, HeartInv, HeartbeatTypeOK, LocksOK
<1>2. /\ at' \in [Conn -> {"off", "serve", "read", "closing", "bye", "gone"}]
      /\ \A d \in Conn \ {c} : at'[d] = at[d] /\ cur'[d] = cur[d]
      /\ at'[c] \in {at[c], IF at[c] = "serve" THEN "read" ELSE "gone"}
      /\ cur' \in [Conn -> Conn \union {NoOne}]
      /\ at'[c] \in {"off", "read", "closing", "gone"} => cur'[c] = NoOne
      /\ todo' \in [Conn -> SUBSET Conn] /\ registered' = registered
  <2>1. CASE todo[c] # {}
    <3>1. Writes(c, todo[c], at[c]) /\ todo[c] \in SUBSET Conn
      BY <2>1 DEF SendClient, NextClient, HeartInv, HeartbeatTypeOK
    <3>2. at' = [at EXCEPT ![c] = at[c]]
      BY <3>1 DEF Writes
    <3> QED
      <4>1. /\ at' \in [Conn -> {"off", "serve", "read", "closing", "bye", "gone"}]
            /\ cur' \in [Conn -> Conn \union {NoOne}] /\ cur'[c] # NoOne
            /\ \A d \in Conn \ {c} : cur'[d] = cur[d]
            /\ todo' \in [Conn -> SUBSET Conn]
        BY <1>1, <3>1, WritesType DEF HeartInv
      <4>2. at' = at /\ registered' = registered
        BY <3>2 DEF SendClient, NextClient, HeartInv, HeartbeatTypeOK
      <4> QED BY <1>1, <4>1, <4>2
  <2>2. CASE todo[c] = {}
    BY <1>1, <2>2 DEF SendClient, NextClient, HeartInv, HeartbeatTypeOK
  <2> QED BY <2>1, <2>2
<1>3. pipe' \in [Conn -> 0 .. Capacity]
  <2>1. pipe[cur[c]] \in 0 .. Capacity /\ Capacity \in Nat
    BY <1>1, HeartbeatAssumption DEF HeartInv, HeartbeatTypeOK
  <2>2. CASE UNCHANGED pipe
    BY <2>2 DEF HeartInv, HeartbeatTypeOK
  <2>3. CASE pipe' = [pipe EXCEPT ![cur[c]] = @ + 1] /\ ~Broken(cur[c])
    <3>1. pipe[cur[c]] + 1 \in 0 .. Capacity
      BY <2>1, <2>3 DEF SendClient, Full
    <3> QED BY <1>1, <2>3, <3>1, Replaced DEF HeartInv, HeartbeatTypeOK
  <2> QED BY <2>2, <2>3 DEF SendClient
<1>4. writer' = [writer EXCEPT ![cur[c]] = NoOne] /\ writer[cur[c]] \in {NoOne, c}
    BY DEF SendClient, Unlocked, MayLock, Holds
<1>5. HeartbeatTypeOK'
    BY <1>1, <1>2, <1>3, <1>4 DEF SendClient, HeartInv, HeartbeatTypeOK, clientVars, boundVars
<1>6. LocksOK'
    BY <1>1, <1>2, <1>4, HeartbeatAssumption DEF SendClient, HeartInv, HeartbeatTypeOK, LocksOK
<1> QED
    BY <1>1, <1>2, <1>5, <1>6 DEF SendClient, HeartInv, HeartbeatTypeOK, Well, clientVars

\* A write that blocks.
LEMMA SendBlocksKeeps ==
    ASSUME HeartInv, NEW c \in Conn, SendBlocks(c)
    PROVE  HeartInv'
<1>1. cur[c] \in Conn /\ writer[cur[c]] = NoOne /\ writer' = [writer EXCEPT ![cur[c]] = c]
    BY DEF SendBlocks, MayLock, HeartInv, HeartbeatTypeOK
<1>2. LocksOK'
    BY <1>1, HeartbeatAssumption DEF SendBlocks, handlerVars, HeartInv, HeartbeatTypeOK, LocksOK
<1> QED
    BY <1>1, <1>2 DEF SendBlocks, handlerVars, clientVars, wireVars, boundVars, HeartInv,
       HeartbeatTypeOK, Well

\* A pong, and a request.
LEMMA ReadKeeps ==
    ASSUME HeartInv, NEW c \in Conn, ReadPong(c) \/ ReadRequest(c)
    PROVE  HeartInv'
<1>1. CASE ReadPong(c)
    BY <1>1, HeartbeatAssumption DEF ReadPong, ResetAge, Reading, handlerVars, clientVars,
       boundVars, HeartInv, HeartbeatTypeOK, LocksOK, Well
<1>2. CASE ReadRequest(c)
  <2>1. registered \in SUBSET Conn
    BY DEF HeartInv, HeartbeatTypeOK
  <2>2. /\ at' = [at EXCEPT ![c] = "serve"] /\ at[c] = "read" /\ cur[c] = NoOne
        /\ at' \in [Conn -> {"off", "serve", "read", "closing", "bye", "gone"}]
        /\ cur' \in [Conn -> Conn \union {NoOne}] /\ cur'[c] # NoOne
        /\ \A d \in Conn \ {c} : cur'[d] = cur[d]
        /\ todo' \in [Conn -> SUBSET Conn]
    BY <1>2, <2>1, WritesType DEF ReadRequest, Reading, HeartInv, LocksOK
  <2>3. requests' \in 0 .. MaxRequests
    BY <1>2, HeartbeatAssumption DEF ReadRequest, HeartInv, HeartbeatTypeOK
  <2>4. HeartbeatTypeOK'
    BY <1>2, <2>2, <2>3 DEF ReadRequest, clientVars, wireVars, HeartInv, HeartbeatTypeOK
  <2>5. LocksOK'
    BY <1>2, <2>2, HeartbeatAssumption DEF ReadRequest, HeartInv, HeartbeatTypeOK, LocksOK
  <2> QED
    BY <1>2, <2>2, <2>4, <2>5 DEF ReadRequest, clientVars, wireVars, HeartInv,
       HeartbeatTypeOK, Well
<1> QED BY <1>1, <1>2

\* Reading fails, and the client is removed: only for one that is not well.
LEMMA EndKeeps ==
    ASSUME HeartInv, NEW c \in Conn, ReadFails(c) \/ RemoveClient(c)
    PROVE  HeartInv'
<1>1. CASE ReadFails(c)
  <2>1. c \in troubled
    BY <1>1, HeartbeatAssumption DEF ReadFails, ReadError, Broken, HeartInv, HeartbeatTypeOK, Well
  <2> QED
    BY <1>1, <2>1, HeartbeatAssumption DEF ReadFails, clientVars, wireVars, boundVars,
       HeartInv, HeartbeatTypeOK, LocksOK, Well
<1>2. CASE RemoveClient(c)
  <2>1. c \in troubled /\ cur[c] = NoOne /\ registered' \in SUBSET Conn
    BY <1>2 DEF RemoveClient, HeartInv, HeartbeatTypeOK, LocksOK, Well
  <2>2. /\ at' \in [Conn -> {"off", "serve", "read", "closing", "bye", "gone"}]
        /\ \A d \in Conn \ {c} : at'[d] = at[d] /\ cur'[d] = cur[d]
        /\ at'[c] \in {"bye", "gone"}
        /\ cur' \in [Conn -> Conn \union {NoOne}]
        /\ at'[c] = "gone" => cur'[c] = NoOne
        /\ todo' \in [Conn -> SUBSET Conn]
    <3>1. CASE registered' # {}
      BY <1>2, <2>1, <3>1, WritesType DEF RemoveClient, HeartInv, HeartbeatTypeOK
    <3>2. CASE registered' = {}
      BY <1>2, <2>1, <3>2 DEF RemoveClient, HeartInv, HeartbeatTypeOK
    <3> QED BY <3>1, <3>2
  <2>3. HeartbeatTypeOK'
    BY <1>2, <2>1, <2>2 DEF RemoveClient, clientVars, wireVars, boundVars, HeartInv,
       HeartbeatTypeOK
  <2>4. LocksOK'
    BY <1>2, <2>1, <2>2, HeartbeatAssumption DEF RemoveClient, HeartInv, HeartbeatTypeOK, LocksOK
  <2> QED
    BY <1>2, <2>1, <2>2, <2>3, <2>4 DEF RemoveClient, clientVars, wireVars, boundVars,
       HeartInv, HeartbeatTypeOK, Well
<1> QED BY <1>1, <1>2

-----------------------------------------------------------------------------
(* Ping goroutines                                                         *)

\* A ping goroutine stops only behind its handler, and closes nobody's
\* connection who is well.
LEMMA PingerKeeps ==
    ASSUME HeartInv, NEW c \in Conn, PingerStep(c)
    PROVE  HeartInv'
<1>1. CASE PingerStops(c)
  <2>1. c \in troubled
    BY <1>1 DEF PingerStops, Done, HeartInv, HeartbeatTypeOK, Well
  <2> QED
    BY <1>1, <2>1, HeartbeatAssumption DEF PingerStops, PingerVars, handlerVars, clientVars,
       boundVars, HeartInv, HeartbeatTypeOK, LocksOK, Well
<1>2. CASE PingWritten(c)
  <2>1. writer[c] \in {NoOne, Pinger} /\ writer' = [writer EXCEPT ![c] = NoOne]
    BY <1>2 DEF PingWritten, MayLock, Unlocked, HeartInv, LocksOK
  <2>2. ping' = [ping EXCEPT ![c] = "wait"] /\ ping[c] \in {"due", "write"}
    BY <1>2 DEF PingWritten
  <2>3. LocksOK'
    BY <1>2, <2>1, <2>2, HeartbeatAssumption DEF PingWritten, PingerVars, handlerVars, HeartInv,
       HeartbeatTypeOK, LocksOK
  <2>4. pong' \in [Conn -> BOOLEAN] /\ pinged' \in [Conn -> BOOLEAN]
    BY <1>2 DEF PingWritten, HeartInv, HeartbeatTypeOK, Done
  <2>5. HeartbeatTypeOK'
    BY <1>2, <2>1, <2>2, <2>4 DEF PingWritten, PingerVars, handlerVars, clientVars, boundVars,
       HeartInv, HeartbeatTypeOK
  <2>6. at[c] # "off"
    BY <2>2 DEF HeartInv
  <2>7. ASSUME NEW d \in Conn \ troubled PROVE Well(d)'
    BY <1>2, <2>2, <2>7 DEF PingWritten, PingerVars, handlerVars, clientVars, Done, HeartInv,
       HeartbeatTypeOK, Well
  <2> QED
    BY <1>2, <2>2, <2>3, <2>5, <2>6, <2>7 DEF PingWritten, PingerVars, handlerVars, clientVars,
       HeartInv, HeartbeatTypeOK
<1>3. CASE PingBlocks(c)
    BY <1>3, HeartbeatAssumption DEF PingBlocks, MayLock, PingerVars, handlerVars, clientVars,
       boundVars, HeartInv, HeartbeatTypeOK, LocksOK, Well
<1>4. CASE PingFails(c)
  <2>1. at[c] # "off" /\ c \in troubled
    BY <1>4 DEF PingFails, Broken, HeartInv, HeartbeatTypeOK, Well
  <2>2. writer[c] \in {NoOne, Pinger} /\ writer' = [writer EXCEPT ![c] = NoOne]
    BY <1>4 DEF PingFails, MayLock, Unlocked, HeartInv, LocksOK
  <2> QED
    BY <1>4, <2>1, <2>2, HeartbeatAssumption DEF PingFails, PingerVars, handlerVars, clientVars,
       boundVars, HeartInv, HeartbeatTypeOK, LocksOK, Well
<1> QED BY <1>1, <1>2, <1>3, <1>4 DEF PingerStep

-----------------------------------------------------------------------------
(* Clients and time                                                        *)

\* A client that has read, ended, failed or come back.
LEMMA ClientKeeps ==
    ASSUME HeartInv, NEW c \in Conn,
           AgentStep(c) \/ Fault(c) \/ Quits(c) \/ Thaw(c) \/ TCPFails(c)
    PROVE  HeartInv'
<1>1. at[c] # "off"
    BY DEF AgentStep, AgentReads, AgentEnds, Fault, Quits, Fails, Thaw, TCPFails, HeartInv
<1>2. UNCHANGED <<handlerVars, writer, ping, open, age>>
    BY DEF AgentStep, AgentReads, AgentEnds, Fault, Quits, Fails, Thaw, TCPFails, AgentVars,
       Closed
<1>3. LocksOK'
    BY <1>2 DEF HeartInv, LocksOK, handlerVars
<1>4. CASE AgentReads(c)
  <2>1. HeartbeatTypeOK'
    BY <1>2, <1>4, HeartbeatAssumption DEF AgentReads, handlerVars, clientVars, boundVars, Done,
       HeartInv, HeartbeatTypeOK
  <2>2. ASSUME NEW d \in Conn \ troubled PROVE Well(d)'
    BY <1>2, <1>4, <2>2 DEF AgentReads, handlerVars, clientVars, Done, HeartInv,
       HeartbeatTypeOK, Well
  <2> QED
    BY <1>2, <1>3, <1>4, <2>1, <2>2 DEF AgentReads, handlerVars, clientVars, HeartInv
<1>5. CASE AgentEnds(c) \/ TCPFails(c) \/ Quits(c)
  <2>1. Closed(c) /\ c \in troubled' /\ troubled \subseteq troubled'
    BY <1>1, <1>5, HeartbeatAssumption DEF AgentEnds, TCPFails, Quits, Fails, HeartInv,
       HeartbeatTypeOK, Well
  <2>2. faults' \in 0 .. MaxFaults /\ requests' = requests /\ troubled' \subseteq Conn
    BY <1>5, HeartbeatAssumption DEF AgentEnds, TCPFails, Quits, Fails, boundVars, HeartInv,
       HeartbeatTypeOK
  <2>3. HeartbeatTypeOK'
    BY <1>2, <2>1, <2>2, HeartbeatAssumption DEF Closed, handlerVars, HeartInv, HeartbeatTypeOK
  <2> QED
    BY <1>1, <1>2, <1>3, <2>1, <2>3 DEF Closed, handlerVars, HeartInv, HeartbeatTypeOK, Well
<1>6. CASE Fault(c) \/ Thaw(c)
  <2>1. /\ c \in troubled' /\ troubled \subseteq troubled'
        /\ UNCHANGED <<patience, wireVars>>
        /\ client' \in [Conn -> {"off", "up", "frozen", "vanished", "closed"}]
        /\ \A d \in Conn \ {c} : client'[d] = client[d]
    BY <1>1, <1>6 DEF Fault, Fails, Thaw, HeartInv, HeartbeatTypeOK, Well
  <2>2. faults' \in 0 .. MaxFaults /\ requests' = requests /\ troubled' \subseteq Conn
    BY <1>6, HeartbeatAssumption DEF Fault, Thaw, Fails, boundVars, HeartInv, HeartbeatTypeOK
  <2>3. HeartbeatTypeOK'
    BY <1>2, <2>1, <2>2 DEF handlerVars, wireVars, HeartInv, HeartbeatTypeOK
  <2> QED
    BY <1>1, <1>2, <1>3, <2>1, <2>3 DEF handlerVars, wireVars, HeartInv, HeartbeatTypeOK, Well
<1> QED BY <1>4, <1>5, <1>6 DEF AgentStep

\* When all is quiet no ping of a connection that is well is still under way.
LEMMA QuietMeansAnswered ==
    ASSUME HeartInv, Settled, NEW c \in Conn \ troubled, at[c] = "read"
    PROVE  age[c] = 0
<1>1. Well(c) /\ ~HandlerCanGo(c) /\ ~PingerCanGo(c) /\ ~AgentCanGo(c)
    BY DEF HeartInv, Settled
<1>2. client[c] = "up" /\ open[c] /\ ~Broken(c)
    BY <1>1 DEF Well, Broken
<1>3. ~pinged[c] /\ pipe[c] = 0
    BY <1>1, <1>2 DEF AgentCanGo, HeartInv, HeartbeatTypeOK
<1>4. ~pong[c]
    BY <1>1, <1>2, HeartbeatAssumption DEF HandlerCanGo, Reading, Well
<1>5. ping[c] # "write"
    BY <1>1 DEF PingerCanGo
<1>6. ping[c] # "due"
  <2> SUFFICES ASSUME ping[c] = "due" PROVE FALSE
    OBVIOUS
  <2>1. writer[c] \in Conn \union {Pinger}
    BY <1>1 DEF PingerCanGo, MayLock, HeartInv, HeartbeatTypeOK
  <2>2. writer[c] \in Conn
    BY <1>5, <2>1 DEF HeartInv, LocksOK
  <2>3. cur[writer[c]] = c /\ c # NoOne
    BY <2>2, HeartbeatAssumption DEF HeartInv, LocksOK
  <2>4. Holds(writer[c]) /\ ~Full(cur[writer[c]])
    BY <1>3, <2>3, HeartbeatAssumption DEF Holds, Full
  <2>5. HandlerCanGo(writer[c])
    BY <2>3, <2>4 DEF HandlerCanGo
  <2> QED BY <2>2, <2>5 DEF Settled
<1> QED BY <1>1, <1>3, <1>4, <1>5, <1>6 DEF Well

\* A ping period passes.
LEMMA TickKeeps ==
    ASSUME HeartInv, Tick
    PROVE  HeartInv'
<1>1. UNCHANGED <<handlerVars, writer, open, client, wireVars, boundVars>>
    BY DEF Tick
<1>2. HeartbeatTypeOK'
  <2>1. ping' \in [Conn -> {"off", "wait", "due", "write"}]
    BY DEF Tick, HeartInv, HeartbeatTypeOK
  <2>2. age' \in [Conn -> 0 .. PongWait]
    BY OlderIsNumber DEF Tick, HeartInv, HeartbeatTypeOK
  <2>3. patience' \in [Conn -> 0 .. PongWait]
    BY OlderIsNumber, HeartbeatAssumption DEF Tick, HeartInv, HeartbeatTypeOK
  <2>4. troubled' \subseteq Conn
    BY DEF Tick, HeartInv, HeartbeatTypeOK
  <2> QED
    BY <1>1, <2>1, <2>2, <2>3, <2>4 DEF handlerVars, wireVars, boundVars, HeartInv,
       HeartbeatTypeOK
<1>3. LocksOK'
    BY <1>1 DEF Tick, handlerVars, HeartInv, HeartbeatTypeOK, LocksOK
<1>4. ASSUME NEW c \in Conn \ troubled' PROVE Well(c)'
  <2>1. c \notin troubled /\ at[c] \in {"off", "read"} /\ Well(c)
    BY DEF Tick, HeartInv
  <2>2. CASE at[c] = "off"
    BY <1>1, <2>1, <2>2 DEF Tick, handlerVars, HeartInv, HeartbeatTypeOK, Well
  <2>3. CASE at[c] = "read"
    <3>1. age[c] = 0 /\ Older(0) = 1
      BY <2>1, <2>3, QuietMeansAnswered, HeartbeatAssumption DEF Tick, Older
    <3>2. age'[c] = 1 /\ patience'[c] = 0
      BY <2>1, <2>3, <3>1 DEF Tick, Well
    <3>3. ping'[c] \in {"due", "write"}
      BY <2>1, <2>3 DEF Tick, Well, HeartInv, HeartbeatTypeOK
    <3> QED BY <1>1, <2>1, <2>3, <3>2, <3>3 DEF handlerVars, Well
  <2> QED BY <2>1, <2>2, <2>3
<1> QED
    BY <1>1, <1>2, <1>3, <1>4 DEF Tick, handlerVars, HeartInv, HeartbeatTypeOK

\* Every step keeps the invariant.
LEMMA HeartStep == HeartInv /\ [Next]_vars => HeartInv'
<1> SUFFICES ASSUME HeartInv, [Next]_vars PROVE HeartInv'
    OBVIOUS
<1>1. CASE UNCHANGED vars
    BY <1>1 DEF vars, handlerVars, clientVars, wireVars, boundVars, HeartInv, HeartbeatTypeOK,
       LocksOK, Well
<1>2. CASE Tick
    BY <1>2, TickKeeps
<1>3. ASSUME NEW c \in Conn,
             \/ Register(c) \/ HandlerStep(c) \/ PingerStep(c) \/ AgentStep(c)
             \/ ReadRequest(c) \/ Fault(c) \/ Quits(c) \/ Thaw(c) \/ TCPFails(c)
      PROVE  HeartInv'
    BY <1>3, RegisterKeeps, SendKeeps, SendBlocksKeeps, ReadKeeps, EndKeeps, PingerKeeps,
       ClientKeeps DEF HandlerStep
<1> QED BY <1>1, <1>2, <1>3 DEF Next

\* HeartInv holds throughout.
LEMMA HeartAlways == Spec => []HeartInv
<1>1. Init => HeartInv
    BY HeartbeatAssumption DEF Init, HeartInv, HeartbeatTypeOK, LocksOK, Well
<1> QED
    BY <1>1, HeartStep, PTL DEF Spec

\* The heartbeat drops nobody who is well (serverPingPeriod, serverPongWait
\* and their counterparts in the agent).
THEOREM HeartbeatKeepsTheHealthy == Spec => []HealthyAreKept
<1>1. HeartInv => HealthyAreKept
    BY DEF HeartInv, HealthyAreKept, Well, Done
<1> QED
    BY <1>1, HeartAlways, PTL

-----------------------------------------------------------------------------
(* What holds goroutines up                                                *)

\* Every registration has a handler that will end it, and a ping goroutine or
\* a closed connection that will make that handler end; a handler that is to
\* write has a client to write to; and only clients that may yet read have
\* lists waiting.
DutyInv ==
    /\ \A c \in Conn : at[c] \in {"serve", "bye"} => cur[c] # NoOne
    /\ \A c \in Conn : c \in registered <=> at[c] \in {"serve", "read", "closing"}
    /\ \A c \in registered : at[c] = "closing" \/ ping[c] # "off" \/ ~open[c]
    /\ \A c \in Conn : open[c] => client[c] # "off"
    /\ \A c \in Conn : pipe[c] > 0 => client[c] \notin {"off", "closed"}

\* Before there is a connection there is no duty.
LEMMA DutyInit == Init => DutyInv
BY HeartbeatAssumption DEF Init, DutyInv

\* A handler that begins to write has a client to write to.
LEMMA WritesDuty ==
    ASSUME HeartInv, NEW c \in Conn, NEW clients \in SUBSET Conn,
           NEW now \in {"serve", "bye"}, Writes(c, clients, now)
    PROVE  /\ cur'[c] # NoOne /\ at'[c] = now
           /\ \A d \in Conn \ {c} : at'[d] = at[d] /\ cur'[d] = cur[d]
BY HeartbeatAssumption DEF Writes, HeartInv, HeartbeatTypeOK

\* A new connection is registered, served and pinged.
LEMMA RegisterDuty ==
    ASSUME HeartInv, DutyInv, NEW c \in Conn, Register(c)
    PROVE  DutyInv'
<1>1. registered' \in SUBSET Conn /\ registered' = registered \union {c}
    BY DEF Register, HeartInv, HeartbeatTypeOK
<1>2. /\ cur'[c] # NoOne /\ at'[c] = "serve"
      /\ \A d \in Conn \ {c} : at'[d] = at[d] /\ cur'[d] = cur[d]
    BY <1>1, WritesDuty DEF Register
<1>3. /\ ping'[c] = "wait" /\ open'[c] = TRUE /\ client'[c] = "up" /\ pipe' = pipe
      /\ \A d \in Conn \ {c} : ping'[d] = ping[d] /\ open'[d] = open[d] /\ client'[d] = client[d]
    BY DEF Register, wireVars, HeartInv, HeartbeatTypeOK
<1> QED
    BY <1>1, <1>2, <1>3 DEF DutyInv

\* Writing, blocking and reading keep the handler's duties.
LEMMA ServeDuty ==
    ASSUME HeartInv, DutyInv, NEW c \in Conn,
           SendClient(c) \/ SendBlocks(c) \/ ReadPong(c) \/ ReadRequest(c)
    PROVE  DutyInv'
<1>1. UNCHANGED <<registered, ping, open, client>>
    BY DEF SendClient, SendBlocks, ReadPong, ReadRequest, NextClient, handlerVars, clientVars
<1>2. CASE SendClient(c)
  <2>1. cur[c] \in Conn /\ cur[c] # NoOne /\ at[c] \in {"serve", "bye"}
    BY <1>2 DEF SendClient, HeartInv, HeartbeatTypeOK, LocksOK
  <2>2. /\ \A d \in Conn \ {c} : at'[d] = at[d] /\ cur'[d] = cur[d]
        /\ \/ at'[c] = at[c] /\ cur'[c] # NoOne
           \/ at'[c] = IF at[c] = "serve" THEN "read" ELSE "gone"
    <3>1. CASE todo[c] # {}
      <4>1. Writes(c, todo[c], at[c]) /\ todo[c] \in SUBSET Conn
        BY <1>2, <3>1 DEF SendClient, NextClient, HeartInv, HeartbeatTypeOK
      <4> QED BY <2>1, <4>1, WritesDuty
    <3>2. CASE todo[c] = {}
      BY <1>2, <2>1, <3>2 DEF SendClient, NextClient, HeartInv, HeartbeatTypeOK
    <3> QED BY <3>1, <3>2
  <2>3. \A d \in Conn : pipe'[d] = pipe[d] \/ (d = cur[c] /\ ~Broken(d))
    BY <1>2, <2>1 DEF SendClient, HeartInv, HeartbeatTypeOK
  <2> QED
    BY <1>1, <2>1, <2>2, <2>3 DEF DutyInv, Broken, HeartInv, HeartbeatTypeOK
<1>3. CASE SendBlocks(c) \/ ReadPong(c)
    BY <1>1, <1>3 DEF SendBlocks, ReadPong, handlerVars, wireVars, DutyInv
<1>4. CASE ReadRequest(c)
  <2>1. registered \in SUBSET Conn /\ at[c] = "read" /\ pipe' = pipe
    BY <1>4 DEF ReadRequest, Reading, wireVars, HeartInv, HeartbeatTypeOK
  <2>2. /\ cur'[c] # NoOne /\ at'[c] = "serve"
        /\ \A d \in Conn \ {c} : at'[d] = at[d] /\ cur'[d] = cur[d]
    BY <1>4, <2>1, WritesDuty DEF ReadRequest
  <2> QED BY <1>1, <2>1, <2>2 DEF DutyInv
<1> QED BY <1>2, <1>3, <1>4

\* A handler that ends takes its registration with it.
LEMMA EndDuty ==
    ASSUME HeartInv, DutyInv, NEW c \in Conn, ReadFails(c) \/ RemoveClient(c)
    PROVE  DutyInv'
<1>1. UNCHANGED <<ping, open, client, pipe>>
    BY DEF ReadFails, RemoveClient, clientVars, wireVars
<1>2. CASE ReadFails(c)
    BY <1>1, <1>2 DEF ReadFails, DutyInv, HeartInv, HeartbeatTypeOK
<1>3. CASE RemoveClient(c)
  <2>1. registered' = registered \ {c} /\ registered' \in SUBSET Conn /\ at[c] = "closing"
    BY <1>3 DEF RemoveClient, HeartInv, HeartbeatTypeOK
  <2>2. /\ \A d \in Conn \ {c} : at'[d] = at[d] /\ cur'[d] = cur[d]
        /\ \/ at'[c] = "bye" /\ cur'[c] # NoOne
           \/ at'[c] = "gone"
    <3>1. CASE registered' # {}
      BY <1>3, <2>1, <3>1, WritesDuty DEF RemoveClient
    <3>2. CASE registered' = {}
      BY <1>3, <3>2 DEF RemoveClient, HeartInv, HeartbeatTypeOK
    <3> QED BY <3>1, <3>2
  <2> QED BY <1>1, <2>1, <2>2 DEF DutyInv
<1> QED BY <1>2, <1>3

\* A ping goroutine leaves a registered connection only by closing it.
LEMMA PingerDuty ==
    ASSUME HeartInv, DutyInv, NEW c \in Conn, PingerStep(c)
    PROVE  DutyInv'
<1>1. UNCHANGED <<registered, at, cur, client, pipe>>
    BY DEF PingerStep, PingerStops, PingWritten, PingBlocks, PingFails, PingerVars, handlerVars,
       clientVars
<1>2. \A d \in Conn \ {c} : ping'[d] = ping[d] /\ open'[d] = open[d]
    BY DEF PingerStep, PingerStops, PingWritten, PingBlocks, PingFails, PingerVars, HeartInv,
       HeartbeatTypeOK
<1>3. \/ ping'[c] = "off" /\ Done(c) /\ open'[c] = open[c]
      \/ ping'[c] \in {"wait", "write"} /\ open'[c] = open[c]
      \/ ping'[c] = "off" /\ ~open'[c]
    BY DEF PingerStep, PingerStops, PingWritten, PingBlocks, PingFails, PingerVars, HeartInv,
       HeartbeatTypeOK
<1>4. registered \subseteq Conn
    BY DEF HeartInv, HeartbeatTypeOK
<1> QED BY <1>1, <1>2, <1>3, <1>4 DEF DutyInv, Done

\* What clients do, and time.
LEMMA ClientDuty ==
    ASSUME HeartInv, DutyInv,
           \/ Tick
           \/ \E c \in Conn : AgentStep(c) \/ Fault(c) \/ Quits(c) \/ Thaw(c) \/ TCPFails(c)
    PROVE  DutyInv'
<1>1. CASE Tick
  <2>1. \A c \in Conn : ping'[c] = "off" => ping[c] = "off"
    BY <1>1 DEF Tick
  <2> QED
    BY <1>1, <2>1 DEF Tick, handlerVars, wireVars, DutyInv, HeartInv, HeartbeatTypeOK
<1>2. ASSUME NEW c \in Conn, AgentStep(c) \/ Fault(c) \/ Quits(c) \/ Thaw(c) \/ TCPFails(c)
      PROVE  DutyInv'
  <2>1. UNCHANGED <<registered, at, cur, ping, open>>
    BY <1>2 DEF AgentStep, AgentReads, AgentEnds, Fault, Quits, Fails, Thaw, TCPFails,
       AgentVars, handlerVars
  <2>2. \A d \in Conn \ {c} : client'[d] = client[d] /\ pipe'[d] = pipe[d]
    BY <1>2 DEF AgentStep, AgentReads, AgentEnds, Fault, Quits, Fails, Thaw, TCPFails, Closed,
       clientVars, wireVars, HeartInv, HeartbeatTypeOK
  <2>3. \/ client'[c] \in {client[c], "closed"} /\ pipe'[c] = 0
        \/ client'[c] \in {"up", "frozen", "vanished"} /\ pipe'[c] = pipe[c]
    BY <1>2 DEF AgentStep, AgentReads, AgentEnds, Fault, Quits, Fails, Thaw, TCPFails, Closed,
       clientVars, wireVars, HeartInv, HeartbeatTypeOK
  <2> QED BY <2>1, <2>2, <2>3, HeartbeatAssumption DEF DutyInv, HeartInv, HeartbeatTypeOK
<1> QED BY <1>1, <1>2

\* Every step keeps the duties.
LEMMA DutyStep == HeartInv /\ DutyInv /\ [Next]_vars => DutyInv'
<1> SUFFICES ASSUME HeartInv, DutyInv, [Next]_vars PROVE DutyInv'
    OBVIOUS
<1>1. CASE UNCHANGED vars
    BY <1>1 DEF vars, handlerVars, clientVars, wireVars, DutyInv
<1> QED
    BY <1>1, RegisterDuty, ServeDuty, EndDuty, PingerDuty, ClientDuty DEF Next, HandlerStep

\* A client that does not read, and to which no more can be written.
Silent(r) == Full(r) /\ client[r] \in {"frozen", "vanished"}

\* No goroutine waits for another in a circle: when none can go on, each that
\* is to write is held up by a client that is silent itself.
WaitsEndAtClients ==
    Settled => \A c \in Conn :
        /\ cur[c] # NoOne => Silent(cur[c])
        /\ ping[c] \in {"due", "write"} => Silent(c)

\* Nor does a registration outlive its connection for any other reason: when
\* no goroutine can go on, the handler of one that is dead to it, closed or
\* past its read deadline, is itself writing to a silent client.
DeadAreHeldUp ==
    Settled => \A c \in registered : ReadError(c) => cur[c] # NoOne /\ Silent(cur[c])

\* Who holds the lock of a client when nobody can go on is writing to it, and
\* cannot because it is silent.
LEMMA HolderIsBlocked ==
    ASSUME HeartInv, DutyInv, Settled, NEW r \in Conn, writer[r] # NoOne
    PROVE  Silent(r)
<1>1. ping[r] # "write"
    BY DEF Settled, PingerCanGo
<1>2. PICK d \in Conn : writer[r] = d
    BY <1>1 DEF HeartInv, HeartbeatTypeOK, LocksOK
<1>3. cur[d] = r /\ r # NoOne
    BY <1>2, HeartbeatAssumption DEF HeartInv, LocksOK
<1>4. Full(r)
    BY <1>2, <1>3 DEF Settled, HandlerCanGo, Holds
<1>5. pipe[r] > 0 /\ open[r]
    BY <1>4, HeartbeatAssumption DEF Full, Broken
<1>6. client[r] \in {"frozen", "vanished"}
    BY <1>5 DEF Settled, AgentCanGo, DutyInv, HeartInv, HeartbeatTypeOK
<1> QED BY <1>4, <1>6 DEF Silent

\* Every wait for a lock ends at a client that does not read (writeMu, held by
\* handlers and ping goroutines that write to one another's clients).
THEOREM NoCircularWait == Spec => []WaitsEndAtClients
<1>1. HeartInv /\ DutyInv => WaitsEndAtClients
  <2> SUFFICES ASSUME HeartInv, DutyInv, Settled, NEW c \in Conn
               PROVE  /\ cur[c] # NoOne => Silent(cur[c])
                      /\ ping[c] \in {"due", "write"} => Silent(c)
    BY DEF WaitsEndAtClients
  <2>1. ASSUME cur[c] # NoOne PROVE Silent(cur[c])
    <3>1. cur[c] \in Conn /\ writer[cur[c]] # NoOne
      BY <2>1 DEF Settled, HandlerCanGo, MayLock, HeartInv, HeartbeatTypeOK
    <3> QED BY <3>1, HolderIsBlocked
  <2>2. ASSUME ping[c] \in {"due", "write"} PROVE Silent(c)
    <3>1. writer[c] # NoOne
      BY <2>2 DEF Settled, PingerCanGo, MayLock
    <3> QED BY <3>1, HolderIsBlocked
  <2> QED BY <2>1, <2>2
<1> QED BY <1>1, DutyInit, DutyStep, HeartAlways, PTL DEF Spec

\* A dead connection stays registered only behind a handler that is writing to
\* a client that does not read (the deferred Remove of HandleWS, and
\* sendClient without a deadline).
THEOREM OnlyTheSilentKeepTheDead == Spec => []DeadAreHeldUp
<1>1. HeartInv /\ DutyInv /\ WaitsEndAtClients => DeadAreHeldUp
  <2> SUFFICES ASSUME HeartInv, DutyInv, WaitsEndAtClients, Settled,
                      NEW c \in registered, ReadError(c)
               PROVE  cur[c] # NoOne /\ Silent(cur[c])
    BY DEF DeadAreHeldUp
  <2>1. c \in Conn /\ at[c] \in {"serve", "read", "closing"}
    BY DEF DutyInv, HeartInv, HeartbeatTypeOK
  <2>2. at[c] = "serve"
    BY <2>1 DEF Settled, HandlerCanGo, ReadError
  <2>3. cur[c] # NoOne
    BY <2>1, <2>2 DEF DutyInv
  <2> QED BY <2>1, <2>3 DEF WaitsEndAtClients
<1> QED BY <1>1, DutyInit, DutyStep, HeartAlways, NoCircularWait, PTL DEF Spec
=============================================================================
