------------------------------- MODULE Tunnel -------------------------------
(***************************************************************************)
(* Two clients' tunnels to each other (internal/p2p/tunnel.go), the relay  *)
(* they fall back to (internal/server/relay.go) and the datagrams between. *)
(*                                                                         *)
(* Both tunnels have an identity, as the agent always installs one, so     *)
(* handshakes are authenticated and data is sealed.  BeginConnect draws    *)
(* one ephemeral key per peer and peers are never removed, so two sessions *)
(* that exist have the same key.  handleFrame runs under Tunnel.mu, and    *)
(* punchLoop takes it for each look at the peer and each deadline.         *)
(*                                                                         *)
(* UDP: a datagram in net may arrive at any time, any number of times, or  *)
(* never.  A definition nothing uses, before another with the same         *)
(* parameters, is a faulty variant of it (the mutants of PROJECT.json).    *)
(***************************************************************************)
EXTENDS Naturals

CONSTANTS
    Node,          \* the two clients
    MaxChanges,    \* bound on whitelist changes in any setting
    MaxLost        \* bound on datagrams that go away for good in any setting

ASSUME NodeAssumption == \E a, b \in Node : a # b /\ Node = {a, b}
ASSUME BoundAssumption == MaxChanges \in Nat /\ MaxLost \in Nat

VARIABLES
    paths,     \* the setting, which never changes: did the server announce a
               \* relay (SetRelay), is it forced (SetForceRelay), do deadlines
               \* pass only for paths that do not work (patient), which clients
               \* do hellos to their candidates reach, and how many whitelist
               \* changes and losses are there at most
    state,     \* Peer.State, "unknown" before BeginConnect made the Peer
    relayed,   \* Peer.relayed
    remote,    \* is Peer.Remote set?
    session,   \* is Peer.session set?
    loop,      \* where punchLoop is
    friends,   \* does Tunnel.friends allow the peer: it is on it, or it is empty
    learned,   \* the relay's map of addresses (Registry.SetRelayAddr)
    net,       \* every datagram sent so far
    changes,   \* whitelist changes so far
    lost       \* datagrams lost so far

peerVars == <<state, relayed, remote, session>>
vars == <<paths, peerVars, loop, friends, learned, net, changes, lost>>

Other(n) == CHOOSE m \in Node : m # n

\* "quiet" is a frame that gets no answer: a pong, or sealed data.  "clear" is
\* data that was not sealed.
Type == {"hello", "helloAck", "ping", "quiet", "clear"}

\* A datagram is on its way to a candidate address of the peer, to an address
\* the peer was heard from, to the relay, or from the relay.
Path == {"punch", "direct", "up", "down"}
Announcement(n) == [typ |-> "announce", from |-> n, path |-> "up"]
Frame == {Announcement(n) : n \in Node}
            \union [typ : Type, from : Node, path : Path]

Paths == [relay : BOOLEAN, force : BOOLEAN, patient : BOOLEAN,
          reach : SUBSET Node, edits : 0 .. MaxChanges, losses : 0 .. MaxLost]

Init ==
    /\ paths \in Paths
    /\ state = [n \in Node |-> "unknown"]
    /\ relayed = [n \in Node |-> FALSE]
    /\ remote = [n \in Node |-> FALSE]
    /\ session = [n \in Node |-> FALSE]
    /\ loop = [n \in Node |-> "off"]
    /\ friends \in [Node -> BOOLEAN]
    /\ learned = {}
    \* Announce runs at registration, before any BeginConnect.
    /\ net = IF paths.relay THEN {Announcement(n) : n \in Node} ELSE {}
    /\ changes = 0
    /\ lost = 0

-----------------------------------------------------------------------------
(* Sending                                                                 *)

\* sendRelayFrame, and sendLocked when the peer is relayed.
ToRelay(n, typ) ==
    IF paths.relay THEN {[typ |-> typ, from |-> n, path |-> "up"]} ELSE {}

\* sendLocked over the path the peer has in the next state.
Reply(n, typ) ==
    IF relayed'[n] THEN ToRelay(n, typ)
    ELSE IF remote'[n] THEN {[typ |-> typ, from |-> n, path |-> "direct"]} ELSE {}

DataFrame(n) == IF session[n] THEN "quiet" ELSE "clear"

\* SendData, and SendDataBroadcast for this peer.
SendData(n) ==
    /\ state[n] = "connected"
    /\ UNCHANGED <<paths, peerVars, loop, friends, learned, changes, lost>>
    /\ net' = net \union Reply(n, DataFrame(n))

-----------------------------------------------------------------------------
(* BeginConnect and punchLoop                                              *)

BeginConnect(n) ==
    /\ state[n] = "unknown"
    /\ state' = [state EXCEPT ![n] = "connecting"]
    /\ relayed' = [relayed EXCEPT ![n] = paths.force]
    /\ loop' = [loop EXCEPT ![n] = "look"]
    /\ UNCHANGED <<paths, remote, session, friends, learned, net, changes, lost>>

\* The head of the loop: the peer is looked at, and a hello sent.
PunchLook(n) ==
    /\ loop[n] = "look"
    /\ \/ /\ state[n] # "connecting"
          /\ loop' = [loop EXCEPT ![n] = "off"]
          /\ UNCHANGED net
       \/ /\ state[n] = "connecting" /\ relayed[n]
          /\ loop' = [loop EXCEPT ![n] = "relay"]
          /\ net' = net \union ToRelay(n, "hello")
       \/ /\ state[n] = "connecting" /\ ~relayed[n]
          /\ loop' = [loop EXCEPT ![n] = "direct"]
          /\ net' = net \union {[typ |-> "hello", from |-> n, path |-> "punch"]}
    /\ UNCHANGED <<paths, peerVars, friends, learned, changes, lost>>

\* The sleep of a turn in which no deadline has passed.
PunchAgain(n) ==
    /\ loop[n] \in {"relay", "direct"}
    /\ loop' = [loop EXCEPT ![n] = "look"]
    /\ UNCHANGED <<paths, peerVars, friends, learned, net, changes, lost>>

AnyStateExpires(n) == ~relayed[n]
StillPunching(n) == state[n] = "connecting" /\ ~relayed[n]

\* directDeadline has passed: what was read at the head of the loop may be
\* out of date by now, so it is read again.
DirectDeadline(n) ==
    /\ loop[n] = "direct"
    /\ paths.patient => paths.reach = {}
    /\ IF ~StillPunching(n) THEN UNCHANGED <<state, relayed>>
       ELSE IF paths.relay
       THEN relayed' = [relayed EXCEPT ![n] = TRUE] /\ UNCHANGED state
       ELSE state' = [state EXCEPT ![n] = "failed"] /\ UNCHANGED relayed
    /\ loop' = [loop EXCEPT ![n] = "look"]
    /\ UNCHANGED <<paths, remote, session, friends, learned, net, changes, lost>>

\* relayDeadline has passed: here too the state is read again.
GivesUpAnyway(n) == TRUE
GivesUp(n) == state[n] = "connecting"

RelayDeadline(n) ==
    /\ loop[n] = "relay"
    /\ paths.patient => ~paths.relay
    /\ state' = IF GivesUp(n) THEN [state EXCEPT ![n] = "failed"] ELSE state
    /\ loop' = [loop EXCEPT ![n] = "off"]
    /\ UNCHANGED <<paths, relayed, remote, session, friends, learned, net, changes, lost>>

-----------------------------------------------------------------------------
(* handleFrame                                                             *)

\* The path is taken from every frame of a known peer, before it is examined.
\* Whoever was heard from can be answered there: NATs let replies in.
Arrives(n, f) ==
    /\ f \in net
    /\ f.from = Other(n)
    /\ f.path # "up"
    /\ f.path = "punch" => n \in paths.reach
    /\ state[n] # "unknown"
    /\ relayed' = [relayed EXCEPT ![n] = f.path = "down"]
    /\ remote' = [remote EXCEPT ![n] = @ \/ f.path # "down"]
    /\ UNCHANGED <<paths, loop, friends, learned, changes, lost>>

\* checkPeerStatic; an established session is not checked again.
AnyoneAllowed(n) == TRUE
Allowed(n) == friends[n]
HandshakeOK(n) == session[n] \/ Allowed(n)

ConnectUnkeyed(n) ==
    /\ state' = [state EXCEPT ![n] = "connected"]
    /\ UNCHANGED session

Connect(n) ==
    /\ state' = [state EXCEPT ![n] = "connected"]
    /\ session' = [session EXCEPT ![n] = TRUE]

RejectWithAck(n) ==
    /\ net' = net \union Reply(n, "helloAck")
    /\ UNCHANGED <<state, session>>

Reject(n) == UNCHANGED <<state, session, net>>

AnswersOnce(n) ==
    IF state[n] = "connected" THEN {} ELSE Reply(n, "helloAck") \union Reply(n, "ping")
Answers(n) == Reply(n, "helloAck") \union Reply(n, "ping")

HandleHello(n, f) ==
    /\ f.typ = "hello"
    /\ Arrives(n, f)
    /\ IF HandshakeOK(n)
       THEN /\ Connect(n)
            /\ net' = net \union Answers(n)
       ELSE Reject(n)

HandleHelloAck(n, f) ==
    /\ f.typ = "helloAck"
    /\ Arrives(n, f)
    /\ IF HandshakeOK(n)
       THEN /\ Connect(n)
            /\ net' = IF state[n] = "connected" THEN net ELSE net \union Reply(n, "ping")
       ELSE Reject(n)

HandlePing(n, f) ==
    /\ f.typ = "ping"
    /\ Arrives(n, f)
    /\ net' = net \union Reply(n, "quiet")
    /\ UNCHANGED <<state, session>>

\* A pong only logs; data goes to the virtual NIC or is dropped.
HandleOther(n, f) ==
    /\ f.typ \in {"quiet", "clear"}
    /\ Arrives(n, f)
    /\ UNCHANGED <<state, session, net>>

HandleFrame(n, f) ==
    HandleHello(n, f) \/ HandleHelloAck(n, f) \/ HandlePing(n, f) \/ HandleOther(n, f)

Forwards(f) == f.typ # "announce" /\ Other(f.from) \in learned

\* The relay learns the sender, and forwards if it knows the target.
Relay(f) ==
    /\ f \in net
    /\ f.path = "up"
    /\ learned' = learned \union {f.from}
    /\ net' = IF Forwards(f)
              THEN net \union {[f EXCEPT !.path = "down"]} ELSE net
    /\ UNCHANGED <<paths, peerVars, loop, friends, changes, lost>>

\* A datagram that never arrives makes no difference until it is sent again,
\* so losing one matters only to liveness.
Lose(f) ==
    /\ lost < paths.losses
    /\ net' = net \ {f}
    /\ lost' = lost + 1
    /\ UNCHANGED <<paths, peerVars, loop, friends, learned, changes>>

\* SetFriends, which the agent calls when its room's members change.
SetFriends(n) ==
    /\ changes < paths.edits
    /\ friends' = [friends EXCEPT ![n] = ~@]
    /\ changes' = changes + 1
    /\ UNCHANGED <<paths, peerVars, loop, learned, net, lost>>

Next ==
    \/ \E n \in Node :
        \/ BeginConnect(n)
        \/ PunchLook(n)
        \/ PunchAgain(n)
        \/ DirectDeadline(n)
        \/ RelayDeadline(n)
        \/ SendData(n)
        \/ SetFriends(n)
        \/ \E f \in net : HandleFrame(n, f)
    \/ \E f \in net : Relay(f) \/ Lose(f)

Spec == Init /\ [][Next]_vars

-----------------------------------------------------------------------------
(* Properties                                                              *)

TunnelTypeOK ==
    /\ paths \in Paths
    /\ state \in [Node -> {"unknown", "connecting", "connected", "failed"}]
    /\ relayed \in [Node -> BOOLEAN]
    /\ remote \in [Node -> BOOLEAN]
    /\ session \in [Node -> BOOLEAN]
    /\ loop \in [Node -> {"off", "look", "relay", "direct"}]
    /\ friends \in [Node -> BOOLEAN]
    /\ learned \subseteq Node
    /\ net \subseteq Frame
    /\ changes \in 0 .. paths.edits
    /\ lost \in 0 .. paths.losses

\* A connected peer can be sent to: a relayed one through a relay that has
\* learned both addresses, another one at an address it was heard from.  Else
\* sendLocked or the relay would drop its frames for good.
ConnectedCanSend ==
    \A n \in Node : state[n] = "connected" =>
        IF relayed[n] THEN paths.relay /\ learned = Node ELSE remote[n]

\* No datagram carries an IP packet in the clear, whichever of the two
\* handshake messages made the connection (sendLocked seals if p.session # nil).
DataIsSealed == \A f \in net : f.typ # "clear"

\* Handshakes are two-sided: whoever has a session has it with a peer that
\* began connecting too, and an acknowledgement comes from a peer that has one.
HandshakeIsTwoSided ==
    /\ \A n \in Node : session[n] => state[Other(n)] # "unknown"
    /\ \A f \in net : f.typ = "helloAck" => session[f.from]

\* A peer that the whitelist has kept out all along has no session here.
KeptOut ==
    changes = 0 => \A n \in Node : ~friends[n] => ~session[n]

\* The two tunnels implement a link that both ends must have begun, that each
\* end's whitelist must let in when it is made, and that no deadline or late
\* frame undoes (the state of a Peer, whoever of handleFrame and punchLoop
\* changes it).
Link == INSTANCE SecureLink WITH status <- state, allows <- friends

LinkSpec == Link!Spec

-----------------------------------------------------------------------------
(* Liveness.  The runtime schedules every punchLoop, the server signals    *)
(* BeginConnect to both, and what is not lost of the datagrams arrives     *)
(* (weak fairness; losses are bounded by MaxLost, so that a frame sent     *)
(* over and over gets through).  A deadline is met by some turn of the     *)
(* loop once it has passed (strong fairness), which it does only for paths *)
(* that do not work, in a patient setting.                                 *)

Fairness ==
    /\ \A n \in Node :
        /\ WF_vars(BeginConnect(n))
        /\ WF_vars(PunchLook(n) \/ PunchAgain(n))
        /\ SF_vars(DirectDeadline(n))
        /\ \A typ \in {"hello", "helloAck"} :
            /\ WF_vars(Relay([typ |-> typ, from |-> n, path |-> "up"]))
            /\ \A path \in Path \ {"up"} :
                WF_vars(HandleFrame(n, [typ |-> typ, from |-> Other(n), path |-> path]))

FairSpec == Spec /\ Fairness

\* When each allows the other and a path works, both get connected, whichever
\* hellos and acknowledgements were lost and whoever began first.
BothConnect ==
    (paths.patient /\ \A n \in Node : friends[n]) ~>
        (changes > 0 \/ \A n \in Node : state[n] = "connected")
=============================================================================
