------------------------------ MODULE MCServer ------------------------------
(* Small instances of Server.  Connections are numbered, so only           *)
(* fingerprints and codes may be permuted.                                 *)
EXTENDS Server, TLC

CONSTANTS MaxFresh, SettledRequests

Symmetry == Permutations(FP) \union Permutations(Code)

\* A server in mid-life: connections 1 .. MaxSeq of different clients, all
\* reported public; the first two share a room hosted by the first and are
\* wired together; nothing is in flight.  Runs from here spend their bounds
\* on three clients changing rooms instead of on registering them.
Pair == {1, 2}

Settled(order, code) ==
    LET fps == {order[i] : i \in Pair}
        list == [fps |-> fps, host |-> order[1]]
    IN  /\ clients = [i \in Id |->
                        [fp |-> order[i], vip |-> FirstIP + i - 1, ep |-> "public"]]
        /\ byFP = [fp \in FP |-> CHOOSE i \in Id : order[i] = fp]
        /\ nextIP = NextAfter(FirstIP + MaxSeq - 1)
        /\ seq = MaxSeq
        /\ rooms = {code}
        /\ members = [c \in Code |-> IF c = code THEN fps ELSE {}]
        /\ host = [c \in Code |-> IF c = code THEN order[1] ELSE NoFP]
        /\ inRoom = [fp \in FP |-> IF fp \in fps THEN code ELSE NoRoom]
        /\ who = order
        /\ work = [i \in Id |-> << >>]
        /\ agent = [i \in Id |->
                IF i \in Pair
                THEN [on |-> TRUE, room |-> code, list |-> list, routes |-> Pair \ {i},
                      tried |-> Pair \ {i}, punch |-> Pair \ {i}]
                ELSE [on |-> TRUE, room |-> NoRoom, list |-> Nobody, routes |-> {},
                      tried |-> {}, punch |-> {}]]
        /\ up = [i \in Id |-> << >>]
        /\ requests = MaxRequests - SettledRequests
        /\ told = Pair
        /\ listed = Id
        /\ refused = {}

SettledInit ==
    \E order \in [Id -> FP], code \in Code :
        /\ \A i, j \in Id : order[i] = order[j] => i = j
        /\ Settled(order, code)

\* The same bounds for either start: a fresh server takes MaxFresh
\* registrations, a settled one SettledRequests requests.
MCNext == ServerNext /\ (seq' = seq \/ seq < MaxFresh)

MCSpec == (ServerInit \/ SettledInit) /\ [][MCNext]_vars
=============================================================================
