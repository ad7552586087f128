----------------------------- MODULE SecureLink -----------------------------
(***************************************************************************)
(* What two tunnels promise the clients they join, without datagrams,      *)
(* paths, keys and retries: an end is connected only once both have begun, *)
(* and in a moment in which it lets the other in; it may give up before,   *)
(* and still be connected by a late answer; and once it is connected,      *)
(* neither a deadline nor a changed whitelist takes that away.             *)
(***************************************************************************)
CONSTANT Node

VARIABLES status, allows

vars == <<status, allows>>

Init ==
    /\ status = [n \in Node |-> "unknown"]
    /\ allows \in [Node -> BOOLEAN]

Moves(n, from, to) ==
    /\ status[n] \in from
    /\ status' = [status EXCEPT ![n] = to]
    /\ UNCHANGED allows

Begin(n) == Moves(n, {"unknown"}, "connecting")

GiveUp(n) == Moves(n, {"connecting"}, "failed")

Connect(n) ==
    /\ allows[n]
    /\ \A m \in Node : status[m] # "unknown"
    /\ Moves(n, {"connecting", "failed"}, "connected")

ChangeMind(n) ==
    /\ allows' = [allows EXCEPT ![n] = ~@]
    /\ UNCHANGED status

Next == \E n \in Node : Begin(n) \/ GiveUp(n) \/ Connect(n) \/ ChangeMind(n)

Spec == Init /\ [][Next]_vars
=============================================================================
