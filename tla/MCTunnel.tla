------------------------------ MODULE MCTunnel ------------------------------
(* Small instances of Tunnel: three settings of the network.               *)
EXTENDS Tunnel

Somebody == CHOOSE n \in Node : TRUE

\* One candidate address works, there is no relay and a whitelist changes.
OneReachable == [relay |-> FALSE, force |-> FALSE, patient |-> TRUE,
                 reach |-> {Somebody}, edits |-> MaxChanges, losses |-> MaxLost]

\* Only the relay works, and clients that keep each other out are owed nothing.
OnlyRelay == [relay |-> TRUE, force |-> FALSE, patient |-> TRUE,
              reach |-> {}, edits |-> 0, losses |-> MaxLost]

\* Every deadline may pass before anything arrives, and only one client lets
\* the other in.  What arrives need not, so losses would add nothing.
Hasty == [relay |-> TRUE, force |-> FALSE, patient |-> FALSE,
          reach |-> {Somebody}, edits |-> 0, losses |-> 0]

MCInit ==
    /\ Init
    /\ \/ paths = OneReachable
       \/ paths = OnlyRelay /\ \A n \in Node : friends[n]
       \/ paths = Hasty /\ \A n \in Node : friends[n] = (n = Somebody)

MCSpec == MCInit /\ [][Next]_vars /\ Fairness
=============================================================================
