------------------------------- MODULE MCParts -------------------------------
(***************************************************************************)
(* Eight parts that share no state, one at a time: focus says which.       *)
(* Settings with the server's properties, the launcher's list and the      *)
(* identity share nothing but the process either, so that there is a focus *)
(* for each of these.  The registry is alone here, without handlers: three *)
(* addresses are fewer than the registrations, so that the search wraps    *)
(* around and reuses addresses.                                            *)
(***************************************************************************)
EXTENDS Registry, VirtualLan, PeerRoutes, VirtualNic, StunProbe, Shell,
        ReplayWindow, SavedFiles, TLC

CONSTANTS m1, m2, m3, p1, p2, p3, v1, v2

\* m1 and m2 share a physical LAN; p3 is p1 after a reconnection.
MCSegment == m1 :> 1 @@ m2 :> 1 @@ m3 :> 2
MCVipOf == p1 :> v1 @@ p2 :> v2 @@ p3 :> v1

VARIABLE focus

PartsInit ==
    /\ focus \in {"lan", "routes", "nic", "stun", "shell", "replay",
                 "settings", "list", "identity", "registry"}
    /\ LanInit /\ RoutesInit /\ NicInit /\ ProbeInit /\ ShellInit /\ ReplayInit
    /\ FilesInit /\ Init
    /\ focus # "routes" => osRoutes = {}
    /\ focus # "stun" =>
        nat = "symmetric" /\ honours /\ layout = "plain" /\ secondary
    /\ focus \notin {"settings", "list"} => ~had

\* Addresses are alike: those never given before come in order.
NewInOrder == \A m \in DOMAIN myVIP' \ up : myVIP'[m] <= agents'

\* A list only matters when a packet is about to be routed by it.
ListsInTime ==
    \A m \in DOMAIN behind \intersect DOMAIN behind' : behind'[m] # behind[m] =>
        \E p \in flying : p.at = m /\ p.via = "adapter" /\ p.pkt.port = "game"

Lan ==
    /\ focus = "lan" /\ LanNext /\ NewInOrder /\ ListsInTime
    /\ UNCHANGED <<focus, routeVars, nicVars, probeVars, shellVars, replayVars, fileVars,
                   registryVars>>
Routes ==
    /\ focus = "routes" /\ RoutesNext
    /\ UNCHANGED <<focus, lanVars, nicVars, probeVars, shellVars, replayVars, fileVars,
                   registryVars>>
Nic ==
    /\ focus = "nic" /\ NicNext
    /\ UNCHANGED <<focus, lanVars, routeVars, probeVars, shellVars, replayVars, fileVars,
                   registryVars>>
Probe ==
    /\ focus = "stun" /\ ProbeNext
    /\ UNCHANGED <<focus, lanVars, routeVars, nicVars, shellVars, replayVars, fileVars,
                   registryVars>>
Desktop ==
    /\ focus = "shell" /\ ShellNext
    /\ UNCHANGED <<focus, lanVars, routeVars, nicVars, probeVars, replayVars, fileVars,
                   registryVars>>
Replay ==
    /\ focus = "replay" /\ ReplayNext
    /\ UNCHANGED <<focus, lanVars, routeVars, nicVars, probeVars, shellVars, fileVars,
                   registryVars>>
Files ==
    /\ focus \in {"settings", "list", "identity"} /\ FilesNext
    /\ focus # "settings" => UNCHANGED <<configVars, propsVars>>
    /\ focus # "list" => UNCHANGED listVars
    /\ focus # "identity" => UNCHANGED keyVars
    /\ UNCHANGED <<focus, lanVars, routeVars, nicVars, probeVars, shellVars, replayVars,
                   registryVars>>
Rooms ==
    /\ focus = "registry" /\ Next
    /\ UNCHANGED <<focus, lanVars, routeVars, nicVars, probeVars, shellVars, replayVars,
                   fileVars>>

PartsNext == Lan \/ Routes \/ Nic \/ Probe \/ Desktop \/ Replay \/ Files \/ Rooms

PartsSpec ==
    /\ PartsInit
    /\ [][PartsNext]_<<focus, lanVars, routeVars, nicVars, probeVars, shellVars, replayVars,
                       fileVars, registryVars>>
    /\ focus = "shell" => ShellFairness
=============================================================================
