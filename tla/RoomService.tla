---------------------------- MODULE RoomService ----------------------------
(***************************************************************************)
(* What the registry promises its callers about rooms, without connections,*)
(* registration numbers, addresses or lookup maps: an online user is in at *)
(* most one room, a room lives as long as somebody is in it, and a room    *)
(* that has members has one of them, an online one, as its host.           *)
(***************************************************************************)
CONSTANTS FP, Code, NoRoom, NoFP

VARIABLES online, roomOf, hostOf

vars == <<online, roomOf, hostOf>>

In(c) == {fp \in FP : roomOf[fp] = c}

Init ==
    /\ online = {}
    /\ roomOf = [fp \in FP |-> NoRoom]
    /\ hostOf = [c \in Code |-> NoFP]

Register(fp) ==
    /\ fp \notin online
    /\ online' = online \union {fp}
    /\ UNCHANGED <<roomOf, hostOf>>

Create(fp, c) ==
    /\ fp \in online
    /\ roomOf[fp] = NoRoom
    /\ In(c) = {}
    /\ roomOf' = [roomOf EXCEPT ![fp] = c]
    /\ hostOf' = [hostOf EXCEPT ![c] = fp]
    /\ UNCHANGED online

Join(fp, c) ==
    /\ fp \in online
    /\ roomOf[fp] = NoRoom
    /\ In(c) # {}
    /\ roomOf' = [roomOf EXCEPT ![fp] = c]
    /\ UNCHANGED <<online, hostOf>>

\* Leaving hands the room to some other member when the host goes.
Depart(fp) ==
    LET c == roomOf[fp]
        rest == In(c) \ {fp}
    IN  /\ c # NoRoom
        /\ roomOf' = [roomOf EXCEPT ![fp] = NoRoom]
        /\ IF hostOf[c] # fp THEN UNCHANGED hostOf
           ELSE \E heir \in IF rest = {} THEN {NoFP} ELSE rest :
                    hostOf' = [hostOf EXCEPT ![c] = heir]

Leave(fp) ==
    /\ fp \in online
    /\ Depart(fp)
    /\ UNCHANGED online

Disconnect(fp) ==
    /\ fp \in online
    /\ online' = online \ {fp}
    /\ IF roomOf[fp] = NoRoom THEN UNCHANGED <<roomOf, hostOf>> ELSE Depart(fp)

Next ==
    \E fp \in FP :
        \/ Register(fp)
        \/ Leave(fp)
        \/ Disconnect(fp)
        \/ \E c \in Code : Create(fp, c) \/ Join(fp, c)

Spec == Init /\ [][Next]_vars
=============================================================================
