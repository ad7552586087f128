---------------------------- MODULE IdealWindow ----------------------------
(***************************************************************************)
(* What a session's receiver promises: it remembers every packet it ever   *)
(* accepted, accepts none twice and none older than Window below the       *)
(* highest, except that exactly Window below the highest it forgets.       *)
(***************************************************************************)
EXTENDS Naturals

CONSTANTS Window, MaxSend

VARIABLES sealed, highest, accepted, repeated

vars == <<sealed, highest, accepted, repeated>>

Init ==
    /\ sealed = 0
    /\ highest = 0
    /\ accepted = {}
    /\ repeated = {}

Send ==
    /\ sealed < MaxSend
    /\ sealed' = sealed + 1
    /\ UNCHANGED <<highest, accepted, repeated>>

Accept(c) ==
    /\ c < sealed
    /\ highest <= c + Window
    /\ c \in accepted => c + Window = highest
    /\ accepted' = accepted \union {c}
    /\ repeated' = IF c \in accepted THEN repeated \union {c} ELSE repeated
    /\ highest' = IF c > highest THEN c ELSE highest
    /\ UNCHANGED sealed

Next == Send \/ \E c \in 0 .. MaxSend : Accept(c)

Spec == Init /\ [][Next]_vars
=============================================================================
