------------------------------ MODULE StunProbe ------------------------------
(***************************************************************************)
(* What an agent finds out about its NAT: DetectOn with its three round    *)
(* trips (internal/stun/detect.go), roundTrip and the parser               *)
(* (internal/stun/stun.go), and stunProbeOn (internal/agent/agent.go).     *)
(*                                                                         *)
(* The NAT and the two servers are the environment, chosen at the start.   *)
(* Datagrams are lost, repeated and delayed into a later round trip.       *)
(*                                                                         *)
(* A definition nothing uses, before another with the same parameters, is  *)
(* a faulty variant of it (the mutants of PROJECT.json).                   *)
(***************************************************************************)
EXTENDS Naturals

VARIABLES
    nat,        \* what the NAT is: "full_cone", "restricted_cone", "symmetric"
    honours,    \* does the primary server honour CHANGE-REQUEST?
    layout,     \* attributes of an answer: "plain"; "odd": one whose length is
                \* no multiple of four comes first; "short": an IPv6 address of
                \* less than sixteen bytes comes first
    secondary,  \* is there a second server?  ("" may not resolve)
    trip,       \* the round trip under way: 1, 2, 3; 4 when none is left
    asked,      \* requests that have been sent
    answers,    \* answers that may still arrive: [tx, port, alien]
    mapped,     \* ports the first two round trips returned; 0 is none
    result,     \* res.NAT
    spins       \* the parser does not come back

probeVars == <<nat, honours, layout, secondary, trip, asked, answers, mapped, result, spins>>
natVars == <<nat, honours, layout, secondary>>

ProbeInit ==
    /\ nat \in {"full_cone", "restricted_cone", "symmetric"}
    /\ honours \in BOOLEAN /\ secondary \in BOOLEAN
    /\ layout \in {"plain", "odd", "short"}
    /\ trip = 1
    /\ asked = {1}
    /\ answers = {}
    /\ mapped = <<0, 0>>
    /\ result = "unknown"
    /\ spins = FALSE

Unfinished == trip <= 3 /\ ~spins

\* A server answers a request; the first and third go to the primary, the
\* third asks for an answer from another address, which only a full cone NAT
\* lets through.  A symmetric NAT shows each server another port.
Port(tx) == IF nat = "symmetric" /\ tx = 2 THEN 2 ELSE 1

Answer(tx) ==
    /\ tx \in asked
    /\ LET alien == tx = 3 /\ honours
       IN  /\ alien => nat = "full_cone"
           /\ answers' = answers \union {[tx |-> tx, port |-> Port(tx), alien |-> alien]}
    /\ UNCHANGED <<natVars, trip, asked, mapped, result, spins>>

\* DetectOn after a round trip that returned an answer, and after one that
\* ended with its deadline.
NextTrip(tx) == IF tx = 1 /\ ~secondary THEN 3 ELSE tx + 1

Goes(to) == trip' = to /\ asked' = asked \union (IF to <= 3 THEN {to} ELSE {})

Returned(a) ==
    \/ /\ trip = 1
       /\ mapped' = <<a.port, 0>>
       /\ Goes(NextTrip(1))
       /\ UNCHANGED result
    \/ /\ trip = 2
       /\ mapped' = <<mapped[1], a.port>>
       /\ IF a.port # mapped[1]
          THEN result' = "symmetric" /\ Goes(4)
          ELSE Goes(3) /\ UNCHANGED result
    \/ /\ trip = 3
       /\ result' = IF a.alien THEN "full_cone" ELSE "restricted_cone"
       /\ Goes(4)
       /\ UNCHANGED mapped

TimedOut ==
    \/ trip = 1 /\ result' = "unreachable" /\ Goes(4)
    \/ trip = 2 /\ Goes(3) /\ UNCHANGED result
    \/ trip = 3 /\ result' = "restricted_cone" /\ Goes(4)

\* parseXORMappedAddress: the transaction must be this one.  Attributes are
\* taken as if they were never padded, so an odd one hides what follows, and
\* the branch for a short IPv6 address goes round without moving on.
AnyTransaction(a) == layout = "plain"
Parses(a) == a.tx = trip /\ layout = "plain"

ReadAnswer(a) ==
    /\ Unfinished
    /\ a \in answers
    /\ \/ answers' = answers \ {a}
       \/ UNCHANGED answers     \* a copy of it may come again
    /\ \/ Parses(a) /\ Returned(a) /\ UNCHANGED spins
       \/ /\ a.tx = trip /\ layout = "short"
          /\ spins' = TRUE
          /\ UNCHANGED <<trip, asked, mapped, result>>
       \/ /\ ~Parses(a) /\ ~(a.tx = trip /\ layout = "short")
          /\ UNCHANGED <<trip, asked, mapped, result, spins>>
    /\ UNCHANGED natVars

Deadline ==
    /\ Unfinished
    /\ TimedOut
    /\ UNCHANGED <<natVars, answers, mapped, spins>>

ProbeNext ==
    \/ \E tx \in 1 .. 3 : Answer(tx)
    \/ \E a \in answers : ReadAnswer(a)
    \/ Deadline

ProbeSpec == ProbeInit /\ [][ProbeNext]_probeVars

-----------------------------------------------------------------------------
(* Properties                                                              *)

\* The probe never claims more than is so, whatever is lost, repeated or late:
\* a symmetric NAT is reported if, and only if, there is one and the second
\* server's answer was read; a full cone only if there is one ("we can't tell
\* the sub-types apart and report the conservative label", detect.go:64-69).
NATRecognised ==
    /\ result = "symmetric" => nat = "symmetric"
    /\ result = "full_cone" => nat = "full_cone"
    /\ nat = "symmetric" /\ mapped[2] # 0 => result = "symmetric"
=============================================================================
