---------------------------- MODULE ReplayWindow ----------------------------
(***************************************************************************)
(* Session.Seal at one end of a tunnel and Session.Open at the other       *)
(* (internal/crypto/crypto.go).  Between them lies UDP: whatever was       *)
(* sealed may arrive at any time, in any order, never, or repeatedly.      *)
(*                                                                         *)
(* The word Session.seen is the set of its bit numbers.  Its width and     *)
(* replayWindow are both Window (64 in the code).  Counters do not wrap:   *)
(* that takes 2^64 packets.  An Open that fails changes nothing.           *)
(*                                                                         *)
(* A definition nothing uses, before another with the same parameters, is  *)
(* a faulty variant of it (the mutants of PROJECT.json).                   *)
(***************************************************************************)
EXTENDS Naturals

CONSTANTS
    Window,    \* replayWindow, and the width of the bitmap
    MaxSend    \* bound on the packets sealed

ASSUME WindowAssumption == Window \in Nat \ {0} /\ MaxSend \in Nat

VARIABLES
    send,       \* sender's Session.send
    recv,       \* receiver's Session.recv
    seen,       \* receiver's Session.seen
    delivered,  \* history: counters Open accepted
    again       \* history: counters it accepted more than once

replayVars == <<send, recv, seen, delivered, again>>

Bits == 0 .. Window - 1

ReplayInit ==
    /\ send = 0
    /\ recv = 0
    /\ seen = {}
    /\ delivered = {}
    /\ again = {}

Seal ==
    /\ send < MaxSend
    /\ send' = send + 1
    /\ UNCHANGED <<recv, seen, delivered, again>>

-----------------------------------------------------------------------------
(* Open                                                                    *)

TooOldAtEdge(c) == c + Window <= recv
NeverTooOld(c) == FALSE
TooOld(c) == c + Window < recv

\* seen << d
Shifted(d) == IF d >= Window THEN {} ELSE {i + d : i \in seen} \intersect Bits

\* uint64(1) << d, which is 0 when d reaches the width of the word
Bit(d) == {d} \intersect Bits

Deliver(c) ==
    /\ delivered' = delivered \union {c}
    /\ again' = IF c \in delivered THEN again \union {c} ELSE again

OpenNewer(c) ==
    /\ c < send
    /\ c > recv
    /\ recv' = c
    /\ seen' = Shifted(c - recv) \union {0}
    /\ Deliver(c)
    /\ UNCHANGED send

\* The default case of the switch: a counter up to recv and not too old.
Unseen(c) == c <= recv /\ ~TooOld(c) /\ seen \intersect Bit(recv - c) = {}

OpenWithin(c) ==
    /\ c < send
    /\ Unseen(c)
    /\ seen' = seen \union Bit(recv - c)
    /\ Deliver(c)
    /\ UNCHANGED <<send, recv>>

ReplayNext ==
    \/ Seal
    \/ \E c \in 0 .. MaxSend : OpenNewer(c) \/ OpenWithin(c)

ReplaySpec == ReplayInit /\ [][ReplayNext]_replayVars

-----------------------------------------------------------------------------
(* Properties                                                              *)

WindowTypeOK ==
    /\ send \in 0 .. MaxSend
    /\ recv \in Nat
    /\ seen \subseteq Bits
    /\ delivered \subseteq Nat
    /\ again \subseteq Nat

\* recv is the highest counter accepted.
RecvIsHighest ==
    /\ \A c \in delivered : c <= recv /\ c < send
    /\ recv \in delivered \/ (recv = 0 /\ delivered = {})

\* However packets were reordered, lost and repeated, the bitmap says exactly
\* which of the Window newest counters were accepted (shift and bit of Open).
SeenIsRecent ==
    /\ RecvIsHighest
    /\ seen = {d \in Bits : d <= recv /\ recv - d \in delivered}

\* Reordering is tolerated (crypto.go:161-163): a sealed packet that was not
\* accepted yet and is at most Window behind the newest would be accepted.
ReorderTolerated ==
    \A c \in 0 .. MaxSend :
        /\ c < send /\ c \notin delivered /\ recv <= c + Window
        => c > recv \/ Unseen(c)

\* "counters within [recv-replayWindow, recv] that were already seen are
\* rejected, as are anything older" (crypto.go:257-258): no packet is accepted
\* twice.
AcceptedOnce == again = {}

\* The bounded bitmap does what remembering every accepted packet would do.
Ideal == INSTANCE IdealWindow WITH
    sealed <- send, highest <- recv, accepted <- delivered, repeated <- again

IdealSpec == Ideal!Spec
=============================================================================
