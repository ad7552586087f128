---------------------------- MODULE ReplayProofs ----------------------------
(* Proofs about ReplayWindow, for every window width and number of packets.*)
EXTENDS ReplayWindow, TLAPS

\* What a packet that Open accepts looks like: it is new, or Window behind.
LEMMA AcceptedIsNewOrEdge ==
    ASSUME WindowTypeOK, SeenIsRecent, NEW c \in 0 .. MaxSend,
           OpenNewer(c) \/ OpenWithin(c)
    PROVE  /\ recv <= c + Window
           /\ c \in delivered => c + Window = recv
  <1>1. CASE OpenNewer(c)
    BY <1>1, WindowAssumption DEF OpenNewer, WindowTypeOK, SeenIsRecent, RecvIsHighest
  <1>2. CASE OpenWithin(c)
    <2>1. c <= recv /\ ~TooOld(c) /\ seen \intersect Bit(recv - c) = {}
      BY <1>2 DEF OpenWithin, Unseen
    <2>2. recv <= c + Window /\ recv - c \in Nat /\ recv - (recv - c) = c
      BY <2>1, WindowAssumption DEF TooOld, WindowTypeOK
    <2>3. SUFFICES ASSUME c \in delivered, c + Window # recv
                   PROVE  FALSE
      BY <2>2
    <2>4. recv - c \in Bits
      BY <2>2, <2>3, WindowAssumption DEF Bits, WindowTypeOK
    <2>5. recv - c \in seen
      BY <2>1, <2>2, <2>3, <2>4, WindowAssumption DEF SeenIsRecent, WindowTypeOK
    <2> QED
      BY <2>1, <2>4, <2>5 DEF Bit
  <1> QED
    BY <1>1, <1>2

-----------------------------------------------------------------------------
(* The inductive invariant is the type invariant with SeenIsRecent.        *)

\* A fresh session has an exact, empty bitmap.
LEMMA WindowInit == ReplayInit => WindowTypeOK /\ SeenIsRecent
  BY WindowAssumption DEF ReplayInit, WindowTypeOK, SeenIsRecent, RecvIsHighest, Bits

\* Shifting by the distance to the new highest counter and setting bit 0
\* keeps the bitmap exact.
LEMMA NewerKeeps ==
    ASSUME WindowTypeOK, SeenIsRecent, NEW c \in 0 .. MaxSend, OpenNewer(c)
    PROVE  WindowTypeOK' /\ SeenIsRecent'
  <1>1. c \in Nat /\ recv \in Nat /\ c > recv /\ c - recv \in Nat \ {0}
    BY DEF OpenNewer, WindowTypeOK
  <1>2. /\ recv' = c /\ send' = send
        /\ delivered' = delivered \union {c}
        /\ seen' = Shifted(c - recv) \union {0}
    BY DEF OpenNewer, Deliver
  <1>3. WindowTypeOK'
    <2>1. seen' \subseteq Bits
      BY <1>2, WindowAssumption DEF Shifted, Bits
    <2>2. again' \subseteq Nat
      BY <1>1 DEF OpenNewer, Deliver, WindowTypeOK
    <2> QED
      BY <1>1, <1>2, <2>1, <2>2 DEF WindowTypeOK
  <1>4. RecvIsHighest'
    BY <1>1, <1>2 DEF RecvIsHighest, SeenIsRecent, OpenNewer, WindowTypeOK
  <1>5. ASSUME NEW e \in Bits
        PROVE  e \in seen' <=> e <= c /\ c - e \in delivered'
    <2>1. CASE e = 0
      BY <1>1, <1>2, <2>1
    <2>2. CASE e # 0 /\ e < c - recv
      \* Between the old highest and the new one nothing was accepted.
      <3>1. e \notin Shifted(c - recv)
        BY <1>1, <2>2 DEF Shifted, WindowTypeOK, Bits
      <3>2. c - e \in Nat /\ c - e > recv /\ c - e # c
        BY <1>1, <2>2 DEF Bits
      <3>3. c - e \notin delivered'
        BY <1>1, <1>2, <3>2 DEF SeenIsRecent, RecvIsHighest, WindowTypeOK
      <3> QED
        BY <1>2, <2>2, <3>1, <3>3
    <2>3. CASE e # 0 /\ e >= c - recv
      \* The bit comes from e - (c - recv), which stood for the same counter.
      <3> DEFINE i == e - (c - recv)
      <3>1. i \in Bits /\ i + (c - recv) = e
        BY <1>1, <2>3, WindowAssumption DEF Bits
      <3>2. c - recv < Window
        BY <1>1, <2>3, WindowAssumption DEF Bits
      <3>3. e \in seen' <=> i \in seen
        <4>1. Shifted(c - recv) = {j + (c - recv) : j \in seen} \intersect Bits
          BY <1>1, <3>2, WindowAssumption DEF Shifted
        <4>2. ASSUME NEW j \in seen, j + (c - recv) = e
              PROVE  j = i
          BY <1>1, <4>2 DEF WindowTypeOK, Bits
        <4>3. e \in Shifted(c - recv) <=> i \in seen
          BY <3>1, <4>1, <4>2
        <4> QED
          BY <1>2, <2>3, <4>3
      <3>4. (i <= recv <=> e <= c) /\ (e <= c => recv - i = c - e)
        BY <1>1 DEF Bits
      <3>5. e <= c => c - e # c
        BY <1>1, <2>3 DEF Bits
      <3>6. i \in seen <=> i <= recv /\ recv - i \in delivered
        BY <3>1 DEF SeenIsRecent
      <3> QED
        BY <1>2, <3>3, <3>4, <3>5, <3>6
    <2> QED
      BY <2>1, <2>2, <2>3, <1>1 DEF Bits
  <1>6. seen' = {e \in Bits : e <= recv' /\ recv' - e \in delivered'}
    BY <1>2, <1>3, <1>5 DEF WindowTypeOK
  <1> QED
    BY <1>3, <1>4, <1>6 DEF SeenIsRecent

\* Setting the bit of a counter that is not the newest keeps the bitmap exact.
LEMMA WithinKeeps ==
    ASSUME WindowTypeOK, SeenIsRecent, NEW c \in 0 .. MaxSend, OpenWithin(c)
    PROVE  WindowTypeOK' /\ SeenIsRecent'
  <1>1. c \in Nat /\ recv \in Nat /\ c <= recv /\ recv - c \in Nat
    BY DEF OpenWithin, Unseen, WindowTypeOK
  <1>2. /\ recv' = recv /\ send' = send
        /\ delivered' = delivered \union {c}
        /\ seen' = seen \union Bit(recv - c)
    BY DEF OpenWithin, Deliver
  <1>3. WindowTypeOK'
    <2>1. seen' \subseteq Bits
      BY <1>2 DEF Bit, WindowTypeOK
    <2>2. again' \subseteq Nat
      BY <1>1 DEF OpenWithin, Deliver, WindowTypeOK
    <2> QED
      BY <1>1, <1>2, <2>1, <2>2 DEF WindowTypeOK
  <1>4. RecvIsHighest'
    <2>1. \A a \in delivered' : a <= recv' /\ a < send'
      BY <1>1, <1>2 DEF RecvIsHighest, SeenIsRecent, OpenWithin
    <2>2. recv' \in delivered' \/ (recv' = 0 /\ delivered' = {})
      BY <1>1, <1>2 DEF RecvIsHighest, SeenIsRecent
    <2> QED
      BY <2>1, <2>2 DEF RecvIsHighest
  <1>5. ASSUME NEW e \in Bits
        PROVE  e \in seen' <=> e <= recv /\ recv - e \in delivered'
    <2>1. e \in Bit(recv - c) <=> e <= recv /\ recv - e = c
      BY <1>1 DEF Bit, Bits
    <2> QED
      BY <1>2, <2>1 DEF SeenIsRecent
  <1>6. seen' = {e \in Bits : e <= recv' /\ recv' - e \in delivered'}
    BY <1>2, <1>3, <1>5 DEF WindowTypeOK
  <1> QED
    BY <1>3, <1>4, <1>6 DEF SeenIsRecent

\* Every Seal and Open keeps the bitmap exact.
LEMMA WindowStep == WindowTypeOK /\ SeenIsRecent /\ [ReplayNext]_replayVars
                        => WindowTypeOK' /\ SeenIsRecent'
  <1> SUFFICES ASSUME WindowTypeOK, SeenIsRecent, [ReplayNext]_replayVars
               PROVE  WindowTypeOK' /\ SeenIsRecent'
    OBVIOUS
  <1>1. CASE Seal
    <2>1. WindowTypeOK'
      BY <1>1, WindowAssumption DEF Seal, WindowTypeOK
    <2>2. RecvIsHighest'
      BY <1>1 DEF Seal, SeenIsRecent, RecvIsHighest, WindowTypeOK
    <2> QED
      BY <1>1, <2>1, <2>2 DEF Seal, SeenIsRecent
  <1>2. CASE \E c \in 0 .. MaxSend : OpenNewer(c)
    BY <1>2, NewerKeeps
  <1>3. CASE \E c \in 0 .. MaxSend : OpenWithin(c)
    BY <1>3, WithinKeeps
  <1>4. CASE UNCHANGED replayVars
    BY <1>4 DEF replayVars, WindowTypeOK, SeenIsRecent, RecvIsHighest
  <1> QED
    BY <1>1, <1>2, <1>3, <1>4 DEF ReplayNext

\* The bitmap is exact in every reachable state (Session.seen, Session.recv).
THEOREM BitmapIsExact == ReplaySpec => [](WindowTypeOK /\ SeenIsRecent)
  <1> QED
    BY WindowInit, WindowStep, PTL DEF ReplaySpec

-----------------------------------------------------------------------------
(* Consequences                                                            *)

\* No sealed packet that is at most Window late is lost to the replay check
\* (Open, crypto.go:161-163).
THEOREM ReorderingTolerated == ReplaySpec => []ReorderTolerated
  <1>1. WindowTypeOK /\ SeenIsRecent => ReorderTolerated
    <2> SUFFICES ASSUME WindowTypeOK, SeenIsRecent,
                        NEW c \in 0 .. MaxSend,
                        c \notin delivered, recv <= c + Window, c <= recv
                 PROVE  Unseen(c)
      BY DEF ReorderTolerated, WindowTypeOK
    <2>1. recv - (recv - c) = c
      BY DEF WindowTypeOK
    <2>2. recv - c \notin seen
      BY <2>1 DEF SeenIsRecent
    <2>3. ~TooOld(c)
      BY WindowAssumption DEF TooOld, WindowTypeOK
    <2> QED
      BY <2>2, <2>3 DEF Unseen, Bit
  <1> QED
    BY <1>1, BitmapIsExact, PTL

-----------------------------------------------------------------------------
(* The bitmap implements the receiver that remembers everything.           *)

\* An Open that succeeds is an acceptance of the ideal receiver.
LEMMA OpenIsAccept ==
    ASSUME WindowTypeOK, SeenIsRecent, NEW c \in 0 .. MaxSend,
           OpenNewer(c) \/ OpenWithin(c)
    PROVE  Ideal!Accept(c)
  <1>1. recv <= c + Window /\ (c \in delivered => c + Window = recv)
    BY AcceptedIsNewOrEdge
  <1>2. c < send /\ Deliver(c) /\ send' = send
    BY DEF OpenNewer, OpenWithin
  <1>3. recv' = IF c > recv THEN c ELSE recv
    BY DEF OpenNewer, OpenWithin, Unseen, WindowTypeOK
  <1> QED
    BY <1>1, <1>2, <1>3 DEF Ideal!Accept, Deliver

\* Session.seen and Session.recv do what remembering every accepted counter
\* would do.
THEOREM ReplayImplementsIdeal == ReplaySpec => IdealSpec
  <1>1. ReplayInit => Ideal!Init
    BY DEF ReplayInit, Ideal!Init
  <1>2. WindowTypeOK /\ SeenIsRecent /\ [ReplayNext]_replayVars => [Ideal!Next]_(Ideal!vars)
    <2> SUFFICES ASSUME WindowTypeOK, SeenIsRecent, [ReplayNext]_replayVars
                 PROVE  [Ideal!Next]_(Ideal!vars)
      OBVIOUS
    <2>1. CASE Seal
      BY <2>1 DEF Seal, Ideal!Next, Ideal!Send
    <2>2. CASE \E c \in 0 .. MaxSend : OpenNewer(c) \/ OpenWithin(c)
      BY <2>2, OpenIsAccept DEF Ideal!Next
    <2>3. CASE UNCHANGED replayVars
      BY <2>3 DEF replayVars, Ideal!vars
    <2> QED
      BY <2>1, <2>2, <2>3 DEF ReplayNext
  <1> QED
    BY <1>1, <1>2, BitmapIsExact, PTL DEF ReplaySpec, IdealSpec, Ideal!Spec

-----------------------------------------------------------------------------
(* How far AcceptedOnce can fail                                           *)

\* AcceptedOnce does not hold, but only at the edge: the one packet that may
\* be accepted again is that exactly Window behind the newest (Open compares
\* with recv-replayWindow, and the bit for it is none of the word's).
OnlyEdgeIsRepeated ==
    [][\A c \in delivered : OpenNewer(c) \/ OpenWithin(c) => c + Window = recv]_replayVars

\* So no packet of which the bitmap has a bit was accepted more than once.
RecentAcceptedOnce == \A c \in again : c + Window <= recv

\* What Open accepts again it had accepted Window packets before its newest.
LEMMA RepeatKeeps ==
    ASSUME WindowTypeOK, SeenIsRecent, RecentAcceptedOnce, [ReplayNext]_replayVars
    PROVE  RecentAcceptedOnce'
  <1>1. recv' >= recv /\ recv' \in Nat /\ recv \in Nat /\ Window \in Nat
    BY WindowAssumption, WindowStep DEF ReplayNext, Seal, OpenNewer, OpenWithin, replayVars, WindowTypeOK
  <1>2. CASE Seal \/ UNCHANGED replayVars
    BY <1>2 DEF Seal, replayVars, RecentAcceptedOnce
  <1>3. ASSUME NEW c \in 0 .. MaxSend, OpenNewer(c) \/ OpenWithin(c)
        PROVE  RecentAcceptedOnce'
    <2>1. again' = again \/ (c \in delivered /\ again' = again \union {c})
      BY <1>3 DEF OpenNewer, OpenWithin, Deliver
    <2>2. c \in delivered => c + Window = recv
      BY <1>3, AcceptedIsNewOrEdge
    <2> SUFFICES ASSUME NEW d \in again' PROVE d + Window <= recv'
      BY DEF RecentAcceptedOnce
    <2>3. CASE d \in again
      <3>1. d \in Nat /\ d + Window <= recv
        BY <2>3 DEF RecentAcceptedOnce, WindowTypeOK
      <3> QED
        BY <1>1, <3>1
    <2>4. CASE d = c /\ c \in delivered
      BY <1>1, <2>2, <2>4
    <2> QED
      BY <2>1, <2>3, <2>4
  <1> QED
    BY <1>2, <1>3 DEF ReplayNext

\* Whatever is repeated and reordered on the way, Session.Open accepts nothing
\* twice that is less than a window old.
THEOREM RepeatsAreAtTheEdge == ReplaySpec => OnlyEdgeIsRepeated /\ []RecentAcceptedOnce
  <1>1. WindowTypeOK /\ SeenIsRecent /\ [ReplayNext]_replayVars
            => [\A c \in delivered : OpenNewer(c) \/ OpenWithin(c) => c + Window = recv]_replayVars
    <2> SUFFICES ASSUME WindowTypeOK, SeenIsRecent,
                        NEW c \in delivered, OpenNewer(c) \/ OpenWithin(c)
                 PROVE  c + Window = recv
      OBVIOUS
    <2>1. c < send /\ c \in Nat /\ send \in Nat /\ send <= MaxSend
      BY WindowAssumption DEF OpenNewer, OpenWithin, WindowTypeOK
    <2>2. c \in 0 .. MaxSend
      BY <2>1, WindowAssumption
    <2> QED
      BY <2>2, AcceptedIsNewOrEdge
  <1>2. ReplayInit => RecentAcceptedOnce
    BY DEF ReplayInit, RecentAcceptedOnce
  <1>3. WindowTypeOK /\ SeenIsRecent /\ RecentAcceptedOnce /\ [ReplayNext]_replayVars
            => RecentAcceptedOnce'
    BY RepeatKeeps
  <1> QED
    BY <1>1, <1>2, <1>3, BitmapIsExact, PTL DEF ReplaySpec, OnlyEdgeIsRepeated
=============================================================================
