------------------------------ MODULE VirtualNic ------------------------------
(***************************************************************************)
(* Closing the virtual network card while it is in use                     *)
(* (internal/vnic/vnic.go: Read, Release, Write, Close).                   *)
(*                                                                         *)
(* The session's ring is memory that Close unmaps.  Close waits for the    *)
(* goroutines inside Read, 100 ms at most; it does not know of those that  *)
(* write, or that still use a packet they have read.                       *)
(*                                                                         *)
(* A definition nothing uses, before another with the same parameters, is  *)
(* a faulty variant of it (the mutants of PROJECT.json).                   *)
(***************************************************************************)
EXTENDS Naturals, FiniteSets

CONSTANTS Reader, Writer

VARIABLES
    closed,    \* ad.closed
    event,     \* the session's read event
    ring,      \* packets waiting in the ring: none or some
    ended,     \* sess.End: the ring is gone
    reader,    \* where each reading goroutine is
    writer,    \* where each writing goroutine is
    closer,    \* where Close is
    waiting,   \* history: goroutines blocked in Read when Close began
    gaveUp,    \* history: the 100 ms passed
    trespass   \* history: readers that used the ring in ReceivePacket after End

nicVars == <<closed, event, ring, ended, reader, writer, closer, waiting, gaveUp, trespass>>

NicInit ==
    /\ closed = FALSE /\ event = FALSE /\ ring = FALSE /\ ended = FALSE
    /\ reader = [r \in Reader |-> "out"]
    /\ writer = [w \in Writer |-> "out"]
    /\ closer = "no"
    /\ waiting = {} /\ gaveUp = FALSE /\ trespass = {}

ReaderAt(r, now) == reader' = [reader EXCEPT ![r] = now]

\* Traffic arrives from the system; Wintun signals the event.
Arrives ==
    /\ ~ended /\ ~ring
    /\ ring' = TRUE
    /\ event' = TRUE
    /\ UNCHANGED <<closed, ended, reader, writer, closer, waiting, gaveUp, trespass>>

\* Read: the check of closed, and the counter, which is a step of its own.
Enter(r) ==
    /\ reader[r] = "out"
    /\ ReaderAt(r, IF closed THEN "gone" ELSE "entering")
    /\ UNCHANGED <<closed, event, ring, ended, writer, closer, waiting, gaveUp, trespass>>

Count(r) ==
    /\ reader[r] = "entering"
    /\ ReaderAt(r, "receive")
    /\ UNCHANGED <<closed, event, ring, ended, writer, closer, waiting, gaveUp, trespass>>

InRead(r) == reader[r] \in {"receive", "empty", "wait"}
Counted == {r \in Reader : InRead(r)}

\* ReceivePacket does not block.
ReceivePacket(r) ==
    /\ reader[r] = "receive"
    /\ trespass' = IF ended THEN trespass \union {r} ELSE trespass
    /\ ReaderAt(r, IF ring THEN "packet" ELSE "empty")
    /\ ring' = FALSE
    /\ UNCHANGED <<closed, event, ended, writer, closer, waiting, gaveUp>>

\* Nothing there: closed is checked again before the wait.
Empty(r) ==
    /\ reader[r] = "empty"
    /\ ReaderAt(r, IF closed THEN "gone" ELSE "wait")
    /\ UNCHANGED <<closed, event, ring, ended, writer, closer, waiting, gaveUp, trespass>>

\* The event resets itself when a wait ends.
Wake(r) ==
    /\ reader[r] = "wait"
    /\ event
    /\ event' = FALSE
    /\ ReaderAt(r, "receive")
    /\ UNCHANGED <<closed, ring, ended, writer, closer, waiting, gaveUp, trespass>>

\* forwardFromVnic and Release, after which it reads again.
Release(r) ==
    /\ reader[r] = "packet"
    /\ ReaderAt(r, "out")
    /\ UNCHANGED <<closed, event, ring, ended, writer, closer, waiting, gaveUp, trespass>>

\* Write: the check of closed, then the packet is copied into the ring.
WriteCheck(w) ==
    /\ writer[w] = "out"
    /\ ~closed
    /\ writer' = [writer EXCEPT ![w] = "copy"]
    /\ UNCHANGED <<closed, event, ring, ended, reader, closer, waiting, gaveUp, trespass>>

WriteCopy(w) ==
    /\ writer[w] = "copy"
    /\ writer' = [writer EXCEPT ![w] = "out"]
    /\ UNCHANGED <<closed, event, ring, ended, reader, closer, waiting, gaveUp, trespass>>

\* Close, once: the flag, the event, the wait, the end.
CloseBegins ==
    /\ closer = "no"
    /\ closed' = TRUE
    /\ closer' = "wake"
    /\ waiting' = Counted
    /\ UNCHANGED <<event, ring, ended, reader, writer, gaveUp, trespass>>

CloseWakes ==
    /\ closer = "wake"
    /\ event' = TRUE
    /\ closer' = "wait"
    /\ UNCHANGED <<closed, ring, ended, reader, writer, waiting, gaveUp, trespass>>

Unwaited == TRUE
ReadersLeft == Counted = {}

CloseEnds ==
    /\ closer = "wait"
    /\ \/ ReadersLeft /\ UNCHANGED gaveUp
       \/ ~ReadersLeft /\ gaveUp' = TRUE
    /\ ended' = TRUE
    /\ closer' = "done"
    /\ UNCHANGED <<closed, event, ring, reader, writer, waiting, trespass>>

NicNext ==
    \/ Arrives \/ CloseBegins \/ CloseWakes \/ CloseEnds
    \/ \E r \in Reader :
        Enter(r) \/ Count(r) \/ ReceivePacket(r) \/ Empty(r) \/ Wake(r) \/ Release(r)
    \/ \E w \in Writer : WriteCheck(w) \/ WriteCopy(w)

NicSpec == NicInit /\ [][NicNext]_nicVars

-----------------------------------------------------------------------------
(* Properties                                                              *)

\* "It is safe to call while a goroutine is blocked in Read" (vnic.go:94-98):
\* one that was in Read when Close began has left ReceivePacket before the
\* ring goes, unless it gets no processor for the 100 ms.  The comment does
\* not cover, and the code does not keep away from the ring: a goroutine
\* between Read's check and its count, one that uses or releases a packet it
\* has read, and one in Write.
WokenReaderIsSafe == ~gaveUp => waiting \intersect trespass = {}
=============================================================================
