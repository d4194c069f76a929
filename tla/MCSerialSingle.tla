--------------------------- MODULE MCSerialSingle ---------------------------
(***************************************************************************)
(* SerialPort with a single caller, in one of two ways: it keeps the port  *)
(* while the device comes and goes, or it opens and closes the port as it  *)
(* likes while the device stays.                                           *)
(***************************************************************************)
EXTENDS SerialPort, TLC

VARIABLE kept

\* A caller that keeps the port opens it and writes, but neither asks for it again nor
\* closes it; HeldCalls bounds its calls.
HeldCalls == 2

Kept ==
    \A c \in Callers : /\ pc'[c] # "closeWait"
                       /\ ~(pc[c] = "opened" /\ pc'[c] = "reset")
                       /\ calls'[c] <= HeldCalls

\* A steady device is there from the beginning to the end, and one read fails at most.
\* SteadyCalls bounds the calls of a caller whose read has failed: a caller that goes on
\* needs more epochs than MaxEpoch.
SteadyCalls == 4

Steady ==
    /\ UNCHANGED plugged
    /\ faults' <= 1
    /\ faults' = 1 => \A c \in Callers : calls'[c] <= SteadyCalls

SingleSpec ==
    /\ Init
    /\ kept \in BOOLEAN /\ (~kept => plugged)
    /\ [][Next /\ (IF kept THEN Kept ELSE Steady) /\ UNCHANGED kept]_<<vars, kept>>
    /\ Fairness

\* With a single caller, and as long as nothing has failed, one receiver at most reads the
\* port: ensure_open starts no second one.
OneReaderFaultless == faults = 0 => OneReader

\* When the port is kept, up to one loss of the device or one failed read, a receiver that
\* a later open has superseded leaves the port alone, as the comment on _open_epoch says.
\* Receivers are superseded there: two reconnect threads may be on the way at once, and
\* both open.  (After a second fault, or when the caller closes and opens, a receiver may
\* be superseded between its test of the epoch and its close.)
HandsOffOnce == [][kept /\ faults' <= 1 => SupersededLeaves]_<<vars, kept>>

\* A port whose caller has opened it and does not close it comes back for good after one
\* loss of the device or one failed read, once the device stays.
ReconnectsOnce == [](faults <= 1) => Reconnects
=============================================================================
