------------------------------ MODULE MCConsole ------------------------------
(***************************************************************************)
(* Console on a small instance, a receive thread and the terminal, and     *)
(* beside it LogFile.                                                      *)
(***************************************************************************)
EXTENDS Console, LogFile, TLC

CONSTANTS
    rx              \* the receive thread

OneEach == rx :> "rx" @@ Tk :> "tx"

FedBounds == [k \in Kinds |-> IF k = "rx" THEN 3 ELSE 1]

\* The console and the log file have nothing in common: a behaviour is about one of them.
NoLogFile == listed /\ ~running /\ ~asking /\ ~openFailed /\ handle = Off /\ logFile = Off
NoConsole == ~selected /\ notices = 0 /\ at[Tk] = "idle"

Apart ==
    \/ NoLogFile /\ ~button /\ Next /\ UNCHANGED logVars
    \/ NoConsole /\ LogNext /\ UNCHANGED vars

ApartInit == Init /\ LogInit

ApartSpec == ApartInit /\ [][Apart]_<<vars, logVars>>
=============================================================================
