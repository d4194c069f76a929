------------------------------ MODULE EchoWrite ------------------------------
(***************************************************************************)
(* Writing with wait_echo, serialtcp/serial_port.py: send() writes one     *)
(* byte at a time, each when the receive thread has seen the echo of the   *)
(* one before or the time for it is up.  The two threads share lastbyte,   *)
(* without a lock.  The calls of send() come one after the other, under    *)
(* the port's lock, and are one sequence here.                             *)
(***************************************************************************)
EXTENDS Naturals, Sequences, SequencesExt

CONSTANTS
    Sent,           \* the bytes sent
    Nul,            \* the byte 0, which lastbyte holds as well before any other
    MaxWritten      \* bound on the bytes written

ASSUME EchoAssumption == Nul \in Sent /\ MaxWritten \in Nat

VARIABLES
    at,             \* where send() is; "idle" between two bytes and between two calls
    char,           \* the byte it has written
    lastbyte,       \* the last byte of what was received last
    onWay,          \* what the device has to echo and what is to be received, oldest first
    written,        \* history: how many bytes have been written
    late,           \* history: a wait ended without the echo
    strange         \* history: the device did something else than echo

echoVars == <<at, char, lastbyte, onWay, written, late, strange>>

EchoInit ==
    /\ at = "idle"
    /\ char = Nul
    /\ lastbyte = Nul
    /\ onWay = << >>
    /\ written = 0
    /\ late = FALSE
    /\ strange = FALSE

\* The next byte, of this call or of another; it is not waited for when it is 0.
Write(b) ==
    /\ at = "idle"
    /\ written < MaxWritten
    /\ written' = written + 1
    /\ char' = b
    /\ onWay' = Append(onWay, b)
    /\ at' = IF b = Nul THEN "idle" ELSE "wait"
    /\ UNCHANGED <<lastbyte, late, strange>>

\* The receive thread: of what has been read at a time only the last byte counts.
OnReceived(n) ==
    /\ n \in DOMAIN onWay
    /\ lastbyte' = onWay[n]
    /\ onWay' = SubSeq(onWay, n + 1, Len(onWay))
    /\ UNCHANGED <<at, char, written, late, strange>>

See ==
    /\ at = "wait" /\ lastbyte = char
    /\ at' = "seen"
    /\ UNCHANGED <<char, lastbyte, onWay, written, late, strange>>

\* Mutant: the echo that was seen stays.
GoOnKeeps ==
    /\ at = "seen"
    /\ at' = "idle"
    /\ UNCHANGED <<char, lastbyte, onWay, written, late, strange>>

\* Whatever the receive thread has stored since it was seen is forgotten too.
GoOn ==
    /\ at = "seen"
    /\ lastbyte' = Nul
    /\ at' = "idle"
    /\ UNCHANGED <<char, onWay, written, late, strange>>

TimeUp ==
    /\ at = "wait"
    /\ at' = "idle"
    /\ late' = TRUE
    /\ UNCHANGED <<char, lastbyte, onWay, written, strange>>

\* The device says something of its own, before or after an echo that is due, or keeps one back.
Speak(i, b) ==
    /\ Len(onWay) < MaxWritten
    /\ onWay' = InsertAt(onWay, i, b)
    /\ strange' = TRUE
    /\ UNCHANGED <<at, char, lastbyte, written, late>>

Swallow(i) ==
    /\ onWay' = RemoveAt(onWay, i)
    /\ strange' = TRUE
    /\ UNCHANGED <<at, char, lastbyte, written, late>>

EchoNext ==
    \/ \E b \in Sent : Write(b)
    \/ \E n \in 1 .. Len(onWay) : OnReceived(n) \/ Swallow(n)
    \/ See \/ GoOn \/ TimeUp
    \/ \E i \in 1 .. Len(onWay) + 1, b \in Sent : Speak(i, b)

EchoSpec == EchoInit /\ [][EchoNext]_echoVars

\* As long as the device echoes in time and does nothing else, a byte is written, and send()
\* returns, only when all before it have come back, whatever is read at a time and whether
\* bytes repeat.  Zeros are not waited for.
EchoPaced ==
    ~late /\ ~strange =>
        /\ \A i \in DOMAIN onWay : i < Len(onWay) => onWay[i] = Nul
        /\ at = "idle" => \A i \in DOMAIN onWay : onWay[i] = Nul
=============================================================================
