----------------------------- MODULE PortService -----------------------------
(***************************************************************************)
(* One running mapping: serialtcp/service.py with its SerialPort and its   *)
(* SerialServer.  The service opens the serial port for its consumers (TCP *)
(* clients and the integrated terminal) and closes it a grace period after *)
(* the last one has left.  The threads that meet in it: the Tk thread,     *)
(* which starts and stops the service and is the terminal; the client      *)
(* threads with the callbacks of the server; the linger timers.  The model *)
(* follows one start() to the end of one stop().                           *)
(***************************************************************************)
EXTENDS SharedPort

CONSTANTS
    Timers,         \* bound on the linger timers ever started, and their names
    Tk,             \* the thread of the user interface
    MaxLocal        \* bound on the times the terminal is connected

ASSUME PortServiceAssumption ==
    /\ Own = Timers \cup {Tk} /\ Tk \notin Timers
    /\ MaxLocal \in Nat

VARIABLES
    running,        \* _running
    local,          \* _local_client
    lingerTimer,    \* _linger_timer; NoOne is None
    timer,          \* state of each threading.Timer
    cb,             \* where a client thread is in its callback
    tk,             \* control point of the Tk thread
    locals          \* how often the terminal has been connected

linger  == <<lingerTimer, timer>>
service == <<running, local, linger, cb, tk, locals>>
vars    == <<portVars, tcpVars, service>>

CbStates == {"none", "open", "testLocal", "schedule", "return"}
TkStates == {"off", "starting", "idle", "lcCancel", "lcOpen", "lcWait", "ldCount",
             "ldSchedule", "stCancel", "stServer", "stWait", "stSerial", "stopped"}

TypeOK ==
    /\ Port!TypeOK
    /\ Tcp!TypeOK
    /\ running \in BOOLEAN
    /\ local \in BOOLEAN
    /\ lingerTimer \in Timers \cup {NoOne}
    /\ timer \in [Timers -> {"none", "armed", "cancelled", "fired", "closing", "done"}]
    /\ cb \in [Conns -> CbStates]
    /\ tk \in TkStates
    /\ locals \in 0 .. MaxLocal

Init ==
    /\ Port!Init
    /\ Tcp!Init
    /\ running = FALSE
    /\ local = FALSE
    /\ lingerTimer = NoOne
    /\ timer = [t \in Timers |-> "none"]
    /\ cb = [c \in Conns |-> "none"]
    /\ tk = "off"
    /\ locals = 0

CbGoes(c, from, to) == cb[c] = from /\ cb' = [cb EXCEPT ![c] = to]
TkGoes(from, to) == tk = from /\ tk' = to

clientCount  == IF running THEN Cardinality(clients) ELSE 0
hasConsumers == clientCount > 0 \/ local

-----------------------------------------------------------------------------
(***************************************************************************)
(* The grace period.  Each of these runs under _linger_lock from end to    *)
(* end.                                                                    *)
(***************************************************************************)

\* Timer.cancel() stops a timer that has not fired and is nothing to one that has.
Cancelled == [t \in Timers |->
                IF t = lingerTimer /\ timer[t] = "armed" THEN "cancelled" ELSE timer[t]]

\* Mutant: the attribute is left holding a marker instead of None.
CancelLingerMarker ==
    /\ timer' = Cancelled
    /\ lingerTimer' = Tk

CancelLinger ==
    /\ timer' = Cancelled
    /\ lingerTimer' = NoOne

\* A new timer unless the service is stopping.  Bound: there is a timer left.
ScheduleSerialClose ==
    IF ~running
    THEN CancelLinger
    ELSE \E t \in Timers :
            /\ timer[t] = "none"
            /\ timer' = [Cancelled EXCEPT ![t] = "armed"]
            /\ lingerTimer' = t

TimerFires(t) ==
    /\ timer[t] = "armed"
    /\ timer' = [timer EXCEPT ![t] = "fired"]
    /\ UNCHANGED <<portVars, tcpVars, running, local, lingerTimer, cb, tk, locals>>

\* Mutant: the timer closes without looking whether somebody has come meanwhile.
LingerCheckBlind(t) ==
    /\ timer[t] = "fired"
    /\ timer' = [timer EXCEPT ![t] = IF ~running THEN "done" ELSE "closing"]
    /\ lingerTimer' = NoOne
    /\ UNCHANGED <<portVars, tcpVars, running, local, cb, tk, locals>>

\* _linger_close up to the release of the lock: forget the timer, whichever it is, and look.
LingerCheck(t) ==
    /\ timer[t] = "fired"
    /\ timer' = [timer EXCEPT ![t] = IF ~running \/ hasConsumers THEN "done" ELSE "closing"]
    /\ lingerTimer' = NoOne
    /\ UNCHANGED <<portVars, tcpVars, running, local, cb, tk, locals>>

\* close() is called after the lock has been released.
LingerClose(t) ==
    /\ timer[t] = "closing"
    /\ timer' = [timer EXCEPT ![t] = "done"]
    /\ Port!CloseFlag(t)
    /\ UNCHANGED <<tcpVars, running, local, lingerTimer, cb, tk, locals>>

-----------------------------------------------------------------------------
(***************************************************************************)
(* The callbacks of a client thread                                        *)
(***************************************************************************)

\* _on_client_connect: cancel the timer ...
ConnectCancel(c) ==
    /\ conn[c] = "connecting"
    /\ CbGoes(c, "none", "open")
    /\ CancelLinger
    /\ UNCHANGED <<portVars, tcpVars, running, local, tk, locals>>

\* ... then ensure_open, which goes on in Port's steps of c ...
ConnectOpen(c) ==
    /\ CbGoes(c, "open", "return")
    /\ Port!EnsureOpen(c)
    /\ UNCHANGED <<tcpVars, running, local, linger, tk, locals>>

\* ... and back in SerialClient.run.
ConnectReturn(c) ==
    /\ CbGoes(c, "return", "none")
    /\ pc[c] = "opened"
    /\ Tcp!ConnectDone(c)
    /\ UNCHANGED <<portVars, running, local, linger, tk, locals>>

\* ... which its exception leaves without an end of the thread.
ConnectRaises(c) ==
    /\ CbGoes(c, "return", "none")
    /\ pc[c] = "failed"
    /\ Tcp!ConnectRaises(c)
    /\ UNCHANGED <<portVars, running, local, linger, tk, locals>>

\* Mutant: the leaving client is still counted.
DisconnectCountSelf(c) ==
    /\ conn[c] = "removed"
    /\ CbGoes(c, "none", IF clientCount = 1 THEN "testLocal" ELSE "return")
    /\ UNCHANGED <<portVars, tcpVars, running, local, linger, tk, locals>>

\* _on_client_disconnect: is anybody left on the server's register?
DisconnectCount(c) ==
    /\ conn[c] = "removed"
    /\ CbGoes(c, "none", IF clientCount = 0 THEN "testLocal" ELSE "return")
    /\ UNCHANGED <<portVars, tcpVars, running, local, linger, tk, locals>>

\* ... or at the terminal?
DisconnectTestLocal(c) ==
    /\ CbGoes(c, "testLocal", IF local THEN "return" ELSE "schedule")
    /\ UNCHANGED <<portVars, tcpVars, running, local, linger, tk, locals>>

DisconnectSchedule(c) ==
    /\ CbGoes(c, "schedule", "return")
    /\ ScheduleSerialClose
    /\ UNCHANGED <<portVars, tcpVars, running, local, tk, locals>>

DisconnectReturn(c) ==
    /\ CbGoes(c, "return", "none")
    /\ Tcp!DisconnectDone(c)
    /\ UNCHANGED <<portVars, running, local, linger, tk, locals>>

-----------------------------------------------------------------------------
(***************************************************************************)
(* The Tk thread                                                           *)
(***************************************************************************)

\* start(): the server accepts before _running is set.
StartServer ==
    /\ TkGoes("off", "starting")
    /\ Tcp!Run
    /\ UNCHANGED <<portVars, running, local, linger, cb, locals>>

StartRunning ==
    /\ TkGoes("starting", "idle")
    /\ running' = TRUE
    /\ UNCHANGED <<portVars, tcpVars, local, linger, cb, locals>>

\* connect_local().  Bound: the terminal is connected MaxLocal times.
ConnectLocal ==
    /\ TkGoes("idle", "lcCancel")
    /\ ~local
    /\ locals < MaxLocal
    /\ local' = TRUE
    /\ locals' = locals + 1
    /\ UNCHANGED <<portVars, tcpVars, running, linger, cb>>

ConnectLocalCancel ==
    /\ TkGoes("lcCancel", "lcOpen")
    /\ CancelLinger
    /\ UNCHANGED <<portVars, tcpVars, running, local, cb, locals>>

ConnectLocalOpen ==
    /\ TkGoes("lcOpen", "lcWait")
    /\ Port!EnsureOpen(Tk)
    /\ UNCHANGED <<tcpVars, running, local, linger, cb, locals>>

\* An exception of ensure_open is reported by Tk: _local_client is left set.
ConnectLocalReturn ==
    /\ TkGoes("lcWait", "idle")
    /\ pc[Tk] \in {"opened", "failed"}
    /\ UNCHANGED <<portVars, tcpVars, running, local, linger, cb, locals>>

\* disconnect_local()
DisconnectLocal ==
    /\ TkGoes("idle", "ldCount")
    /\ local
    /\ local' = FALSE
    /\ UNCHANGED <<portVars, tcpVars, running, linger, cb, locals>>

DisconnectLocalCount ==
    /\ TkGoes("ldCount", IF clientCount = 0 THEN "ldSchedule" ELSE "idle")
    /\ UNCHANGED <<portVars, tcpVars, running, local, linger, cb, locals>>

DisconnectLocalSchedule ==
    /\ TkGoes("ldSchedule", "idle")
    /\ ScheduleSerialClose
    /\ UNCHANGED <<portVars, tcpVars, running, local, cb, locals>>

\* stop()
Stop ==
    /\ TkGoes("idle", "stCancel")
    /\ running' = FALSE
    /\ local' = FALSE
    /\ UNCHANGED <<portVars, tcpVars, linger, cb, locals>>

StopCancel ==
    /\ TkGoes("stCancel", "stServer")
    /\ CancelLinger
    /\ UNCHANGED <<portVars, tcpVars, running, local, cb, locals>>

StopServer ==
    /\ TkGoes("stServer", "stWait")
    /\ Tcp!SetStop
    /\ UNCHANGED <<portVars, running, local, linger, cb, locals>>

\* Mutant: the serial port is closed while the server is still stopping.
StopSerialEarly ==
    /\ TkGoes("stWait", "stSerial")
    /\ Port!CloseFlag(Tk)
    /\ UNCHANGED <<tcpVars, running, local, linger, cb, locals>>

\* `finally`: the serial port is closed whether or not server.stop() raised.
StopSerial ==
    /\ TkGoes("stWait", "stSerial")
    /\ stopper \in {"stopped", "raised"}
    /\ Port!CloseFlag(Tk)
    /\ UNCHANGED <<tcpVars, running, local, linger, cb, locals>>

StopReturn ==
    /\ TkGoes("stSerial", "stopped")
    /\ pc[Tk] \in {"closed", "failed"}
    /\ UNCHANGED <<portVars, tcpVars, running, local, linger, cb, locals>>

-----------------------------------------------------------------------------
(***************************************************************************)
(* The steps of the components                                             *)
(***************************************************************************)

PortStep ==
    /\ PortThreads
    /\ UNCHANGED <<tcpVars, service>>

TcpStep ==
    /\ TcpThreads
    /\ UNCHANGED <<portVars, service>>

ClientCallback(c) ==
    \/ ConnectCancel(c) \/ ConnectOpen(c) \/ ConnectReturn(c) \/ ConnectRaises(c)
    \/ DisconnectCount(c) \/ DisconnectTestLocal(c) \/ DisconnectSchedule(c)
    \/ DisconnectReturn(c)

TimerStep(t) == TimerFires(t) \/ LingerCheck(t) \/ LingerClose(t)

\* What the Tk thread does once it has begun an operation.
TkStep ==
    \/ StartRunning
    \/ ConnectLocalCancel \/ ConnectLocalOpen \/ ConnectLocalReturn
    \/ DisconnectLocalCount \/ DisconnectLocalSchedule
    \/ StopCancel \/ StopServer \/ StopSerial \/ StopReturn

User == StartServer \/ ConnectLocal \/ DisconnectLocal \/ Stop

Network ==
    /\ Peers
    /\ UNCHANGED <<portVars, service>>

Device ==
    /\ Port!Environment
    /\ UNCHANGED <<tcpVars, service>>

Next ==
    \/ PortStep \/ TcpStep \/ TkStep
    \/ \E c \in Conns : ClientCallback(c)
    \/ \E t \in Timers : TimerStep(t)
    \/ User \/ Network \/ Device

Spec == Init /\ [][Next]_vars

\* Every started thread keeps running; user, network and device owe nothing.
Fairness ==
    /\ \A c \in Callers : WF_vars(Port!CallerStep(c) /\ UNCHANGED <<tcpVars, service>>)
    /\ \A e \in Port!Epochs : WF_vars(Port!RxStep(e) /\ UNCHANGED <<tcpVars, service>>)
    /\ \A r \in Port!Retries : WF_vars(Port!RtStep(r) /\ UNCHANGED <<tcpVars, service>>)
    /\ WF_vars(Tcp!AcceptStep /\ UNCHANGED <<portVars, service>>)
    /\ WF_vars(Tcp!StopStep /\ UNCHANGED <<portVars, service>>)
    /\ \A c \in Conns : WF_vars(ClientStep(c) /\ UNCHANGED <<portVars, service>>)
    /\ \A c \in Conns : WF_vars(ClientCallback(c))
    /\ \A t \in Timers : WF_vars(TimerStep(t))
    /\ WF_vars(TkStep)

FairSpec == Spec /\ Fairness

-----------------------------------------------------------------------------
(***************************************************************************)
(* Properties                                                              *)
(***************************************************************************)

\* Nobody uses the port and nobody is on the way to.
Idle ==
    /\ tk = "idle" /\ ~local
    /\ \A c \in Conns : conn[c] \in {"new", "dead"}

\* A reconnect thread that has passed its test of _close_set opens the port after a
\* close(), and nobody closes it again.  Until one is started: a running service without
\* consumers lets go of the device.
IdleCloses == <>[](Idle /\ retries = 0) => <>[](handle = "closed")

\* And when stop() has returned the port is closed and no thread is about to open it.
StopCloses ==
    retries = 0 /\ tk = "stopped" =>
        /\ handle = "closed"
        /\ \A c \in Callers : pc[c] \notin Port!OpenStates

\* A client that stays is served: the port is open and read once the device stays.
ConsumerIsServed ==
    (\E c \in Conns : <>[](conn[c] = "recv" /\ running /\ plugged)) => <>[]Port!Served
=============================================================================
