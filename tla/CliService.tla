----------------------------- MODULE CliService -----------------------------
(***************************************************************************)
(* The command line program: start_service of serialtcp/tcp_server.py.  It *)
(* joins the same serial port and server as PortService does, without a    *)
(* grace period: the client thread that sees nobody left closes the port   *)
(* itself.  The main thread starts the server, waits for a signal or for   *)
(* a client's exit command, and shuts both down, in that order.  What the  *)
(* callbacks do with the bytes is left out.                                *)
(***************************************************************************)
EXTENDS SharedPort

CONSTANTS
    Main            \* the main thread

ASSUME CliServiceAssumption == Own = {Main}

VARIABLES
    asksStop,       \* the list `stop` has an element
    cb,             \* where a client thread is in its callback
    main            \* control point of the main thread

program == <<asksStop, cb, main>>
vars    == <<portVars, tcpVars, program>>

\* Types; and a thread is inside the port only while its callback, or close(), goes on.
TypeOK ==
    /\ Port!TypeOK
    /\ Tcp!TypeOK
    /\ asksStop \in BOOLEAN
    /\ cb \in [Conns -> {"none", "opening", "closing", "return"}]
    /\ main \in {"off", "waiting", "leaving", "stopping", "closing", "ended", "raised"}
    /\ \A c \in Conns : pc[c] \notin Port!Resting => cb[c] \in {"opening", "return"}
    /\ pc[Main] \notin Port!Resting => main = "closing"

Init ==
    /\ Port!Init
    /\ Tcp!Init
    /\ asksStop = FALSE
    /\ cb = [c \in Conns |-> "none"]
    /\ main = "off"

CbGoes(c, from, to) == cb[c] = from /\ cb' = [cb EXCEPT ![c] = to]
MainGoes(from, to) == main = from /\ main' = to

-----------------------------------------------------------------------------
(***************************************************************************)
(* The callbacks of a client thread                                        *)
(***************************************************************************)

\* on_tcp_connect calls ensure_open, which goes on in Port's steps of c ...
ConnectOpen(c) ==
    /\ conn[c] = "connecting"
    /\ CbGoes(c, "none", "opening")
    /\ Port!EnsureOpen(c)
    /\ UNCHANGED <<tcpVars, asksStop, main>>

\* ... and sends its greetings, whether or not the port is open.
ConnectReturn(c) ==
    /\ CbGoes(c, "opening", "none")
    /\ pc[c] = "opened"
    /\ Tcp!ConnectDone(c)
    /\ UNCHANGED <<portVars, asksStop, main>>

\* ... or leaves SerialClient.run with its exception.
ConnectRaises(c) ==
    /\ CbGoes(c, "opening", "none")
    /\ pc[c] = "failed"
    /\ Tcp!ConnectRaises(c)
    /\ UNCHANGED <<portVars, asksStop, main>>

\* Mutant: the client that leaves counts itself.
DisconnectCountSelf(c) ==
    /\ conn[c] = "removed"
    /\ CbGoes(c, "none", IF Cardinality(clients) = 1 THEN "closing" ELSE "return")
    /\ UNCHANGED <<portVars, tcpVars, asksStop, main>>

\* Mutant: one client that is left does not count.
DisconnectCountOffByOne(c) ==
    /\ conn[c] = "removed"
    /\ CbGoes(c, "none", IF Cardinality(clients) <= 1 THEN "closing" ELSE "return")
    /\ UNCHANGED <<portVars, tcpVars, asksStop, main>>

\* on_tcp_disconnect: is anybody left on the server's register?
DisconnectCount(c) ==
    /\ conn[c] = "removed"
    /\ CbGoes(c, "none", IF clients = {} THEN "closing" ELSE "return")
    /\ UNCHANGED <<portVars, tcpVars, asksStop, main>>

DisconnectClose(c) ==
    /\ CbGoes(c, "closing", "return")
    /\ Port!CloseFlag(c)
    /\ UNCHANGED <<tcpVars, asksStop, main>>

\* Mutant: close() goes on in the background.
DisconnectReturnEarly(c) ==
    /\ CbGoes(c, "return", "none")
    /\ Tcp!DisconnectDone(c)
    /\ UNCHANGED <<portVars, asksStop, main>>

\* The thread ends when close() has returned, or raised.
DisconnectReturn(c) ==
    /\ CbGoes(c, "return", "none")
    /\ pc[c] \in Port!Resting
    /\ Tcp!DisconnectDone(c)
    /\ UNCHANGED <<portVars, asksStop, main>>

-----------------------------------------------------------------------------
(***************************************************************************)
(* The main thread                                                         *)
(***************************************************************************)

StartServer ==
    /\ MainGoes("off", "waiting")
    /\ Tcp!Run
    /\ UNCHANGED <<portVars, asksStop, cb>>

\* A signal, or the exit command in what a client has sent.
RequestStop ==
    /\ main = "waiting"
    /\ asksStop' = TRUE
    /\ UNCHANGED <<portVars, tcpVars, cb, main>>

\* The loop is left; the farewell to all clients changes nothing here.
Leave ==
    /\ MainGoes("waiting", "leaving")
    /\ asksStop
    /\ UNCHANGED <<portVars, tcpVars, asksStop, cb>>

StopServer ==
    /\ MainGoes("leaving", "stopping")
    /\ Tcp!SetStop
    /\ UNCHANGED <<portVars, asksStop, cb>>

\* Mutant: the serial port is closed while the server is still stopping.
ClosePortEarly ==
    /\ MainGoes("stopping", "closing")
    /\ Port!CloseFlag(Main)
    /\ UNCHANGED <<tcpVars, asksStop, cb>>

\* server.stop() has returned; when it has raised, the program ends without close().
ClosePort ==
    /\ stopper \in {"stopped", "raised"}
    /\ MainGoes("stopping", IF stopper = "stopped" THEN "closing" ELSE "raised")
    /\ IF stopper = "stopped" THEN Port!CloseFlag(Main) ELSE UNCHANGED portVars
    /\ UNCHANGED <<tcpVars, asksStop, cb>>

End ==
    /\ main = "closing"
    /\ pc[Main] \in {"closed", "failed"}
    /\ main' = IF pc[Main] = "closed" THEN "ended" ELSE "raised"
    /\ UNCHANGED <<portVars, tcpVars, asksStop, cb>>

-----------------------------------------------------------------------------
(***************************************************************************)
(* The steps of the components, while the program runs                     *)
(***************************************************************************)

Alive == main \notin {"ended", "raised"}

PortStep ==
    /\ PortThreads
    /\ UNCHANGED <<tcpVars, program>>

TcpStep ==
    /\ TcpThreads
    /\ UNCHANGED <<portVars, program>>

ClientCallback(c) ==
    \/ ConnectOpen(c) \/ ConnectReturn(c) \/ ConnectRaises(c)
    \/ DisconnectCount(c) \/ DisconnectClose(c) \/ DisconnectReturn(c)

MainStep == Leave \/ StopServer \/ ClosePort \/ End

Network ==
    /\ Peers
    /\ UNCHANGED <<portVars, program>>

Device ==
    /\ Port!Environment
    /\ UNCHANGED <<tcpVars, program>>

Next ==
    /\ Alive
    /\ \/ PortStep \/ TcpStep \/ MainStep
       \/ \E c \in Conns : ClientCallback(c)
       \/ StartServer \/ RequestStop \/ Network \/ Device

Spec == Init /\ [][Next]_vars

-----------------------------------------------------------------------------
(***************************************************************************)
(* Properties                                                              *)
(***************************************************************************)

\* A reconnect thread that has passed its test of _close_set opens the port after a
\* close(), and nobody closes it again.  Until one is started: when no client thread runs,
\* the device has been let go of, whichever client was the last and whoever opened or
\* closed the port meanwhile.
IdleClosed ==
    retries = 0 /\ (\A c \in Conns : conn[c] \in {"new", "backlog", "accepted", "dead"})
        => handle = "closed"

\* And when the program has ended the port is closed and no thread is about to open it.
EndCloses ==
    retries = 0 /\ main = "ended" =>
        /\ handle = "closed"
        /\ \A c \in Callers : pc[c] \notin Port!OpenStates

\* A client in its loop has the device: it is open and somebody reads it.
ClientIsServed ==
    \A c \in Conns : conn[c] = "recv" /\ main = "waiting" =>
        isConnected /\ handle = "live" /\ Port!RxAlive(epoch)
=============================================================================
