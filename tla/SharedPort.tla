----------------------------- MODULE SharedPort -----------------------------
(***************************************************************************)
(* What the two programs of serialtcp/ have in common: one serial port,    *)
(* one server, and the threads of the server's clients as callers of the   *)
(* port.  PortService and CliService add what joins them: the callbacks of *)
(* the server and the threads that are the program's own.                  *)
(***************************************************************************)
EXTENDS Naturals, FiniteSets

CONSTANTS
    Conns,          \* TCP connections, and the threads of their clients
    Own,            \* the program's own threads that call the port
    NoOne,          \* nobody holds the lock; no connection, no timer
    Addr,           \* the peer address of each connection
    MaxEpoch, MaxRetry, MaxFaults, SlowThreads      \* as in SerialPort

Callers == Conns \cup Own

ASSUME SharedPortAssumption ==
    /\ MaxEpoch \in Nat /\ MaxRetry \in Nat /\ MaxFaults \in Nat
    /\ SlowThreads \in BOOLEAN
    /\ DOMAIN Addr = Conns
    /\ Conns \cap Own = {}
    /\ NoOne \notin Callers \cup 1 .. MaxRetry
    /\ Callers \cap 1 .. MaxRetry = {}

\* The serial port ...
VARIABLES plugged, faults, handle, isConnected, closeSet, epoch, lock, told, rx, rt,
          retries, retryThread, pc, target
\* ... and the server.
VARIABLES sock, stopFlag, clients, acc, accConn, conn, stop, peerGone, stopper, todo, asked

Port == INSTANCE SerialPort WITH
            MaxCalls <- 0, calls <- [c \in Callers |-> 0],
            Listed <- TRUE, CloseCanFail <- FALSE

\* No callback blocks for good.
Tcp == INSTANCE SerialServer WITH
            NoConn <- NoOne, MaxError <- 0, err <- [c \in Conns |-> 0], Stuck <- {}

portVars == <<plugged, faults, handle, isConnected, closeSet, epoch, lock, told, rx, rt,
              retries, retryThread, pc, target>>
tcpVars  == <<sock, stopFlag, clients, acc, accConn, conn, stop, peerGone, stopper, todo,
              asked>>

\* What the threads of the port do, once they have been started or called.
PortThreads ==
    \/ \E c \in Callers : Port!CallerStep(c)
    \/ \E e \in Port!Epochs : Port!RxStep(e)
    \/ \E r \in Port!Retries : Port!RtStep(r)

\* The loop of a client's thread.  Clients that end because of errors leave the loop as
\* those whose peer has gone do.
ClientStep(c) ==
    \/ Tcp!RecvEmpty(c) \/ Tcp!RecvTimeout(c) \/ Tcp!Turn(c)
    \/ Tcp!CloseClient(c) \/ Tcp!RemoveClient(c)

\* What the threads of the server do outside of its callbacks.
TcpThreads == Tcp!AcceptStep \/ Tcp!StopStep \/ \E c \in Conns : ClientStep(c)

\* Peers come and go.
Peers == \E c \in Conns : Tcp!Connect(c) \/ Tcp!PeerLeaves(c)
=============================================================================
