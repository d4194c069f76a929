---------------------------- MODULE SerialServer ----------------------------
(***************************************************************************)
(* The TCP side of one mapping: serialtcp/server.py and client.py.  The    *)
(* accept thread takes connections from the listening socket, registers    *)
(* each as a client and starts its thread; a client thread reads until it  *)
(* is stopped, then takes itself off the register; another thread calls    *)
(* stop().  What the owner of the server does in on_client_connect and     *)
(* on_client_disconnect is one step here; PortService expands it.          *)
(***************************************************************************)
EXTENDS Naturals, FiniteSets

CONSTANTS
    Conns,          \* TCP connections, each made at most once
    NoConn,         \* the accept thread holds no connection
    Addr,           \* the peer address of each connection
    MaxError,       \* SerialClient.MAX_ERROR
    SlowThreads,    \* may join(timeout=3) give up on a thread that is leaving?
    Stuck           \* the clients whose callbacks may block for good

ASSUME SerialServerAssumption ==
    /\ NoConn \notin Conns
    /\ DOMAIN Addr = Conns
    /\ MaxError \in Nat
    /\ SlowThreads \in BOOLEAN
    /\ Stuck \subseteq Conns

VARIABLES
    sock,           \* the listening socket: "new", "listening" or "closed"
    stopFlag,       \* SerialServer.__stop
    clients,        \* SerialServer.clients
    acc,            \* control point of the accept thread
    accConn,        \* the connection it has just accepted
    conn,           \* control point of each connection and its client thread
    stop,           \* SerialClient._stop, which also shuts the socket down
    err,            \* SerialClient.err_cnt
    peerGone,       \* the other end has closed or vanished, and nothing it sent is unread
    stopper,        \* control point of the thread that calls stop()
    todo,           \* the clients stop() has still to go through
    asked           \* the clients stop() has told to stop

listener == <<sock, stopFlag, acc, accConn>>
stopping == <<stopper, todo, asked>>
vars     == <<listener, clients, conn, stop, err, peerGone, stopping>>

AccStates  == {"none", "accept", "accepted", "added", "dead"}
ConnStates == {"new", "backlog", "accepted", "added", "connecting", "lost", "recv",
               "turn", "closing", "removing", "removed", "raised", "dead"}
StopStates == {"idle", "snapshot", "asking", "joinAcc", "joining", "stopped", "raised"}

TypeOK ==
    /\ sock \in {"new", "listening", "closed"}
    /\ stopFlag \in BOOLEAN
    /\ clients \subseteq Conns
    /\ acc \in AccStates
    /\ accConn \in Conns \cup {NoConn}
    /\ conn \in [Conns -> ConnStates]
    /\ stop \in [Conns -> BOOLEAN]
    /\ err \in [Conns -> 0 .. MaxError + 1]
    /\ peerGone \in [Conns -> BOOLEAN]
    /\ stopper \in StopStates
    /\ todo \subseteq Conns
    /\ asked \subseteq Conns

Init ==
    /\ sock = "new"
    /\ stopFlag = FALSE
    /\ clients = {}
    /\ acc = "none"
    /\ accConn = NoConn
    /\ conn = [c \in Conns |-> "new"]
    /\ stop = [c \in Conns |-> FALSE]
    /\ err = [c \in Conns |-> 0]
    /\ peerGone = [c \in Conns |-> FALSE]
    /\ stopper = "idle"
    /\ todo = {}
    /\ asked = {}

Goes(c, from, to) == conn[c] = from /\ conn' = [conn EXCEPT ![c] = to]
AccGoes(from, to) == acc = from /\ acc' = to
StopGoes(from, to) == stopper = from /\ stopper' = to

\* SerialClient.__eq__ and __hash__: what set membership is decided by.
Equals(c) == {d \in clients : Addr[d] = Addr[c]}

\* The server's end of the connection is an open socket.
SocketOpen(c) == conn[c] \in {"backlog", "accepted", "added", "connecting", "lost",
                              "recv", "turn", "closing"}

\* The thread of a client has ended, by itself or by an exception.
Ended(c) == conn[c] \in {"dead", "raised", "lost"}

-----------------------------------------------------------------------------
(***************************************************************************)
(* run() and the accept thread                                             *)
(***************************************************************************)

\* bind, listen, start the accept thread.  That bind may raise is left to the owner.
Run ==
    /\ sock = "new"
    /\ sock' = "listening"
    /\ AccGoes("none", "accept")
    /\ UNCHANGED <<stopFlag, accConn, clients, conn, stop, err, peerGone, stopping>>

\* accept() returns a connection, whatever __stop says.
Accept(c) ==
    /\ sock = "listening"
    /\ AccGoes("accept", "accepted")
    /\ accConn' = c
    /\ Goes(c, "backlog", "accepted")
    /\ UNCHANGED <<sock, stopFlag, clients, stop, err, peerGone, stopping>>

\* accept() times out or raises: only then is __stop looked at.
AcceptEnd ==
    /\ stopFlag
    /\ AccGoes("accept", "dead")
    /\ UNCHANGED <<sock, stopFlag, accConn, clients, conn, stop, err, peerGone, stopping>>

\* SerialClient() raises on a socket whose peer is gone already: the connection is dropped.
ConstructFails(c) ==
    /\ accConn = c /\ accConn' = NoConn
    /\ peerGone[c]
    /\ AccGoes("accepted", IF stopFlag THEN "dead" ELSE "accept")
    /\ Goes(c, "accepted", "dead")
    /\ UNCHANGED <<sock, stopFlag, clients, stop, err, peerGone, stopping>>

\* Mutant: a client accepted while the server stops is started but not registered.
AddClientUnlessStopped(c) ==
    /\ accConn = c
    /\ AccGoes("accepted", "added")
    /\ Goes(c, "accepted", "added")
    /\ clients' = IF Equals(c) = {} /\ ~stopFlag THEN clients \cup {c} ELSE clients
    /\ UNCHANGED <<sock, stopFlag, accConn, stop, err, peerGone, stopping>>

\* Under the server's lock.  Adding an element equal to a member changes nothing.
AddClient(c) ==
    /\ accConn = c
    /\ AccGoes("accepted", "added")
    /\ Goes(c, "accepted", "added")
    /\ clients' = IF Equals(c) = {} THEN clients \cup {c} ELSE clients
    /\ UNCHANGED <<sock, stopFlag, accConn, stop, err, peerGone, stopping>>

StartClient(c) ==
    /\ accConn = c /\ accConn' = NoConn
    /\ AccGoes("added", "accept")
    /\ Goes(c, "added", "connecting")
    /\ err' = [err EXCEPT ![c] = 0]
    /\ UNCHANGED <<sock, stopFlag, clients, stop, peerGone, stopping>>

-----------------------------------------------------------------------------
(***************************************************************************)
(* The thread of client c: SerialClient.run                                *)
(***************************************************************************)

\* on_connect has returned: enter the loop unless already stopped.
ConnectDone(c) ==
    /\ Goes(c, "connecting", IF stop[c] THEN "closing" ELSE "recv")
    /\ UNCHANGED <<listener, clients, stop, err, peerGone, stopping>>

\* on_connect has raised: nobody closes the socket or takes the client off the register.
ConnectRaises(c) ==
    /\ Goes(c, "connecting", "lost")
    /\ UNCHANGED <<listener, clients, stop, err, peerGone, stopping>>

\* Data came, if from a peer that has left then before its leaving is seen, and
\* on_received returned.
RecvData(c) ==
    /\ ~peerGone[c]
    /\ Goes(c, "recv", "turn")
    /\ UNCHANGED <<listener, clients, stop, err, peerGone, stopping>>

\* Mutant: an empty read is taken for a timeout.
RecvEmptyIgnored(c) ==
    /\ peerGone[c] \/ stop[c]
    /\ Goes(c, "recv", "turn")
    /\ UNCHANGED <<listener, clients, stop, err, peerGone, stopping>>

\* The peer has closed, or stop() has shut the socket down.
RecvEmpty(c) ==
    /\ peerGone[c] \/ stop[c]
    /\ Goes(c, "recv", "turn")
    /\ stop' = [stop EXCEPT ![c] = TRUE]
    /\ UNCHANGED <<listener, clients, err, peerGone, stopping>>

\* Mutant: the callback counts its error and the loop counts it again.
RecvRaisesTwice(c) ==
    /\ err[c] <= MaxError
    /\ Goes(c, "recv", "turn")
    /\ err' = [err EXCEPT ![c] = err[c] + 2]
    /\ UNCHANGED <<listener, clients, stop, peerGone, stopping>>

\* The connection was reset or on_received raised.
RecvRaises(c) ==
    /\ err[c] <= MaxError
    /\ Goes(c, "recv", "turn")
    /\ err' = [err EXCEPT ![c] = err[c] + 1]
    /\ UNCHANGED <<listener, clients, stop, peerGone, stopping>>

\* recv times out: `continue` goes to the loop condition past the test of err_cnt.
RecvTimeout(c) ==
    /\ stop[c]
    /\ Goes(c, "recv", "closing")
    /\ UNCHANGED <<listener, clients, stop, err, peerGone, stopping>>

\* The end of the loop body and the loop condition.
Turn(c) ==
    /\ stop' = [stop EXCEPT ![c] = stop[c] \/ err[c] > MaxError]
    /\ Goes(c, "turn", IF stop'[c] THEN "closing" ELSE "recv")
    /\ UNCHANGED <<listener, clients, err, peerGone, stopping>>

CloseClient(c) ==
    /\ Goes(c, "closing", "removing")
    /\ UNCHANGED <<listener, clients, stop, err, peerGone, stopping>>

\* __remove_client under the server's lock.  remove() takes out whichever member is
\* equal, and raises KeyError, which ends the thread, when there is none.
RemoveClient(c) ==
    /\ clients' = clients \ Equals(c)
    /\ Goes(c, "removing", IF Equals(c) = {} THEN "raised" ELSE "removed")
    /\ UNCHANGED <<listener, stop, err, peerGone, stopping>>

\* on_client_disconnect has returned.
DisconnectDone(c) ==
    /\ Goes(c, "removed", "dead")
    /\ UNCHANGED <<listener, clients, stop, err, peerGone, stopping>>

-----------------------------------------------------------------------------
(***************************************************************************)
(* stop()                                                                  *)
(***************************************************************************)

SetStop ==
    /\ StopGoes("idle", "snapshot")
    /\ sock = "listening"
    /\ stopFlag' = TRUE
    /\ UNCHANGED <<sock, acc, accConn, clients, conn, stop, err, peerGone, todo, asked>>

Snapshot ==
    /\ StopGoes("snapshot", "asking")
    /\ todo' = clients /\ asked' = clients
    /\ UNCHANGED <<listener, clients, conn, stop, err, peerGone>>

\* Mutant: the clients are gone through without being stopped.
StopClientForgotten(c) ==
    /\ stopper = "asking"
    /\ c \in todo
    /\ todo' = todo \ {c}
    /\ stop' = [stop EXCEPT ![c] = peerGone[c]]
    /\ UNCHANGED <<listener, clients, conn, err, peerGone, stopper, asked>>

StopClient(c) ==
    /\ stopper = "asking"
    /\ c \in todo
    /\ todo' = todo \ {c}
    /\ stop' = [stop EXCEPT ![c] = TRUE]
    /\ UNCHANGED <<listener, clients, conn, err, peerGone, stopper, asked>>

\* Closing the listening socket resets what is still in its queue.
CloseSocket ==
    /\ StopGoes("asking", "joinAcc")
    /\ todo = {}
    /\ sock' = "closed"
    /\ conn' = [c \in Conns |-> IF conn[c] = "backlog" THEN "dead" ELSE conn[c]]
    /\ UNCHANGED <<stopFlag, acc, accConn, clients, stop, err, peerGone, todo, asked>>

\* join(timeout=3), then a second snapshot.
JoinAccept ==
    /\ StopGoes("joinAcc", "joining")
    /\ acc = "dead" \/ SlowThreads
    /\ todo' = clients
    /\ UNCHANGED <<listener, clients, conn, stop, err, peerGone, asked>>

\* Mutant: join() without a timeout.
JoinClientForever(c) ==
    /\ stopper = "joining"
    /\ c \in todo
    /\ Ended(c) \/ conn[c] = "added"
    /\ stopper' = IF conn[c] = "added" THEN "raised" ELSE "joining"
    /\ todo' = todo \ {c}
    /\ UNCHANGED <<listener, clients, conn, stop, err, peerGone, asked>>

\* client.thread is None until start(): AttributeError.  A thread nobody told to stop
\* outlasts the timeout, and so may one that hangs in a callback.
JoinClient(c) ==
    /\ stopper = "joining"
    /\ c \in todo
    /\ Ended(c) \/ conn[c] = "added" \/ ~stop[c] \/ c \in Stuck \/ SlowThreads
    /\ stopper' = IF conn[c] = "added" THEN "raised" ELSE "joining"
    /\ todo' = todo \ {c}
    /\ UNCHANGED <<listener, clients, conn, stop, err, peerGone, asked>>

StopDone ==
    /\ StopGoes("joining", "stopped")
    /\ todo = {}
    /\ UNCHANGED <<listener, clients, conn, stop, err, peerGone, todo, asked>>

-----------------------------------------------------------------------------
(***************************************************************************)
(* Others                                                                  *)
(***************************************************************************)

\* A peer connects.  The kernel has no second connection from an address whose
\* connection is still open here.
Connect(c) ==
    /\ sock = "listening"
    /\ \A d \in Conns : Addr[d] = Addr[c] => ~SocketOpen(d)
    /\ Goes(c, "new", "backlog")
    /\ UNCHANGED <<listener, clients, stop, err, peerGone, stopping>>

PeerLeaves(c) ==
    /\ SocketOpen(c)
    /\ ~peerGone[c]
    /\ peerGone' = [peerGone EXCEPT ![c] = TRUE]
    /\ UNCHANGED <<listener, clients, conn, stop, err, stopping>>

\* send_to_all, called by a serial receive thread: sendall raises or times out.
SendFails(c) ==
    /\ c \in clients
    /\ err[c] <= MaxError
    /\ err' = [err EXCEPT ![c] = err[c] + 1]
    /\ UNCHANGED <<listener, clients, conn, stop, peerGone, stopping>>

-----------------------------------------------------------------------------
AcceptStep == AcceptEnd \/ \E c \in Conns :
    Accept(c) \/ ConstructFails(c) \/ AddClient(c) \/ StartClient(c)

ClientStep(c) ==
    \/ ConnectDone(c)
    \/ RecvEmpty(c) \/ RecvTimeout(c) \/ Turn(c)
    \/ CloseClient(c) \/ RemoveClient(c) \/ DisconnectDone(c)

StopStep ==
    \/ Snapshot \/ CloseSocket \/ JoinAccept \/ StopDone
    \/ \E c \in Conns : StopClient(c) \/ JoinClient(c)

Others ==
    \/ Run \/ SetStop
    \/ \E c \in Conns : \/ Connect(c) \/ PeerLeaves(c) \/ SendFails(c)
                        \/ ConnectRaises(c) \/ RecvData(c) \/ RecvRaises(c)

Next == AcceptStep \/ (\E c \in Conns : ClientStep(c)) \/ StopStep \/ Others

Spec == Init /\ [][Next]_vars

\* Started threads keep running, unless a callback blocks; the network and the owner owe
\* nothing.
Fairness ==
    /\ WF_vars(AcceptStep)
    /\ \A c \in Conns \ Stuck : WF_vars(ClientStep(c))
    /\ WF_vars(StopStep)

FairSpec == Spec /\ Fairness

-----------------------------------------------------------------------------
(***************************************************************************)
(* Properties                                                              *)
(***************************************************************************)

\* Between start() and the end of its thread a connection is on the register exactly
\* until it takes itself off: a broadcast reaches everyone who is being served, and the
\* owner never counts somebody who has left, except one whose on_connect has raised.
ServedIsListed ==
    \A c \in Conns :
        c \in clients <=>
            conn[c] \in {"added", "connecting", "lost", "recv", "turn", "closing",
                         "removing"}

\* When stop() has returned and no join gave up, the listener and its thread are gone
\* and so is every client that was on the register when __stop was set, except one whose
\* on_connect has raised or whose callback hangs.
StopReaps ==
    stopper = "stopped" =>
        /\ acc = "dead" /\ sock = "closed"
        /\ \A c \in (asked \cap clients) \ Stuck : conn[c] = "lost"

\* A client whose peer has left is noticed and its owner told: its thread does not spin,
\* hang or die on the way to on_client_disconnect, also while another one hangs.
Goodbye == \A c \in Conns \ Stuck : conn[c] = "recv" /\ peerGone[c] ~> conn[c] = "dead"

\* stop() always returns, though a client may hang in a callback; it does not raise either,
\* since no client can be registered and not started once the accept thread has been joined.
StopReturns == stopper = "snapshot" ~> stopper = "stopped"
=============================================================================
