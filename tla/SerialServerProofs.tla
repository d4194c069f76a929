------------------------- MODULE SerialServerProofs -------------------------
(***************************************************************************)
(* What holds of the server for any set of connections, most of it for     *)
(* connections that come from different addresses.  The inductive          *)
(* invariant adds to the register's property that the accept thread alone  *)
(* has the connection it has not started yet.                              *)
(***************************************************************************)
EXTENDS SerialServer, TLAPS

\* A connection between accept() and start() is the one in the accept thread's hands.
InHand ==
    \A c \in Conns :
        /\ conn[c] = "accepted" <=> acc = "accepted" /\ accConn = c
        /\ conn[c] = "added" <=> acc = "added" /\ accConn = c

IInv == TypeOK /\ InHand /\ ServedIsListed

Distinct == \A c, d \in Conns : Addr[c] = Addr[d] => c = d

\* With different addresses the only member equal to c is c itself.
LEMMA EqualsSelf ==
    ASSUME TypeOK, Distinct, NEW c \in Conns
    PROVE  Equals(c) = clients \cap {c}
  BY DEF Equals, Distinct, TypeOK

LEMMA InitIInv == Init => IInv
  <1> SUFFICES ASSUME Init PROVE IInv
    OBVIOUS
  <1>1. TypeOK
    <2>1. stopFlag \in BOOLEAN
      BY Zenon DEF Init
    <2>2. stop \in [Conns -> BOOLEAN] /\ peerGone \in [Conns -> BOOLEAN]
      BY DEF Init
    <2>3. conn \in [Conns -> ConnStates] /\ err \in [Conns -> 0 .. MaxError + 1]
      BY SerialServerAssumption DEF Init, ConnStates
    <2> QED
      BY <2>1, <2>2, <2>3 DEF Init, TypeOK, AccStates, StopStates
  <1>2. InHand /\ ServedIsListed
    BY DEF Init, InHand, ServedIsListed
  <1> QED
    BY <1>1, <1>2 DEF IInv

\* A step of the accept thread.
LEMMA AcceptIInv ==
    ASSUME IInv, Distinct, AcceptStep
    PROVE  IInv'
  <1> USE SerialServerAssumption
      DEF IInv, TypeOK, InHand, ServedIsListed, AccStates, ConnStates, StopStates,
          Goes, AccGoes, stopping
  <1>1. ASSUME AcceptEnd PROVE IInv'
    BY <1>1 DEF AcceptEnd
  <1>2. ASSUME NEW c \in Conns, Accept(c) PROVE IInv'
    BY <1>2 DEF Accept
  <1>3. ASSUME NEW c \in Conns, ConstructFails(c) PROVE IInv'
    BY <1>3 DEF ConstructFails
  <1>4. ASSUME NEW c \in Conns, AddClient(c) PROVE IInv'
    <2>1. Equals(c) = {}
      BY <1>4, EqualsSelf DEF AddClient
    <2> QED
      BY <1>4, <2>1 DEF AddClient
  <1>5. ASSUME NEW c \in Conns, StartClient(c) PROVE IInv'
    BY <1>5 DEF StartClient
  <1> QED
    BY <1>1, <1>2, <1>3, <1>4, <1>5 DEF AcceptStep

\* A step of a client thread, or of those who make it end.
LEMMA ClientIInv ==
    ASSUME IInv, Distinct, NEW c \in Conns,
           ClientStep(c) \/ ConnectRaises(c) \/ RecvData(c) \/ RecvRaises(c) \/ SendFails(c)
    PROVE  IInv'
  <1> USE SerialServerAssumption
      DEF IInv, TypeOK, InHand, ServedIsListed, ConnStates, Goes, listener, stopping
  <1>1. ASSUME ConnectDone(c) PROVE IInv'
    BY <1>1 DEF ConnectDone
  <1>2. ASSUME RecvData(c) PROVE IInv'
    BY <1>2 DEF RecvData
  <1>3. ASSUME RecvEmpty(c) PROVE IInv'
    BY <1>3 DEF RecvEmpty
  <1>4. ASSUME RecvRaises(c) PROVE IInv'
    BY <1>4 DEF RecvRaises
  <1>5. ASSUME RecvTimeout(c) PROVE IInv'
    BY <1>5 DEF RecvTimeout
  <1>6. ASSUME Turn(c) PROVE IInv'
    BY <1>6 DEF Turn
  <1>7. ASSUME CloseClient(c) PROVE IInv'
    BY <1>7 DEF CloseClient
  <1>8. ASSUME RemoveClient(c) PROVE IInv'
    <2>1. Equals(c) = {c}
      BY <1>8, EqualsSelf DEF RemoveClient
    <2> QED
      BY <1>8, <2>1 DEF RemoveClient
  <1>9. ASSUME DisconnectDone(c) PROVE IInv'
    BY <1>9 DEF DisconnectDone
  <1>10. ASSUME SendFails(c) PROVE IInv'
    BY <1>10 DEF SendFails
  <1>11. ASSUME ConnectRaises(c) PROVE IInv'
    BY <1>11 DEF ConnectRaises
  <1> QED
    BY <1>1, <1>2, <1>3, <1>4, <1>5, <1>6, <1>7, <1>8, <1>9, <1>10, <1>11 DEF ClientStep

\* A step of stop(), of the network or of the owner, and stuttering.
LEMMA OthersIInv ==
    ASSUME IInv,
           \/ StopStep \/ Run \/ SetStop \/ UNCHANGED vars
           \/ \E c \in Conns : Connect(c) \/ PeerLeaves(c)
    PROVE  IInv'
  <1> USE SerialServerAssumption
      DEF IInv, TypeOK, InHand, ServedIsListed, AccStates, ConnStates, StopStates,
          Goes, AccGoes, StopGoes, listener, stopping
  <1>1. ASSUME Snapshot PROVE IInv'
    BY <1>1 DEF Snapshot
  <1>2. ASSUME NEW c \in Conns, StopClient(c) PROVE IInv'
    BY <1>2 DEF StopClient
  <1>3. ASSUME CloseSocket PROVE IInv'
    BY <1>3 DEF CloseSocket
  <1>4. ASSUME JoinAccept PROVE IInv'
    BY <1>4 DEF JoinAccept
  <1>5. ASSUME NEW c \in Conns, JoinClient(c) PROVE IInv'
    BY <1>5 DEF JoinClient
  <1>6. ASSUME StopDone PROVE IInv'
    BY <1>6 DEF StopDone
  <1>7. ASSUME Run PROVE IInv'
    BY <1>7 DEF Run
  <1>8. ASSUME SetStop PROVE IInv'
    BY <1>8 DEF SetStop
  <1>9. ASSUME NEW c \in Conns, Connect(c) PROVE IInv'
    BY <1>9 DEF Connect
  <1>10. ASSUME NEW c \in Conns, PeerLeaves(c) PROVE IInv'
    BY <1>10 DEF PeerLeaves
  <1>11. ASSUME UNCHANGED vars PROVE IInv'
    BY <1>11 DEF vars
  <1> QED
    BY <1>1, <1>2, <1>3, <1>4, <1>5, <1>6, <1>7, <1>8, <1>9, <1>10, <1>11 DEF StopStep

LEMMA StepIInv == ASSUME Distinct PROVE IInv /\ [Next]_vars => IInv'
  <1> SUFFICES ASSUME IInv, [Next]_vars PROVE IInv'
    OBVIOUS
  <1>1. CASE AcceptStep
    BY <1>1, AcceptIInv
  <1>2. ASSUME NEW c \in Conns,
               \/ ClientStep(c) \/ ConnectRaises(c) \/ RecvData(c)
               \/ RecvRaises(c) \/ SendFails(c)
        PROVE  IInv'
    BY <1>2, ClientIInv
  <1>3. CASE \/ StopStep \/ Run \/ SetStop \/ UNCHANGED vars
             \/ \E c \in Conns : Connect(c) \/ PeerLeaves(c)
    BY <1>3, OthersIInv
  <1> QED
    BY <1>1, <1>2, <1>3 DEF Next, Others

\* When no two connections share an address, the register holds exactly the clients that
\* are being served, whatever the accept thread, the clients and stop() do in between.
THEOREM RegisterExact == ASSUME Distinct PROVE Spec => []ServedIsListed
  <1>1. Init => IInv
    BY InitIInv
  <1>2. IInv /\ [Next]_vars => IInv'
    BY StepIInv
  <1>3. IInv => ServedIsListed
    BY DEF IInv
  <1> QED
    BY <1>1, <1>2, <1>3, PTL DEF Spec

LEMMA StepType == TypeOK /\ [Next]_vars => TypeOK'
  <1> SUFFICES ASSUME TypeOK, [Next]_vars PROVE TypeOK'
    OBVIOUS
  <1> USE SerialServerAssumption
      DEF TypeOK, AccStates, ConnStates, StopStates, Goes, AccGoes, StopGoes,
          listener, stopping
  <1>1. CASE AcceptStep
    BY <1>1 DEF AcceptStep, AcceptEnd, Accept, ConstructFails, AddClient, StartClient
  <1>2. ASSUME NEW c \in Conns, ClientStep(c) PROVE TypeOK'
    <2>1. CASE ConnectDone(c) \/ RecvTimeout(c) \/ CloseClient(c) \/ DisconnectDone(c)
      BY <2>1 DEF ConnectDone, RecvTimeout, CloseClient, DisconnectDone
    <2>2. CASE RecvEmpty(c)
      BY <2>2 DEF RecvEmpty
    <2>3. CASE Turn(c)
      BY <2>3 DEF Turn
    <2>4. CASE RemoveClient(c)
      BY <2>4 DEF RemoveClient
    <2> QED
      BY <1>2, <2>1, <2>2, <2>3, <2>4 DEF ClientStep
  <1>3. CASE StopStep
    <2>1. CASE Snapshot \/ CloseSocket \/ JoinAccept \/ StopDone
      BY <2>1 DEF Snapshot, CloseSocket, JoinAccept, StopDone
    <2>2. ASSUME NEW c \in Conns, StopClient(c) PROVE TypeOK'
      BY <2>2 DEF StopClient
    <2>3. ASSUME NEW c \in Conns, JoinClient(c) PROVE TypeOK'
      BY <2>3 DEF JoinClient
    <2> QED
      BY <1>3, <2>1, <2>2, <2>3 DEF StopStep
  <1>4. CASE Others
    <2>1. ASSUME NEW c \in Conns, SendFails(c) \/ RecvRaises(c) PROVE TypeOK'
      BY <2>1 DEF SendFails, RecvRaises
    <2>2. ASSUME NEW c \in Conns, Connect(c) \/ ConnectRaises(c) \/ RecvData(c)
          PROVE  TypeOK'
      BY <2>2 DEF Connect, ConnectRaises, RecvData
    <2>4. ASSUME NEW c \in Conns, PeerLeaves(c) PROVE TypeOK'
      BY <2>4 DEF PeerLeaves
    <2>3. CASE Run \/ SetStop
      BY <2>3 DEF Run, SetStop
    <2> QED
      BY <1>4, <2>1, <2>2, <2>3, <2>4 DEF Others
  <1>5. CASE UNCHANGED vars
    BY <1>5 DEF vars
  <1> QED
    BY <1>1, <1>2, <1>3, <1>4, <1>5 DEF Next

\* Every variable keeps its type, also when clients share an address; in particular the
\* errors of a client are counted one by one up to the first too many.
THEOREM ServerTypeCorrect == Spec => []TypeOK
  <1>1. Init => TypeOK
    BY InitIInv DEF IInv
  <1> QED
    BY <1>1, StepType, PTL DEF Spec

-----------------------------------------------------------------------------
(***************************************************************************)
(* stop().  What it rests on, beside the register: a client that has been  *)
(* told to stop stays told, stop() goes through the first snapshot before  *)
(* it joins, and the accept thread, once joined, registers nobody.         *)
(***************************************************************************)

\* From the first snapshot on, all clients in it have been told or are still to be told;
\* once the accept thread is dead, those of them that are on the register have not been
\* joined yet or have ended by an exception of on_connect.
Reaping ==
    /\ stopper \in {"asking", "joinAcc", "joining", "stopped"} =>
          \A c \in asked : stop[c] \/ (stopper = "asking" /\ c \in todo)
    /\ stopper = "joinAcc" => sock = "closed"
    /\ stopper \in {"joining", "stopped"} =>
          /\ sock = "closed" /\ acc = "dead"
          /\ \A c \in (asked \cap clients) \ Stuck : c \in todo \/ conn[c] = "lost"
    /\ stopper = "stopped" => todo = {}

StopInv == IInv /\ Reaping

\* The accept thread and the clients, with those who make them go on.
LEMMA ThreadsReaping ==
    ASSUME StopInv, AcceptStep \/ Run \/ \E c \in Conns :
               \/ ClientStep(c) \/ Connect(c) \/ PeerLeaves(c) \/ SendFails(c)
               \/ ConnectRaises(c) \/ RecvData(c) \/ RecvRaises(c)
    PROVE  Reaping'
  <1> USE DEF StopInv, IInv, TypeOK, Reaping, Goes, AccGoes, listener, stopping
  <1>1. CASE AcceptStep
    BY <1>1 DEF AcceptStep, AcceptEnd, Accept, ConstructFails, AddClient, StartClient
  <1>2. CASE Run
    BY <1>2 DEF Run
  <1>3. ASSUME NEW c \in Conns, ClientStep(c) PROVE Reaping'
    BY <1>3 DEF ClientStep, ConnectDone, RecvEmpty, RecvTimeout, Turn, CloseClient,
                RemoveClient, DisconnectDone
  <1>4. ASSUME NEW c \in Conns, \/ Connect(c) \/ PeerLeaves(c) \/ SendFails(c)
                                \/ ConnectRaises(c) \/ RecvData(c) \/ RecvRaises(c)
        PROVE  Reaping'
    BY <1>4 DEF Connect, PeerLeaves, SendFails, ConnectRaises, RecvData, RecvRaises
  <1> QED
    BY <1>1, <1>2, <1>3, <1>4

\* stop() itself.  A join that does not give up ends with a thread that is off the register.
LEMMA StopperReaping ==
    ASSUME StopInv, ~SlowThreads, StopStep \/ SetStop
    PROVE  Reaping'
  <1> USE DEF StopInv, IInv, TypeOK, Reaping, StopGoes, listener, stopping
  <1>1. CASE SetStop
    BY <1>1 DEF SetStop
  <1>2. CASE Snapshot
    BY <1>2 DEF Snapshot
  <1>3. ASSUME NEW c \in Conns, StopClient(c) PROVE Reaping'
    BY <1>3 DEF StopClient
  <1>4. CASE CloseSocket
    BY <1>4 DEF CloseSocket
  <1>5. CASE JoinAccept
    BY <1>5 DEF JoinAccept
  <1>6. ASSUME NEW c \in Conns, JoinClient(c) PROVE Reaping'
    <2>1. conn[c] # "added"
      BY <1>6 DEF JoinClient, InHand
    <2>2. c \in asked => Ended(c) \/ c \in Stuck
      BY <1>6, <2>1 DEF JoinClient
    <2>3. c \in (asked \cap clients) \ Stuck => conn[c] = "lost"
      BY <2>2 DEF ServedIsListed, Ended
    <2> QED
      BY <1>6, <2>1, <2>3 DEF JoinClient
  <1>7. CASE StopDone
    BY <1>7 DEF StopDone
  <1> QED
    BY <1>1, <1>2, <1>3, <1>4, <1>5, <1>6, <1>7 DEF StopStep

\* When no join gives up and no two connections share an address, a stop() that returns
\* leaves no listener, no accept thread and none of the clients it found on the register
\* but those whose on_connect has raised or that hang in a callback, whoever comes and goes
\* meanwhile and whatever errors there are.
THEOREM Reaps == ASSUME Distinct, ~SlowThreads PROVE Spec => []StopReaps
  <1>1. Init => StopInv
    BY InitIInv DEF Init, StopInv, Reaping
  <1>2. StopInv /\ [Next]_vars => StopInv'
    <2> SUFFICES ASSUME StopInv, [Next]_vars PROVE StopInv'
      OBVIOUS
    <2>1. IInv'
      BY StepIInv DEF StopInv
    <2>2. CASE UNCHANGED vars
      BY <2>1, <2>2 DEF vars, stopping, listener, StopInv, Reaping
    <2> QED
      BY <2>1, <2>2, ThreadsReaping, StopperReaping DEF StopInv, Next, Others
  <1>3. StopInv => StopReaps
    BY DEF StopInv, Reaping, StopReaps
  <1> QED
    BY <1>1, <1>2, <1>3, PTL DEF Spec
=============================================================================
