-------------------------- MODULE SharedPortProofs --------------------------
(***************************************************************************)
(* What the steps of the serial port and of the server keep, whoever calls *)
(* them: the lemmas that the proofs about PortService and CliService have  *)
(* in common.  The theorems about SerialPort and SerialServer are about    *)
(* behaviours in which nothing else happens and do not carry over.         *)
(***************************************************************************)
EXTENDS SharedPort, TLAPS

-----------------------------------------------------------------------------
(***************************************************************************)
(* The serial port                                                         *)
(***************************************************************************)

\* A thread inside __open has room for the receive or reconnect thread it may start.
Room ==
    (\/ \E c \in Callers : pc[c] \in {"opening", "retryTest"}
     \/ \E r \in Port!Retries : rt[r] = "opening")
        => epoch < MaxEpoch /\ retries < MaxRetry

\* Receive threads 1 to epoch have been started, and no other; reconnect threads likewise.
Started ==
    /\ \A e \in Port!Epochs : rx[e] # "none" <=> e <= epoch
    /\ \A r \in Port!Retries : rt[r] # "none" <=> r <= retries
    /\ isConnected => epoch > 0
    /\ retries = 0 => retryThread = 0

\* Only a reconnect thread that has been started is tested or joined, and only that raises.
Joined ==
    retries = 0 =>
        \A c \in Callers : pc[c] \notin {"retryTest", "rtAlive", "rtJoin", "rtWait", "failed"}

PortInv ==
    Port!TypeOK /\ Port!LockInv /\ Room /\ Started /\ Joined /\ Port!ConnectedIsOpen

LEMMA PortInit == Port!Init => PortInv
  <1> SUFFICES ASSUME Port!Init PROVE PortInv
    OBVIOUS
  <1> USE SharedPortAssumption DEF Port!Init, Port!Epochs, Port!Retries
  <1>1. Port!TypeOK
    <2>1. /\ plugged \in BOOLEAN /\ isConnected \in BOOLEAN /\ closeSet \in BOOLEAN
      BY Zenon
    <2>2. /\ faults \in 0 .. MaxFaults /\ epoch \in 0 .. MaxEpoch
          /\ retries \in 0 .. MaxRetry /\ retryThread \in 0 .. MaxRetry
      OBVIOUS
    <2>3. /\ handle \in {"closed", "live", "dead"} /\ told \in {"nothing", "up", "down"}
          /\ lock \in Callers \cup (1 .. MaxRetry) \cup {NoOne}
      OBVIOUS
    <2>4. /\ rx \in [1 .. MaxEpoch -> Port!RxStates] /\ rt \in [1 .. MaxRetry -> Port!RtStates]
          /\ pc \in [Callers -> Port!CallStates]
      BY DEF Port!RxStates, Port!RtStates, Port!CallStates, Port!Resting
    <2>5. /\ target \in [Callers -> 0 .. MaxEpoch + MaxRetry]
          /\ [c \in Callers |-> 0] \in [Callers -> 0 .. 0]
      OBVIOUS
    <2> QED
      BY <2>1, <2>2, <2>3, <2>4, <2>5 DEF Port!TypeOK
  <1>2. Port!LockInv /\ Room
    BY DEF Port!LockInv, Room
  <1>3. Started /\ Joined /\ Port!ConnectedIsOpen
    BY DEF Started, Joined, Port!ConnectedIsOpen
  <1> QED
    BY <1>1, <1>2, <1>3 DEF PortInv

\* What a caller begins, from wherever it is called.
LEMMA CallPortInv ==
    ASSUME PortInv, NEW c \in Callers, Port!EnsureOpen(c) \/ Port!CloseFlag(c)
    PROVE  PortInv'
  <1> USE SharedPortAssumption
      DEF PortInv, Port!TypeOK, Port!LockInv, Room, Started, Joined,
          Port!ConnectedIsOpen, Port!Epochs, Port!Retries, Port!CallStates, Port!OpenStates,
          Port!CloseStates, Port!Resting, Port!isOpen,
          Port!device, Port!port, Port!threads
  <1>1. CASE Port!EnsureOpen(c)
    <2> USE <1>1 DEF Port!EnsureOpen
    <2>1. Port!TypeOK'
      OBVIOUS
    <2>2. Port!LockInv' /\ Room'
      OBVIOUS
    <2>3. Started' /\ Joined' /\ Port!ConnectedIsOpen'
      OBVIOUS
    <2> QED
      BY <2>1, <2>2, <2>3
  <1>2. CASE Port!CloseFlag(c)
    BY <1>2 DEF Port!CloseFlag
  <1> QED
    BY <1>1, <1>2

\* A reconnect thread that is started is not one that opens the port.
LEMMA StartOpensNothing ==
    ASSUME Port!TypeOK, Port!StartRetry
    PROVE  \A r \in Port!Retries : rt'[r] = "opening" => rt[r] = "opening"
  <1> SUFFICES ASSUME NEW r \in Port!Retries, rt'[r] = "opening" PROVE rt[r] = "opening"
    OBVIOUS
  <1>1. rt' = [rt EXCEPT ![retries + 1] = "check"]
    BY DEF Port!StartRetry
  <1>2. rt \in [Port!Retries -> Port!RtStates]
    BY DEF Port!TypeOK
  <1> QED
    BY <1>1, <1>2

\* A caller that gives the lock back leaves nobody inside __open, unless a reconnect thread
\* opens then.
LEMMA NobodyInside ==
    ASSUME Port!TypeOK, Port!LockInv, NEW c \in Callers, lock = c, lock' = NoOne,
           NEW p \in {"opened", "failed"}, pc' = [pc EXCEPT ![c] = p],
           \A r \in Port!Retries : rt'[r] = "opening" => rt[r] = "opening"
    PROVE  /\ \A d \in Callers : pc'[d] \notin {"opening", "retryTest", "writing"}
           /\ \A r \in Port!Retries : rt'[r] # "opening"
           /\ Port!LockInv'
  <1>1. \A r \in Port!Retries : lock # r
    BY SharedPortAssumption DEF Port!Retries
  <1>2. \A r \in Port!Retries : rt'[r] # "opening"
    BY <1>1 DEF Port!LockInv
  <1>3. \A d \in Callers : pc'[d] \notin {"opening", "retryTest", "writing"}
    <2>1. \A d \in Callers : d # c => pc[d] \notin {"opening", "retryTest", "writing"}
      BY DEF Port!LockInv
    <2>2. pc \in [Callers -> Port!CallStates]
      BY DEF Port!TypeOK
    <2> QED
      BY <2>1, <2>2
  <1>4. \A t \in Callers \cup Port!Retries : NoOne # t
    BY SharedPortAssumption DEF Port!Retries
  <1> QED
    BY <1>2, <1>3, <1>4 DEF Port!LockInv

\* What follows once a call has begun.
LEMMA CallerPortInv ==
    ASSUME PortInv, NEW c \in Callers, Port!CallerStep(c)
    PROVE  PortInv'
  <1> USE SharedPortAssumption
      DEF PortInv, Port!TypeOK, Port!LockInv, Room, Started, Joined,
          Port!ConnectedIsOpen, Port!Epochs, Port!Retries, Port!RxStates, Port!RtStates,
          Port!CallStates, Port!OpenStates, Port!CloseStates, Port!Resting, Port!isOpen,
          Port!device, Port!port, Port!threads, Port!Goes, Port!Acquire, Port!Release,
          Port!RxAlive
  <1>2. ASSUME Port!OpenReset(c) PROVE PortInv'
    <2>1. Port!TypeOK'
      BY <1>2 DEF Port!OpenReset
    <2>2. Port!LockInv' /\ Room'
      BY <1>2 DEF Port!OpenReset
    <2>3. Started' /\ Joined' /\ Port!ConnectedIsOpen'
      BY <1>2 DEF Port!OpenReset
    <2> QED
      BY <2>1, <2>2, <2>3
  <1>3. ASSUME Port!OpenTry(c) PROVE PortInv'
    BY <1>3 DEF Port!OpenTry, Port!SerialOpen
  <1>4. ASSUME Port!OpenUp(c) PROVE PortInv'
    <2> USE <1>4 DEF Port!OpenUp, Port!Opened
    <2>1. Port!TypeOK'
      OBVIOUS
    <2>2. (Port!LockInv /\ Room)'
      BY NobodyInside
    <2>3. Started' /\ Joined' /\ Port!ConnectedIsOpen'
      OBVIOUS
    <2> QED
      BY <2>1, <2>2, <2>3
  <1>5. ASSUME Port!OpenDown(c) PROVE PortInv'
    <2>1. Port!TypeOK'
      <3>1. rt' \in [1 .. MaxRetry -> Port!RtStates]
        BY <1>5 DEF Port!OpenDown, Port!StartRetry
      <3>2. retries' \in 0 .. MaxRetry /\ retryThread' \in 0 .. MaxRetry
        BY <1>5 DEF Port!OpenDown, Port!StartRetry
      <3>3. pc' \in [Callers -> Port!CallStates]
        BY <1>5 DEF Port!OpenDown
      <3> QED
        BY <1>5, <3>1, <3>2, <3>3 DEF Port!OpenDown
    <2>2. (Port!LockInv /\ Room)'
      <3>1. CASE retryThread = 0
        <4>1. \A r \in Port!Retries : rt'[r] = "opening" => rt[r] = "opening"
          BY <1>5, <3>1, StartOpensNothing DEF Port!OpenDown
        <4>2. /\ lock = c /\ lock' = NoOne
              /\ pc' = [pc EXCEPT ![c] = "opened"]
          BY <1>5, <3>1 DEF Port!OpenDown
        <4> QED
          BY <4>1, <4>2, NobodyInside
      <3>2. CASE retryThread # 0
        BY <1>5, <3>2 DEF Port!OpenDown
      <3> QED
        BY <3>1, <3>2
    <2>4. Started' /\ Joined'
      <3>1. CASE retryThread = 0
        BY <1>5, <3>1 DEF Port!OpenDown, Port!StartRetry
      <3>2. CASE retryThread # 0
        BY <1>5, <3>2 DEF Port!OpenDown
      <3> QED
        BY <3>1, <3>2
    <2>5. Port!ConnectedIsOpen'
      BY <1>5 DEF Port!OpenDown
    <2> QED
      BY <2>1, <2>2, <2>4, <2>5
  <1>6. ASSUME Port!CloseBody(c) PROVE PortInv'
    BY <1>6 DEF Port!CloseBody, Port!CloseHandle
  <1>7. ASSUME Port!RxCheck(c) PROVE PortInv'
    BY <1>7 DEF Port!RxCheck
  <1>8. ASSUME Port!RxJoin(c) PROVE PortInv'
    BY <1>8 DEF Port!RxJoin
  <1>9. ASSUME Port!RxWait(c) PROVE PortInv'
    BY <1>9 DEF Port!RxWait
  <1>10. ASSUME Port!RtCheck(c) PROVE PortInv'
    BY <1>10 DEF Port!RtCheck
  <1>11. ASSUME Port!RtJoin(c) PROVE PortInv'
    BY <1>11 DEF Port!RtJoin
  <1>12. ASSUME Port!RtWait(c) PROVE PortInv'
    BY <1>12 DEF Port!RtWait
  <1>13. ASSUME Port!SendEnd(c) PROVE PortInv'
    <2>1. Port!TypeOK'
      BY <1>13 DEF Port!SendEnd
    <2>2. Port!LockInv' /\ Room'
      BY <1>13 DEF Port!SendEnd
    <2>3. Started' /\ Joined' /\ Port!ConnectedIsOpen'
      BY <1>13 DEF Port!SendEnd
    <2> QED
      BY <2>1, <2>2, <2>3
  <1>14. ASSUME Port!RetryTest(c) PROVE PortInv'
    <2>1. /\ pc' \in [Callers -> Port!CallStates] /\ pc'[c] \in {"failed", "opened"}
          /\ pc' = [pc EXCEPT ![c] = pc'[c]] /\ pc[c] = "retryTest"
          /\ lock = c /\ lock' = NoOne
          /\ UNCHANGED <<plugged, faults, handle, isConnected, told, rx, epoch, closeSet, target>>
      BY <1>14 DEF Port!RetryTest
    <2>2. CASE retryThread = 0 \/ Port!RtAlive(retryThread)
      <3>1. UNCHANGED <<rt, retries, retryThread>>
        BY <1>14, <2>2 DEF Port!RetryTest
      <3>2. Port!TypeOK'
        BY <2>1, <3>1
      <3>3. (Port!LockInv /\ Room)'
        BY <2>1, <3>1, NobodyInside
      <3>4. (Started /\ Joined /\ Port!ConnectedIsOpen)'
        BY <2>1, <3>1
      <3> QED
        BY <3>2, <3>3, <3>4
    <2>3. CASE ~(retryThread = 0 \/ Port!RtAlive(retryThread))
      <3>1. Port!StartRetry
        BY <1>14, <2>3 DEF Port!RetryTest
      <3>2. Port!TypeOK'
        BY <2>1, <3>1 DEF Port!StartRetry
      <3>3. (Port!LockInv /\ Room)'
        BY <2>1, <3>1, NobodyInside, StartOpensNothing
      <3>4. (Started /\ Joined /\ Port!ConnectedIsOpen)'
        BY <2>1, <3>1 DEF Port!StartRetry
      <3> QED
        BY <3>2, <3>3, <3>4
    <2> QED
      BY <2>2, <2>3
  <1>15. ASSUME Port!RtAliveTest(c) PROVE PortInv'
    BY <1>15 DEF Port!RtAliveTest
  <1> QED
    BY <1>2, <1>3, <1>4, <1>5, <1>6, <1>7, <1>8, <1>9, <1>10, <1>11, <1>12, <1>13, <1>14,
       <1>15
    DEF Port!CallerStep

LEMMA ReceiverPortInv ==
    ASSUME PortInv, NEW e \in Port!Epochs,
           Port!RxStep(e) \/ Port!RxStale(e) \/ Port!RxGlitch(e)
    PROVE  PortInv'
  <1> USE SharedPortAssumption
      DEF PortInv, Port!TypeOK, Port!LockInv, Room, Started, Joined,
          Port!ConnectedIsOpen, Port!Epochs, Port!Retries, Port!RxStates, Port!RtStates,
          Port!CallStates, Port!OpenStates, Port!CloseStates, Port!Resting, Port!isOpen,
          Port!device, Port!port, Port!threads, Port!RxGoes, Port!RxAlive
  <1>1. ASSUME Port!RxStart(e) PROVE PortInv'
    BY <1>1 DEF Port!RxStart
  <1>2. ASSUME Port!RxEnd(e) PROVE PortInv'
    BY <1>2 DEF Port!RxEnd
  <1>3. ASSUME Port!RxStale(e) PROVE PortInv'
    BY <1>3 DEF Port!RxStale
  <1>4. ASSUME Port!RxGlitch(e) PROVE PortInv'
    BY <1>4 DEF Port!RxGlitch
  <1>5. ASSUME Port!RxCheckEpoch(e) PROVE PortInv'
    BY <1>5 DEF Port!RxCheckEpoch
  <1>6. ASSUME Port!RxCheckFlag(e) PROVE PortInv'
    BY <1>6 DEF Port!RxCheckFlag
  <1>7. ASSUME Port!RxClose(e) PROVE PortInv'
    <2> USE <1>7 DEF Port!RxClose, Port!CloseHandle, Port!StartRetry
    <2>1. /\ rx' \in [1 .. MaxEpoch -> Port!RxStates]
          /\ rt' \in [1 .. MaxRetry -> Port!RtStates]
      OBVIOUS
    <2>2. /\ handle' \in {"closed", "live", "dead"} /\ told' \in {"nothing", "up", "down"}
          /\ isConnected' \in BOOLEAN
      OBVIOUS
    <2>3. Port!TypeOK'
      BY <2>1, <2>2
    <2>4. Port!LockInv'
      OBVIOUS
    <2>5. Room'
      OBVIOUS
    <2>6. Started' /\ Joined'
      OBVIOUS
    <2>7. Port!ConnectedIsOpen'
      OBVIOUS
    <2> QED
      BY <2>3, <2>4, <2>5, <2>6, <2>7
  <1> QED
    BY <1>1, <1>2, <1>3, <1>4, <1>5, <1>6, <1>7 DEF Port!RxStep

LEMMA RetryPortInv ==
    ASSUME PortInv, NEW r \in Port!Retries, Port!RtStep(r)
    PROVE  PortInv'
  <1> USE SharedPortAssumption
      DEF PortInv, Port!TypeOK, Port!LockInv, Room, Started, Joined,
          Port!ConnectedIsOpen, Port!Epochs, Port!Retries, Port!RxStates, Port!RtStates,
          Port!CallStates, Port!OpenStates, Port!CloseStates, Port!Resting, Port!isOpen,
          Port!device, Port!port, Port!threads, Port!RtGoes, Port!Acquire, Port!Release,
          Port!RxAlive
  <1>1. ASSUME Port!RtLoop(r) PROVE PortInv'
    BY <1>1 DEF Port!RtLoop
  <1>2. ASSUME Port!RtList(r) PROVE PortInv'
    BY <1>2 DEF Port!RtList
  <1>3. ASSUME Port!RtTry(r) PROVE PortInv'
    <2>1. Port!TypeOK'
      BY <1>3 DEF Port!RtTry, Port!SerialOpen
    <2>2. Port!LockInv' /\ Room'
      BY <1>3 DEF Port!RtTry, Port!SerialOpen
    <2>3. Started' /\ Joined' /\ Port!ConnectedIsOpen'
      BY <1>3 DEF Port!RtTry, Port!SerialOpen
    <2> QED
      BY <2>1, <2>2, <2>3
  <1>4. ASSUME Port!RtUp(r) PROVE PortInv'
    BY <1>4 DEF Port!RtUp, Port!Opened
  <1>5. ASSUME Port!RtDown(r) PROVE PortInv'
    BY <1>5 DEF Port!RtDown
  <1>6. ASSUME Port!RtExit(r) PROVE PortInv'
    BY <1>6 DEF Port!RtExit
  <1> QED
    BY <1>1, <1>2, <1>3, <1>4, <1>5, <1>6 DEF Port!RtStep

\* The device comes and goes.
LEMMA DevicePortInv == ASSUME PortInv, Port!Environment PROVE PortInv'
  <1> USE SharedPortAssumption
      DEF PortInv, Port!TypeOK, Port!LockInv, Room, Started, Joined,
          Port!ConnectedIsOpen, Port!Epochs, Port!Retries, Port!isOpen, Port!device, Port!port,
          Port!threads
  <1>1. ASSUME Port!Unplug PROVE PortInv'
    <2>1. plugged' \in BOOLEAN
      <3>1. plugged' = FALSE
        BY <1>1 DEF Port!Unplug
      <3> QED
        BY <3>1, Zenon
    <2>2. Port!TypeOK'
      BY <1>1, <2>1 DEF Port!Unplug
    <2>3. (Port!LockInv /\ Room /\ Started /\ Joined /\ Port!ConnectedIsOpen)'
      BY <1>1 DEF Port!Unplug
    <2> QED
      BY <2>2, <2>3
  <1>2. ASSUME Port!Plug PROVE PortInv'
    BY <1>2 DEF Port!Plug
  <1> QED
    BY <1>1, <1>2, ReceiverPortInv DEF Port!Environment

LEMMA PortRests == ASSUME PortInv, UNCHANGED portVars PROVE PortInv'
BY DEF PortInv, portVars, Port!TypeOK, Port!LockInv, Room, Started, Joined,
       Port!ConnectedIsOpen, Port!isOpen

LEMMA PortThreadsInv == ASSUME PortInv, PortThreads PROVE PortInv'
BY CallerPortInv, ReceiverPortInv, RetryPortInv DEF PortThreads

-----------------------------------------------------------------------------
(***************************************************************************)
(* The server                                                              *)
(***************************************************************************)

\* Whatever happens in the server, the ends of its callbacks included.
ServerStep ==
    \/ TcpThreads \/ Peers \/ Tcp!Run \/ Tcp!SetStop
    \/ \E c \in Conns : Tcp!ConnectDone(c) \/ Tcp!ConnectRaises(c) \/ Tcp!DisconnectDone(c)

\* A connection between accept() and start() is the one in the accept thread's hands.
InHand ==
    \A c \in Conns :
        /\ conn[c] = "accepted" <=> acc = "accepted" /\ accConn = c
        /\ conn[c] = "added" <=> acc = "added" /\ accConn = c

Distinct == \A c, d \in Conns : Addr[c] = Addr[d] => c = d

ServerInv == Tcp!TypeOK /\ InHand /\ Tcp!ServedIsListed

LEMMA ServerInit == Tcp!Init => ServerInv
  <1> SUFFICES ASSUME Tcp!Init PROVE ServerInv
    OBVIOUS
  <1>1. Tcp!TypeOK
    <2>1. stopFlag \in BOOLEAN
      BY Zenon DEF Tcp!Init
    <2>2. stop \in [Conns -> BOOLEAN] /\ peerGone \in [Conns -> BOOLEAN]
      BY DEF Tcp!Init
    <2>3. conn \in [Conns -> Tcp!ConnStates] /\ [c \in Conns |-> 0] \in [Conns -> 0 .. 0 + 1]
      BY DEF Tcp!Init, Tcp!ConnStates
    <2> QED
      BY <2>1, <2>2, <2>3 DEF Tcp!Init, Tcp!TypeOK, Tcp!AccStates, Tcp!StopStates
  <1>2. InHand /\ Tcp!ServedIsListed
    BY SharedPortAssumption DEF Tcp!Init, InHand, Tcp!ServedIsListed, Callers
  <1> QED
    BY <1>1, <1>2 DEF ServerInv

LEMMA ServerType == ASSUME Tcp!TypeOK, ServerStep PROVE Tcp!TypeOK'
  <1> USE SharedPortAssumption
      DEF Tcp!TypeOK, Tcp!AccStates, Tcp!ConnStates, Tcp!StopStates, Tcp!Goes, Tcp!AccGoes,
          Tcp!StopGoes, Tcp!listener, Tcp!stopping
  <1>1. CASE Tcp!AcceptStep
    BY <1>1 DEF Tcp!AcceptStep, Tcp!AcceptEnd, Tcp!Accept, Tcp!ConstructFails,
                Tcp!AddClient, Tcp!StartClient
  <1>2. ASSUME NEW c \in Conns,
               \/ Tcp!ConnectDone(c) \/ Tcp!ConnectRaises(c) \/ Tcp!RecvTimeout(c)
               \/ Tcp!CloseClient(c) \/ Tcp!DisconnectDone(c)
        PROVE  Tcp!TypeOK'
    BY <1>2 DEF Tcp!ConnectDone, Tcp!ConnectRaises, Tcp!RecvTimeout, Tcp!CloseClient,
                Tcp!DisconnectDone
  <1>3. ASSUME NEW c \in Conns, Tcp!RecvEmpty(c) PROVE Tcp!TypeOK'
    BY <1>3 DEF Tcp!RecvEmpty
  <1>4. ASSUME NEW c \in Conns, Tcp!Turn(c) PROVE Tcp!TypeOK'
    BY <1>4 DEF Tcp!Turn
  <1>5. ASSUME NEW c \in Conns, Tcp!RemoveClient(c) PROVE Tcp!TypeOK'
    BY <1>5 DEF Tcp!RemoveClient
  <1>6. CASE Tcp!StopStep
    BY <1>6 DEF Tcp!StopStep, Tcp!Snapshot, Tcp!CloseSocket, Tcp!JoinAccept, Tcp!StopDone,
                Tcp!StopClient, Tcp!JoinClient
  <1>7. CASE Peers
    <2>1. ASSUME NEW c \in Conns, Tcp!Connect(c) PROVE Tcp!TypeOK'
      BY <2>1 DEF Tcp!Connect
    <2>2. ASSUME NEW c \in Conns, Tcp!PeerLeaves(c) PROVE Tcp!TypeOK'
      BY <2>2 DEF Tcp!PeerLeaves
    <2> QED
      BY <1>7, <2>1, <2>2 DEF Peers
  <1>8. CASE Tcp!Run \/ Tcp!SetStop
    BY <1>8 DEF Tcp!Run, Tcp!SetStop
  <1> QED
    BY <1>1, <1>2, <1>3, <1>4, <1>5, <1>6, <1>7, <1>8 DEF ServerStep, TcpThreads, ClientStep

\* With different addresses the only member equal to c is c itself.
LEMMA EqualsSelf ==
    ASSUME Tcp!TypeOK, Distinct, NEW c \in Conns
    PROVE  Tcp!Equals(c) = clients \cap {c}
  BY DEF Tcp!Equals, Distinct, Tcp!TypeOK

LEMMA ServerKeeps == ASSUME ServerInv, Distinct, ServerStep PROVE ServerInv'
  <1>1. Tcp!TypeOK'
    BY ServerType DEF ServerInv
  <1> DEFINE Rest == InHand /\ Tcp!ServedIsListed
  <1> SUFFICES Rest'
    BY <1>1 DEF ServerInv
  <1> USE SharedPortAssumption
      DEF ServerInv, Tcp!TypeOK, InHand, Tcp!ServedIsListed, Tcp!AccStates, Tcp!ConnStates,
          Tcp!StopStates, Tcp!Goes, Tcp!AccGoes, Tcp!StopGoes, Tcp!listener, Tcp!stopping,
          Callers
  <1>2. CASE Tcp!AcceptEnd
    BY <1>2 DEF Tcp!AcceptEnd
  <1>3. ASSUME NEW c \in Conns, Tcp!Accept(c) PROVE Rest'
    BY <1>3 DEF Tcp!Accept
  <1>4. ASSUME NEW c \in Conns, Tcp!ConstructFails(c) PROVE Rest'
    BY <1>4 DEF Tcp!ConstructFails
  <1>5. ASSUME NEW c \in Conns, Tcp!AddClient(c) PROVE Rest'
    <2>1. Tcp!Equals(c) = {}
      BY <1>5, EqualsSelf DEF Tcp!AddClient
    <2> QED
      BY <1>5, <2>1 DEF Tcp!AddClient
  <1>6. ASSUME NEW c \in Conns, Tcp!StartClient(c) PROVE Rest'
    BY <1>6 DEF Tcp!StartClient
  <1>7. ASSUME NEW c \in Conns,
               \/ Tcp!ConnectDone(c) \/ Tcp!ConnectRaises(c) \/ Tcp!RecvTimeout(c)
               \/ Tcp!CloseClient(c)
        PROVE  Rest'
    BY <1>7 DEF Tcp!ConnectDone, Tcp!ConnectRaises, Tcp!RecvTimeout, Tcp!CloseClient
  <1>8. ASSUME NEW c \in Conns, Tcp!RecvEmpty(c) \/ Tcp!Turn(c) \/ Tcp!DisconnectDone(c)
        PROVE  Rest'
    BY <1>8 DEF Tcp!RecvEmpty, Tcp!Turn, Tcp!DisconnectDone
  <1>9. ASSUME NEW c \in Conns, Tcp!RemoveClient(c) PROVE Rest'
    <2>1. Tcp!Equals(c) = {c}
      BY <1>9, EqualsSelf DEF Tcp!RemoveClient
    <2> QED
      BY <1>9, <2>1 DEF Tcp!RemoveClient
  <1>10. CASE Tcp!StopStep
    BY <1>10 DEF Tcp!StopStep, Tcp!Snapshot, Tcp!CloseSocket, Tcp!JoinAccept, Tcp!StopDone,
                 Tcp!StopClient, Tcp!JoinClient
  <1>11. CASE Peers
    BY <1>11 DEF Peers, Tcp!Connect, Tcp!PeerLeaves
  <1>12. CASE Tcp!Run \/ Tcp!SetStop
    BY <1>12 DEF Tcp!Run, Tcp!SetStop
  <1> QED
    BY <1>2, <1>3, <1>4, <1>5, <1>6, <1>7, <1>8, <1>9, <1>10, <1>11, <1>12
    DEF ServerStep, TcpThreads, ClientStep, Tcp!AcceptStep

LEMMA ServerRests == ASSUME ServerInv, UNCHANGED tcpVars PROVE ServerInv'
BY DEF ServerInv, tcpVars, Tcp!TypeOK, InHand, Tcp!ServedIsListed

LEMMA ServerTypeRests == ASSUME Tcp!TypeOK, UNCHANGED tcpVars PROVE Tcp!TypeOK'
BY DEF tcpVars, Tcp!TypeOK

-----------------------------------------------------------------------------
(***************************************************************************)
(* How threads move                                                        *)
(***************************************************************************)

\* A caller goes through an open or through a close to its end; and behind __close the
\* port is closed.
LEMMA CallersMove ==
    ASSUME PortInv, PortThreads, NEW d \in Callers
    PROVE  /\ pc'[d] \in Port!OpenStates => pc[d] \in Port!OpenStates
           /\ pc[d] \in Port!OpenStates =>
                pc'[d] \in Port!OpenStates \cup {"opened", "failed"}
           /\ pc'[d] \in Port!CloseStates => pc[d] \in Port!CloseStates
           /\ pc[d] \in Port!CloseStates => pc'[d] \in Port!CloseStates \cup {"closed", "failed"}
           /\ pc'[d] = "closeWait" => pc[d] = "closeWait"
           /\ pc[d] = "closeWait" /\ pc'[d] # "closeWait" => handle' = "closed"
           /\ pc'[d] = "writing" => pc[d] = "writing"
           /\ pc[d] \in Port!Resting => pc'[d] = pc[d]
  <1> USE DEF PortInv, Port!TypeOK, Port!OpenStates, Port!CloseStates, Port!Resting, Port!Goes
  <1>1. ASSUME NEW c \in Callers,
               \/ Port!OpenReset(c) \/ Port!OpenTry(c) \/ Port!OpenUp(c) \/ Port!OpenDown(c)
               \/ Port!RetryTest(c) \/ Port!RxCheck(c) \/ Port!RxJoin(c) \/ Port!RxWait(c)
        PROVE  \/ pc' = [pc EXCEPT ![c] = "openWait"] /\ pc[c] = "reset"
               \/ pc' = [pc EXCEPT ![c] = "opening"] /\ pc[c] = "openWait"
               \/ pc' = [pc EXCEPT ![c] = "retryTest"] /\ pc[c] = "opening"
               \/ pc' = [pc EXCEPT ![c] = "opened"] /\ pc[c] \in {"opening", "retryTest"}
               \/ pc' = [pc EXCEPT ![c] = "failed"] /\ pc[c] = "retryTest"
               \/ pc' = [pc EXCEPT ![c] = "rxJoin"] /\ pc[c] = "rxCheck"
               \/ pc' = [pc EXCEPT ![c] = "rxWait"] /\ pc[c] = "rxJoin"
               \/ pc' = [pc EXCEPT ![c] = "rtCheck"] /\ pc[c] \in {"rxCheck", "rxWait"}
    BY <1>1 DEF Port!OpenReset, Port!OpenTry, Port!OpenUp, Port!OpenDown, Port!RetryTest,
                Port!RxCheck, Port!RxJoin, Port!RxWait
  <1>2. ASSUME NEW c \in Callers,
               \/ Port!RtCheck(c) \/ Port!RtAliveTest(c) \/ Port!RtJoin(c) \/ Port!RtWait(c)
               \/ Port!SendEnd(c)
        PROVE  \/ pc' = [pc EXCEPT ![c] = "rtAlive"] /\ pc[c] = "rtCheck"
               \/ pc' = [pc EXCEPT ![c] = "rtJoin"] /\ pc[c] = "rtAlive"
               \/ pc' = [pc EXCEPT ![c] = "rtWait"] /\ pc[c] = "rtJoin"
               \/ pc' = [pc EXCEPT ![c] = "closed"]
                     /\ pc[c] \in {"rtCheck", "rtAlive", "rtWait"}
               \/ pc' = [pc EXCEPT ![c] = "failed"] /\ pc[c] \in {"rtAlive", "rtJoin"}
               \/ pc' = [pc EXCEPT ![c] = "opened"] /\ pc[c] = "writing"
    BY <1>2 DEF Port!RtCheck, Port!RtAliveTest, Port!RtJoin, Port!RtWait, Port!SendEnd
  <1>3. ASSUME NEW c \in Callers, Port!CloseBody(c)
        PROVE  pc' = [pc EXCEPT ![c] = "rxCheck"] /\ pc[c] = "closeWait" /\ handle' = "closed"
    BY <1>3 DEF Port!CloseBody, Port!CloseHandle
  <1>4. ASSUME \/ \E e \in Port!Epochs : Port!RxStep(e)
               \/ \E r \in Port!Retries : Port!RtStep(r)
        PROVE  pc' = pc
    BY <1>4 DEF Port!RxStep, Port!RxStart, Port!RxEnd, Port!RxCheckEpoch, Port!RxCheckFlag,
                Port!RxClose, Port!RtStep, Port!RtLoop, Port!RtList, Port!RtTry, Port!RtUp,
                Port!RtDown, Port!RtExit
  <1>5. CASE pc' = pc
    BY <1>5
  <1>6. ASSUME NEW c \in Callers, Port!CallerStep(c), d # c PROVE pc'[d] = pc[d]
    BY <1>1, <1>2, <1>3, <1>6 DEF Port!CallerStep
  <1>7. CASE Port!CallerStep(d)
    BY <1>1, <1>2, <1>3, <1>7 DEF Port!CallerStep
  <1> QED
    BY <1>4, <1>5, <1>6, <1>7 DEF PortThreads

\* As long as no reconnect thread has been started, the device is opened by callers only.
LEMMA OpenedByCaller ==
    ASSUME PortInv, PortThreads \/ Port!Environment
    PROVE  /\ retries' = 0 => retries = 0
           /\ handle = "closed" /\ handle' # "closed" /\ retries = 0 =>
                \E d \in Callers : pc[d] = "openWait" /\ pc'[d] = "opening"
  <1> DEFINE Small == /\ retries' = 0 => retries = 0
                      /\ handle = "closed" => handle' = "closed"
  <1> USE DEF PortInv, Port!TypeOK, Started, Port!port, Port!threads, Port!device
  <1>1. ASSUME NEW c \in Callers, Port!CallerStep(c), ~Port!OpenTry(c) PROVE Small
    BY <1>1 DEF Port!CallerStep, Port!OpenReset, Port!OpenUp, Port!Opened, Port!OpenDown,
                Port!RetryTest, Port!StartRetry, Port!CloseBody, Port!CloseHandle,
                Port!RxCheck, Port!RxJoin, Port!RxWait, Port!RtCheck, Port!RtAliveTest,
                Port!RtJoin, Port!RtWait, Port!SendEnd
  <1>2. ASSUME NEW c \in Callers, Port!OpenTry(c)
        PROVE  /\ retries' = retries
               /\ pc[c] = "openWait" /\ pc'[c] = "opening"
    BY <1>2 DEF Port!OpenTry, Port!Goes
  <1>3. ASSUME NEW e \in Port!Epochs, Port!RxStep(e) \/ Port!RxStale(e) \/ Port!RxGlitch(e)
        PROVE  Small
    BY <1>3 DEF Port!RxStep, Port!RxStart, Port!RxEnd, Port!RxCheckEpoch, Port!RxCheckFlag,
                Port!RxClose, Port!CloseHandle, Port!StartRetry, Port!RxStale, Port!RxGlitch
  <1>4. ASSUME NEW r \in Port!Retries, Port!RtStep(r), retries = 0 PROVE FALSE
    <2>1. rt[r] = "none"
      BY <1>4 DEF Port!Retries
    <2> QED
      BY <1>4, <2>1 DEF Port!RtStep, Port!RtLoop, Port!RtList, Port!RtTry, Port!RtUp,
                        Port!RtDown, Port!RtExit, Port!RtGoes
  <1>5. ASSUME NEW r \in Port!Retries, Port!RtStep(r) PROVE retries' = retries
    BY <1>5 DEF Port!RtStep, Port!RtLoop, Port!RtList, Port!RtTry, Port!RtUp, Port!Opened,
                Port!RtDown, Port!RtExit
  <1>6. CASE Port!Unplug \/ Port!Plug
    BY <1>6 DEF Port!Unplug, Port!Plug, Port!isOpen
  <1> QED
    BY <1>1, <1>2, <1>3, <1>4, <1>5, <1>6 DEF PortThreads, Port!Environment

\* The device coming and going moves no caller.
LEMMA CallersRest == ASSUME Port!Environment PROVE pc' = pc
BY DEF Port!Environment, Port!Unplug, Port!Plug, Port!RxStale, Port!RxGlitch

\* A connection goes through its states in order; a served one stays on the register up to
\* the step that takes it off.
LEMMA ConnectionsMove ==
    ASSUME Tcp!TypeOK, TcpThreads \/ Peers, NEW d \in Conns, conn'[d] # conn[d]
    PROVE  \/ conn[d] = "new" /\ conn'[d] = "backlog"
           \/ conn[d] = "backlog" /\ conn'[d] \in {"accepted", "dead"}
           \/ conn[d] = "accepted" /\ conn'[d] \in {"added", "dead"}
           \/ conn[d] = "added" /\ conn'[d] = "connecting"
           \/ conn[d] \in {"recv", "turn"} /\ conn'[d] \in {"recv", "turn", "closing"}
           \/ conn[d] = "closing" /\ conn'[d] = "removing"
           \/ conn[d] = "removing" /\ conn'[d] = "removed" /\ Tcp!Equals(d) # {}
           \/ conn[d] = "removing" /\ conn'[d] = "raised" /\ Tcp!Equals(d) = {}
  <1> USE DEF Tcp!TypeOK, Tcp!Goes, Tcp!listener, Tcp!stopping
  <1>1. ASSUME NEW c \in Conns,
               \/ Tcp!Accept(c) \/ Tcp!ConstructFails(c) \/ Tcp!AddClient(c)
               \/ Tcp!StartClient(c) \/ Tcp!Connect(c)
        PROVE  \/ conn' = [conn EXCEPT ![c] = "accepted"] /\ conn[c] = "backlog"
               \/ conn' = [conn EXCEPT ![c] = "dead"] /\ conn[c] = "accepted"
               \/ conn' = [conn EXCEPT ![c] = "added"] /\ conn[c] = "accepted"
               \/ conn' = [conn EXCEPT ![c] = "connecting"] /\ conn[c] = "added"
               \/ conn' = [conn EXCEPT ![c] = "backlog"] /\ conn[c] = "new"
    BY <1>1 DEF Tcp!Accept, Tcp!ConstructFails, Tcp!AddClient, Tcp!StartClient, Tcp!Connect
  <1>2. ASSUME NEW c \in Conns,
               Tcp!RecvEmpty(c) \/ Tcp!RecvTimeout(c) \/ Tcp!Turn(c) \/ Tcp!CloseClient(c)
        PROVE  \/ conn' = [conn EXCEPT ![c] = "turn"] /\ conn[c] = "recv"
               \/ conn' = [conn EXCEPT ![c] = "closing"] /\ conn[c] \in {"recv", "turn"}
               \/ conn' = [conn EXCEPT ![c] = "recv"] /\ conn[c] = "turn"
               \/ conn' = [conn EXCEPT ![c] = "removing"] /\ conn[c] = "closing"
    BY <1>2 DEF Tcp!RecvEmpty, Tcp!RecvTimeout, Tcp!Turn, Tcp!CloseClient
  <1>3. ASSUME NEW c \in Conns, Tcp!RemoveClient(c)
        PROVE  /\ conn[c] = "removing"
               /\ IF Tcp!Equals(c) = {} THEN conn' = [conn EXCEPT ![c] = "raised"]
                                        ELSE conn' = [conn EXCEPT ![c] = "removed"]
    BY <1>3 DEF Tcp!RemoveClient
  <1>4. ASSUME Tcp!CloseSocket
        PROVE  conn[d] = "backlog" /\ conn'[d] = "dead"
    BY <1>4 DEF Tcp!CloseSocket
  <1>5. ASSUME \/ Tcp!AcceptEnd \/ Tcp!Snapshot \/ Tcp!JoinAccept \/ Tcp!StopDone
               \/ \E c \in Conns : Tcp!StopClient(c) \/ Tcp!JoinClient(c) \/ Tcp!PeerLeaves(c)
        PROVE  conn' = conn
    BY <1>5 DEF Tcp!AcceptEnd, Tcp!Snapshot, Tcp!JoinAccept, Tcp!StopDone, Tcp!StopClient,
                Tcp!JoinClient, Tcp!PeerLeaves
  <1>6. ASSUME NEW c \in Conns, Tcp!RemoveClient(c), c # d PROVE conn'[d] = conn[d]
    BY <1>3, <1>6
  <1> QED
    BY <1>1, <1>2, <1>3, <1>4, <1>5, <1>6
    DEF TcpThreads, Peers, ClientStep, Tcp!AcceptStep, Tcp!StopStep

-----------------------------------------------------------------------------
(***************************************************************************)
(* stop() of a server at whose door nobody is                              *)
(***************************************************************************)

\* Nobody is between the kernel's queue and a thread of its own.
NobodyAtDoor == \A c \in Conns : conn[c] \notin {"backlog", "accepted", "added"}

\* From the first snapshot on the register only shrinks; all in the snapshot have been told
\* or are still to be told; and who is on the register in the end is still to be joined or
\* has ended by an exception of on_connect.
Reaping ==
    /\ stopper # "idle" => NobodyAtDoor
    /\ stopper \in {"asking", "joinAcc", "joining", "stopped"} =>
          /\ clients \subseteq asked
          /\ \A c \in asked : stop[c] \/ (stopper = "asking" /\ c \in todo)
    /\ stopper \in {"joining", "stopped"} =>
          \A c \in clients : c \in todo \/ conn[c] = "lost"
    /\ stopper = "stopped" => todo = {}
    /\ stopper # "raised"

LEMMA ReapingInit == Tcp!Init => Reaping
BY DEF Tcp!Init, Reaping

LEMMA ReapingRests == ASSUME Reaping, UNCHANGED tcpVars PROVE Reaping'
BY DEF Reaping, NobodyAtDoor, tcpVars

\* stop() gives up on nobody when joins wait.
LEMMA ReapingKeeps ==
    ASSUME ServerInv, Distinct, ~SlowThreads, Reaping, ServerStep,
           stopper' # "idle" => NobodyAtDoor'
    PROVE  Reaping'
  <1> USE DEF ServerInv, Tcp!TypeOK, Reaping, Tcp!Goes, Tcp!AccGoes, Tcp!StopGoes,
              Tcp!listener, Tcp!stopping
  <1>1. ASSUME NEW c \in Conns,
               Tcp!Accept(c) \/ Tcp!ConstructFails(c) \/ Tcp!StartClient(c) \/ Tcp!Connect(c)
        PROVE  Reaping'
    BY <1>1 DEF Tcp!Accept, Tcp!ConstructFails, Tcp!StartClient, Tcp!Connect
  <1>2. ASSUME NEW c \in Conns, Tcp!AddClient(c) PROVE Reaping'
    BY <1>2 DEF Tcp!AddClient, NobodyAtDoor
  <1>3. ASSUME NEW c \in Conns,
               \/ Tcp!ConnectDone(c) \/ Tcp!ConnectRaises(c) \/ Tcp!RecvTimeout(c)
               \/ Tcp!CloseClient(c) \/ Tcp!DisconnectDone(c) \/ Tcp!PeerLeaves(c)
        PROVE  Reaping'
    BY <1>3 DEF Tcp!ConnectDone, Tcp!ConnectRaises, Tcp!RecvTimeout, Tcp!CloseClient,
                Tcp!DisconnectDone, Tcp!PeerLeaves
  <1>4. ASSUME NEW c \in Conns, Tcp!RecvEmpty(c) \/ Tcp!Turn(c) PROVE Reaping'
    BY <1>4 DEF Tcp!RecvEmpty, Tcp!Turn
  <1>5. ASSUME NEW c \in Conns, Tcp!RemoveClient(c) PROVE Reaping'
    BY <1>5 DEF Tcp!RemoveClient
  <1>6. CASE Tcp!AcceptEnd \/ Tcp!Run \/ Tcp!SetStop
    BY <1>6 DEF Tcp!AcceptEnd, Tcp!Run, Tcp!SetStop
  <1>7. CASE Tcp!Snapshot
    BY <1>7 DEF Tcp!Snapshot
  <1>8. ASSUME NEW c \in Conns, Tcp!StopClient(c) PROVE Reaping'
    BY <1>8 DEF Tcp!StopClient
  <1>9. CASE Tcp!CloseSocket \/ Tcp!JoinAccept \/ Tcp!StopDone
    BY <1>9 DEF Tcp!CloseSocket, Tcp!JoinAccept, Tcp!StopDone
  <1>10. ASSUME NEW c \in Conns, Tcp!JoinClient(c) PROVE Reaping'
    <2>1. conn[c] # "added"
      BY <1>10 DEF Tcp!JoinClient, NobodyAtDoor
    <2>2. c \in clients => Tcp!Ended(c)
      BY <1>10, <2>1 DEF Tcp!JoinClient
    <2>3. c \in clients => conn[c] = "lost"
      BY <2>2 DEF Tcp!ServedIsListed, Tcp!Ended
    <2> QED
      BY <1>10, <2>1, <2>3 DEF Tcp!JoinClient
  <1> QED
    BY <1>1, <1>2, <1>3, <1>4, <1>5, <1>6, <1>7, <1>8, <1>9, <1>10
    DEF ServerStep, TcpThreads, Peers, ClientStep, Tcp!AcceptStep, Tcp!StopStep

\* Only a new connection can come to the door.
LEMMA DoorStaysEmpty ==
    ASSUME Tcp!TypeOK, NobodyAtDoor, ServerStep,
           \A c \in Conns : ~(conn[c] = "new" /\ conn'[c] = "backlog")
    PROVE  NobodyAtDoor'
  <1>1. CASE TcpThreads \/ Peers
    BY <1>1, ConnectionsMove DEF NobodyAtDoor
  <1>2. CASE Tcp!Run \/ Tcp!SetStop
    BY <1>2 DEF Tcp!Run, Tcp!SetStop, NobodyAtDoor
  <1>3. ASSUME NEW c \in Conns,
               Tcp!ConnectDone(c) \/ Tcp!ConnectRaises(c) \/ Tcp!DisconnectDone(c)
        PROVE  NobodyAtDoor'
    BY <1>3 DEF Tcp!ConnectDone, Tcp!ConnectRaises, Tcp!DisconnectDone, Tcp!Goes,
                NobodyAtDoor, Tcp!TypeOK
  <1> QED
    BY <1>1, <1>2, <1>3 DEF ServerStep

\* stop() begins when it is called and ends once.
LEMMA StopperRests ==
    ASSUME TcpThreads \/ Peers, stopper \in {"idle", "stopped"}
    PROVE  stopper' = stopper
  <1>1. CASE Tcp!StopStep
    BY <1>1 DEF Tcp!StopStep, Tcp!Snapshot, Tcp!CloseSocket, Tcp!JoinAccept, Tcp!StopDone,
                Tcp!StopClient, Tcp!JoinClient, Tcp!StopGoes
  <1>2. CASE Tcp!AcceptStep
    BY <1>2 DEF Tcp!AcceptStep, Tcp!AcceptEnd, Tcp!Accept, Tcp!ConstructFails,
                Tcp!AddClient, Tcp!StartClient, Tcp!stopping
  <1>3. CASE (\E c \in Conns : ClientStep(c)) \/ Peers
    BY <1>3 DEF ClientStep, Peers, Tcp!RecvEmpty, Tcp!RecvTimeout, Tcp!Turn, Tcp!CloseClient,
                Tcp!RemoveClient, Tcp!Connect, Tcp!PeerLeaves, Tcp!stopping
  <1> QED
    BY <1>1, <1>2, <1>3 DEF TcpThreads

-----------------------------------------------------------------------------
(***************************************************************************)
(* Opens and closes that do not meet                                       *)
(***************************************************************************)

\* A caller of close() that has still to see the receive thread end.
Behind(c) == pc[c] \in {"rxCheck", "rxJoin"} \/ (pc[c] = "rxWait" /\ target[c] = epoch)

\* The device is there; callers that open the port and callers that close it are never inside
\* together.  Then an open port is read, and the receiver of a port that has been closed does
\* not outlive the close().
Patient ==
    /\ plugged /\ handle # "dead" /\ retries = 0
    /\ \A c \in Callers :
          /\ pc[c] = "opening" => handle = "live"
          /\ pc[c] \in Port!CloseStates => closeSet
          /\ pc[c] \in Port!CloseStates => \A d \in Callers : pc[d] \notin Port!OpenStates
    /\ isConnected => rx[epoch] \in {"start", "loop"}
    /\ epoch > 0 /\ Port!RxAlive(epoch) /\ ~isConnected => \E c \in Callers : Behind(c)
    /\ \A e \in Port!Epochs :
          /\ rx[e] # "closeWait"
          /\ rx[e] = "checkFlag" => e = epoch
          /\ e = epoch /\ rx[e] \in {"checkEpoch", "checkFlag"} => ~isConnected /\ closeSet

LEMMA PatientInit == ASSUME Port!Init, plugged PROVE Patient
BY SharedPortAssumption
DEF Port!Init, Patient, Behind, Port!OpenStates, Port!CloseStates, Port!Epochs

LEMMA PatientRests == ASSUME Patient, UNCHANGED portVars PROVE Patient'
  <1>1. /\ plugged' = plugged /\ handle' = handle /\ isConnected' = isConnected
        /\ closeSet' = closeSet /\ epoch' = epoch /\ rx' = rx /\ retries' = retries
        /\ pc' = pc /\ target' = target
    BY DEF portVars
  <1> QED
    BY <1>1, Zenon DEF Patient, Behind, Port!RxAlive

\* Somebody asks for the port while nobody closes it.
LEMMA PatientAsk ==
    ASSUME PortInv, Patient, NEW c \in Callers, Port!EnsureOpen(c),
           \A d \in Callers : pc[d] \notin Port!CloseStates
    PROVE  Patient' /\ isConnected' = isConnected /\ (pc'[c] = "opened" => isConnected')
BY DEF PortInv, Port!TypeOK, Patient, Behind, Port!OpenStates, Port!CloseStates, Port!RxAlive,
       Port!EnsureOpen, Port!Resting, Port!device, Port!port, Port!threads

\* Somebody closes the port while nobody opens it.
LEMMA PatientLetGo ==
    ASSUME PortInv, Patient, NEW c \in Callers, Port!CloseFlag(c),
           \A d \in Callers : pc[d] \notin Port!OpenStates
    PROVE  Patient' /\ isConnected' = isConnected
BY DEF PortInv, Port!TypeOK, Patient, Behind, Port!OpenStates, Port!CloseStates, Port!RxAlive,
       Port!CloseFlag, Port!Resting, Port!device, Port!port, Port!threads

\* While somebody opens the port no receiver of the present epoch is on its way out.
LEMMA NobodyLeaves ==
    ASSUME PortInv, Patient, NEW c \in Callers, pc[c] \in Port!OpenStates
    PROVE  /\ \A d \in Callers : pc[d] \notin Port!CloseStates /\ ~Behind(d)
           /\ \A e \in Port!Epochs : rx[e] # "checkFlag"
           /\ epoch > 0 => rx[epoch] # "checkEpoch"
  <1>1. \A d \in Callers : pc[d] \notin Port!CloseStates
    BY DEF Patient
  <1>2. \A d \in Callers : ~Behind(d)
    BY <1>1 DEF Behind, Port!CloseStates
  <1> QED
    BY <1>1, <1>2 DEF Patient, Port!RxAlive, Port!Epochs, PortInv, Port!TypeOK

\* The caller of an open ends connected; and only a close() disconnects.
LEMMA PatientCaller ==
    ASSUME PortInv, ~SlowThreads, Patient, NEW c \in Callers, Port!CallerStep(c),
           pc[c] # "writing"
    PROVE  /\ Patient'
           /\ isConnected' \/ (~isConnected /\ pc'[c] # "opened") \/ pc[c] \in Port!CloseStates
  <1> USE SharedPortAssumption
      DEF PortInv, Port!TypeOK, Port!Goes, Port!Epochs, Port!device, Port!port, Port!threads,
          Port!OpenStates, Port!CloseStates
  <1>1. CASE Port!OpenReset(c)
    BY <1>1, NobodyLeaves
    DEF Port!OpenReset, Patient, Behind, Port!RxAlive, Started
  <1>2. CASE Port!OpenTry(c)
    BY <1>2 DEF Port!OpenTry, Port!SerialOpen, Port!isOpen, Patient, Behind, Port!RxAlive
  <1>3. CASE Port!OpenUp(c)
    <2>1. epoch + 1 \in 1 .. MaxEpoch
      BY <1>3 DEF Port!OpenUp, Room
    <2> QED
      BY <1>3, <2>1, NobodyLeaves DEF Port!OpenUp, Port!Opened, Patient, Behind
  <1>4. CASE Port!OpenDown(c) \/ Port!RetryTest(c)
    BY <1>4 DEF Port!OpenDown, Port!RetryTest, Joined, Patient, Port!isOpen
  <1>5. CASE Port!CloseBody(c)
    <2>1. closeSet /\ \A d \in Callers : pc[d] \notin Port!OpenStates
      BY <1>5 DEF Port!CloseBody, Patient
    <2> QED
      BY <1>5, <2>1 DEF Port!CloseBody, Port!CloseHandle, Patient, Behind
  <1>6. CASE Port!RxCheck(c)
    BY <1>6 DEF Port!RxCheck, Patient, Behind, Port!RxAlive
  <1>7. CASE Port!RxJoin(c)
    BY <1>7 DEF Port!RxJoin, Patient, Behind, Port!RxAlive
  <1>8. CASE Port!RxWait(c)
    BY <1>8 DEF Port!RxWait, Port!RxLeaving, Patient, Behind, Port!RxAlive
  <1>9. CASE Port!RtCheck(c)
    BY <1>9 DEF Port!RtCheck, Patient, Behind, Port!RxAlive
  <1>10. CASE Port!RtAliveTest(c) \/ Port!RtJoin(c)
    BY <1>10 DEF Port!RtAliveTest, Port!RtJoin, Joined, Patient
  <1>11. CASE Port!RtWait(c)
    BY <1>11 DEF Port!RtWait, Patient, Behind, Port!RxAlive
  <1>12. CASE Port!SendEnd(c)
    BY <1>12 DEF Port!SendEnd
  <1> QED
    BY <1>1, <1>2, <1>3, <1>4, <1>5, <1>6, <1>7, <1>8, <1>9, <1>10, <1>11, <1>12
    DEF Port!CallerStep

LEMMA PatientReceiver ==
    ASSUME PortInv, Patient, NEW e \in Port!Epochs, Port!RxStep(e) \/ Port!RxStale(e)
    PROVE  Patient' /\ isConnected' = isConnected /\ pc' = pc
  <1> USE SharedPortAssumption
      DEF PortInv, Port!TypeOK, Port!RxGoes, Port!Epochs, Port!device, Port!port, Port!threads,
          Patient, Behind, Port!RxAlive
  <1>1. CASE Port!RxStart(e)
    BY <1>1 DEF Port!RxStart
  <1>2. CASE Port!RxEnd(e)
    <2>1. ~isConnected
      BY <1>2 DEF Port!RxEnd, Port!ConnectedIsOpen, Port!isOpen
    <2>2. e = epoch => closeSet
      BY <1>2, <2>1 DEF Port!RxEnd, Port!CloseStates
    <2> QED
      BY <1>2, <2>1, <2>2 DEF Port!RxEnd
  <1>3. CASE Port!RxCheckEpoch(e)
    BY <1>3 DEF Port!RxCheckEpoch
  <1>4. CASE Port!RxCheckFlag(e)
    BY <1>4 DEF Port!RxCheckFlag
  <1>5. CASE Port!RxClose(e)
    BY <1>5 DEF Port!RxClose
  <1>6. CASE Port!RxStale(e)
    BY <1>6 DEF Port!RxStale
  <1> QED
    BY <1>1, <1>2, <1>3, <1>4, <1>5, <1>6 DEF Port!RxStep

\* Until the first fault the port stays patient.
LEMMA PatientPort ==
    ASSUME PortInv, ~SlowThreads, Patient, PortThreads \/ Port!Environment, faults' = 0,
           \A c \in Callers : pc[c] # "writing"
    PROVE  /\ Patient'
           /\ isConnected /\ (\A c \in Callers : pc[c] \notin Port!CloseStates) => isConnected'
           /\ \A c \in Callers : pc[c] # "opened" /\ pc'[c] = "opened" => isConnected'
  <1>1. ASSUME NEW r \in Port!Retries, Port!RtStep(r) PROVE FALSE
    <2>1. rt[r] = "none"
      BY SharedPortAssumption DEF Port!Retries, PortInv, Started, Patient
    <2> QED
      BY <1>1, <2>1 DEF Port!RtStep, Port!RtLoop, Port!RtList, Port!RtTry, Port!RtUp,
                        Port!RtDown, Port!RtExit, Port!RtGoes
  <1>2. ~Port!Unplug /\ ~Port!Plug /\ \A e \in Port!Epochs : ~Port!RxGlitch(e)
    <2>1. faults' # faults + 1
      BY DEF PortInv, Port!TypeOK
    <2> QED
      BY <2>1, Zenon DEF Port!Unplug, Port!Plug, Port!RxGlitch, Patient
  <1>3. ASSUME NEW c \in Callers, Port!CallerStep(c)
        PROVE  \A d \in Callers : d # c => pc'[d] = pc[d]
    BY <1>3
    DEF Port!CallerStep, Port!Goes, Port!OpenReset, Port!OpenTry, Port!OpenUp, Port!OpenDown,
        Port!RetryTest, Port!CloseBody, Port!RxCheck, Port!RxJoin, Port!RxWait, Port!RtCheck,
        Port!RtAliveTest, Port!RtJoin, Port!RtWait, Port!SendEnd, PortInv, Port!TypeOK
  <1>4. ASSUME NEW c \in Callers, Port!CallerStep(c)
        PROVE  /\ Patient'
               /\ isConnected /\ pc[c] \notin Port!CloseStates => isConnected'
               /\ pc'[c] = "opened" => isConnected'
    <2>1. pc[c] \in Port!CloseStates => pc'[c] # "opened"
      BY <1>4, CallersMove DEF PortThreads, Port!CloseStates
    <2> QED
      BY <1>4, <2>1, PatientCaller
  <1> QED
    BY <1>1, <1>2, <1>3, <1>4, PatientReceiver DEF PortThreads, Port!Environment

\* What a served client is promised.
LEMMA PatientIsRead ==
    ASSUME PortInv, Patient, isConnected
    PROVE  handle = "live" /\ Port!RxAlive(epoch)
BY DEF Patient, Port!RxAlive, PortInv, Port!TypeOK, Port!ConnectedIsOpen, Port!isOpen

\* Faults are counted.
LEMMA FaultsCount ==
    ASSUME PortInv, PortThreads \/ Port!Environment, faults' = 0
    PROVE  faults = 0
  <1>1. CASE PortThreads
    BY <1>1
    DEF PortThreads, Port!CallerStep, Port!OpenReset, Port!OpenTry, Port!OpenUp, Port!OpenDown,
        Port!RetryTest, Port!CloseBody, Port!RxCheck, Port!RxJoin, Port!RxWait, Port!RtCheck,
        Port!RtAliveTest, Port!RtJoin, Port!RtWait, Port!SendEnd, Port!RxStep, Port!RxStart,
        Port!RxEnd, Port!RxCheckEpoch, Port!RxCheckFlag, Port!RxClose, Port!RtStep,
        Port!RtLoop, Port!RtList, Port!RtTry, Port!RtUp, Port!RtDown, Port!RtExit, Port!device
  <1>2. CASE Port!Environment
    BY <1>2 DEF Port!Environment, Port!Unplug, Port!Plug, Port!RxStale, Port!RxGlitch,
                Port!device, PortInv, Port!TypeOK
  <1> QED
    BY <1>1, <1>2
-----------------------------------------------------------------------------
(***************************************************************************)
(* The promises of the parts                                               *)
(***************************************************************************)

\* Whatever happens in the port: the calls into it, its threads, its device.
PortUse ==
    \/ \E c \in Callers : Port!EnsureOpen(c) \/ Port!CloseFlag(c)
    \/ PortThreads \/ Port!Environment

\* A step of the server is a step that SerialServer allows.
LEMMA ServerDoes == ASSUME ServerStep \/ UNCHANGED tcpVars PROVE [Tcp!Next]_(Tcp!vars)
  <1>1. CASE ServerStep
    BY <1>1 DEF ServerStep, TcpThreads, ClientStep, Peers, Tcp!Next, Tcp!ClientStep, Tcp!Others
  <1>2. CASE UNCHANGED tcpVars
    BY <1>2 DEF tcpVars, Tcp!vars, Tcp!listener, Tcp!stopping
  <1> QED
    BY <1>1, <1>2

LEMMA PortUseInv == ASSUME PortInv, PortUse PROVE PortInv'
BY CallPortInv, PortThreadsInv, DevicePortInv DEF PortUse

\* As ConnectedIsRead of SerialPort: the cases in which a connected port may be unread are
\* a close() that has been called and a caller that is opening.
LEMMA PortIsRead == ASSUME PortInv, Port!ConnectedIsRead, PortUse PROVE Port!ConnectedIsRead'
  <1> USE SharedPortAssumption
      DEF PortInv, Port!TypeOK, Room, Started, Port!ConnectedIsRead, Port!RxAlive,
          Port!Epochs, Port!Resting, Port!Goes, Port!RxGoes, Port!port, Port!threads,
          Port!device
  <1>1. ASSUME NEW c \in Callers, Port!EnsureOpen(c) \/ Port!CloseFlag(c)
        PROVE  Port!ConnectedIsRead'
    BY <1>1 DEF Port!EnsureOpen, Port!CloseFlag
  <1>2. ASSUME NEW c \in Callers, Port!OpenReset(c) \/ Port!OpenTry(c)
        PROVE  Port!ConnectedIsRead'
    BY <1>2 DEF Port!OpenReset, Port!OpenTry, Port!Goes
  <1>3. ASSUME NEW c \in Callers, Port!OpenUp(c) PROVE Port!ConnectedIsRead'
    BY <1>3 DEF Port!OpenUp, Port!Opened
  <1>4. ASSUME NEW c \in Callers, Port!OpenDown(c) PROVE Port!ConnectedIsRead'
    BY <1>4 DEF Port!OpenDown
  <1>5. ASSUME NEW c \in Callers, Port!CloseBody(c) PROVE Port!ConnectedIsRead'
    BY <1>5 DEF Port!CloseBody, Port!CloseHandle
  <1>6. ASSUME NEW c \in Callers,
               \/ Port!RetryTest(c) \/ Port!RxCheck(c) \/ Port!RxJoin(c) \/ Port!RxWait(c)
               \/ Port!RtCheck(c) \/ Port!RtAliveTest(c) \/ Port!RtJoin(c) \/ Port!RtWait(c)
               \/ Port!SendEnd(c)
        PROVE  Port!ConnectedIsRead'
    BY <1>6 DEF Port!RetryTest, Port!RxCheck, Port!RxJoin, Port!RxWait, Port!RtCheck,
                Port!RtAliveTest, Port!RtJoin, Port!RtWait, Port!SendEnd, Port!Goes
  <1>7. ASSUME NEW e \in Port!Epochs, Port!RxStep(e) \/ Port!RxStale(e) \/ Port!RxGlitch(e)
        PROVE  Port!ConnectedIsRead'
    <2>1. CASE Port!RxClose(e)
      BY <2>1 DEF Port!RxClose, Port!CloseHandle
    <2>2. CASE ~Port!RxClose(e)
      <3>1. /\ isConnected' = isConnected /\ epoch' = epoch /\ closeSet' = closeSet
            /\ pc' = pc
        BY <1>7, <2>2 DEF Port!RxStep, Port!RxStart, Port!RxEnd, Port!RxCheckEpoch,
                          Port!RxCheckFlag, Port!RxStale, Port!RxGlitch
      <3>2. CASE Port!RxStart(e) \/ Port!RxEnd(e) \/ Port!RxStale(e) \/ Port!RxGlitch(e)
        <4>1. rx' = [rx EXCEPT ![e] = "loop"] \/ rx' = [rx EXCEPT ![e] = "checkEpoch"]
          BY <3>2 DEF Port!RxStart, Port!RxEnd, Port!RxStale, Port!RxGlitch
        <4> QED
          BY <3>1, <4>1
      <3>3. CASE Port!RxCheckEpoch(e)
        BY <3>1, <3>3 DEF Port!RxCheckEpoch
      <3>4. CASE Port!RxCheckFlag(e)
        BY <3>1, <3>4 DEF Port!RxCheckFlag
      <3> QED
        BY <1>7, <2>2, <3>2, <3>3, <3>4 DEF Port!RxStep
    <2> QED
      BY <2>1, <2>2
  <1>8. ASSUME NEW r \in Port!Retries, Port!RtStep(r) PROVE Port!ConnectedIsRead'
    <2>1. CASE Port!RtUp(r)
      BY <1>8, <2>1 DEF Port!RtUp, Port!Opened, Port!RtGoes, Port!RtStates
    <2>2. CASE ~Port!RtUp(r)
      <3>1. /\ isConnected' = isConnected \/ isConnected' = FALSE
            /\ epoch' = epoch /\ closeSet' = closeSet /\ pc' = pc /\ rx' = rx
        BY <1>8, <2>2 DEF Port!RtStep, Port!RtLoop, Port!RtList, Port!RtTry, Port!SerialOpen,
                          Port!RtDown, Port!RtExit
      <3> QED
        BY <3>1
    <2> QED
      BY <2>1, <2>2
  <1>9. CASE Port!Unplug \/ Port!Plug
    BY <1>9 DEF Port!Unplug, Port!Plug
  <1> QED
    BY <1>1, <1>2, <1>3, <1>4, <1>5, <1>6, <1>7, <1>8, <1>9
    DEF PortUse, PortThreads, Port!CallerStep, Port!Environment

LEMMA PortReadRests ==
    ASSUME Port!ConnectedIsRead, UNCHANGED portVars
    PROVE  Port!ConnectedIsRead'
BY DEF portVars, Port!ConnectedIsRead, Port!RxAlive

\* What DropsNotified of SerialPort says of one step.
Heard == /\ isConnected /\ ~isConnected' => told' = "down"
         /\ told # "down" /\ told' = "down" => isConnected

LEMMA PortTells == ASSUME PortInv, PortUse PROVE Heard
  <1> USE DEF Port!port, Port!device, Port!threads, Heard
  <1>1. ASSUME Port!CloseHandle PROVE Heard
    BY <1>1 DEF Port!CloseHandle
  <1>2. ASSUME isConnected' /\ told' = told PROVE Heard
    BY <1>2
  <1>3. ASSUME isConnected' = isConnected /\ (told' = told \/ told' = "up") PROVE Heard
    BY <1>3
  <1>4. ASSUME NEW c \in Callers, Port!OpenDown(c) PROVE Heard
    <2>1. ~isConnected /\ told' = told
      BY <1>4 DEF Port!OpenDown, PortInv, Port!ConnectedIsOpen
    <2> QED
      BY <2>1
  <1>5. ASSUME NEW c \in Callers, \/ Port!EnsureOpen(c) \/ Port!CloseFlag(c)
                                  \/ Port!CallerStep(c)
        PROVE  Heard
    <2>1. CASE Port!OpenUp(c)
      BY <1>2, <2>1 DEF Port!OpenUp, Port!Opened
    <2>2. CASE Port!CloseBody(c)
      BY <1>1, <2>2 DEF Port!CloseBody
    <2>3. CASE ~Port!OpenUp(c) /\ ~Port!CloseBody(c) /\ ~Port!OpenDown(c)
      <3>1. isConnected' = isConnected /\ (told' = told \/ told' = "up")
        BY <1>5, <2>3
        DEF Port!EnsureOpen, Port!CloseFlag, Port!CallerStep, Port!OpenReset, Port!OpenTry,
            Port!SerialOpen, Port!RetryTest, Port!SendEnd, Port!RxCheck, Port!RxJoin,
            Port!RxWait, Port!RtCheck, Port!RtAliveTest, Port!RtJoin, Port!RtWait
      <3> QED
        BY <1>3, <3>1
    <2> QED
      BY <1>4, <2>1, <2>2, <2>3
  <1>6. ASSUME NEW e \in Port!Epochs, Port!RxStep(e) \/ Port!RxStale(e) \/ Port!RxGlitch(e)
        PROVE  Heard
    <2>1. CASE Port!RxClose(e)
      BY <1>1, <2>1 DEF Port!RxClose
    <2>2. CASE ~Port!RxClose(e)
      <3>1. isConnected' = isConnected /\ (told' = told \/ told' = "up")
        BY <1>6, <2>2 DEF Port!RxStep, Port!RxStart, Port!RxEnd, Port!RxCheckEpoch,
                          Port!RxCheckFlag, Port!RxStale, Port!RxGlitch
      <3> QED
        BY <1>3, <3>1
    <2> QED
      BY <2>1, <2>2
  <1>7. ASSUME NEW r \in Port!Retries, Port!RtStep(r) PROVE Heard
    <2>1. CASE Port!RtUp(r)
      BY <1>2, <2>1 DEF Port!RtUp, Port!Opened
    <2>2. CASE ~Port!RtUp(r)
      <3>1. isConnected' = isConnected /\ told' = told
        BY <1>7, <2>2 DEF Port!RtStep, Port!RtLoop, Port!RtList, Port!RtTry, Port!SerialOpen,
                          Port!RtDown, Port!RtExit
      <3> QED
        BY <1>3, <3>1
    <2> QED
      BY <2>1, <2>2
  <1>8. CASE Port!Unplug \/ Port!Plug
    BY <1>3, <1>8 DEF Port!Unplug, Port!Plug
  <1> QED
    BY <1>5, <1>6, <1>7, <1>8 DEF PortUse, PortThreads, Port!Environment
=============================================================================
