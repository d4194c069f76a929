-------------------------- MODULE CliServiceProofs --------------------------
(***************************************************************************)
(* What holds of the command line program: its types for any connections   *)
(* and bounds; and with distinct addresses that the device is let go of,   *)
(* and a client that does not hurry is served.                             *)
(***************************************************************************)
EXTENDS MCCliService, SharedPortProofs

\* Where a thread is in its callback, in the port and in the server goes together.
Control ==
    /\ \A c \in Conns :
          /\ cb[c] = "opening" =>
                /\ conn[c] = "connecting"
                /\ pc[c] \in Port!OpenStates \cup {"opened", "failed"}
          /\ cb[c] \in {"closing", "return"} => conn[c] = "removed"
          /\ pc[c] \in Port!OpenStates => cb[c] = "opening"
          /\ pc[c] \in Port!CloseStates => cb[c] = "return"
          /\ pc[c] # "writing"
    /\ pc[Main] \notin Port!OpenStates \cup {"writing"}
    /\ pc[Main] \in Port!CloseStates => main = "closing"

TypeInv == TypeOK /\ PortInv /\ Control

LEMMA TypeInit == Init => TypeInv
  <1> SUFFICES ASSUME Init PROVE TypeInv
    OBVIOUS
  <1>1. PortInv /\ Tcp!TypeOK
    BY PortInit, ServerInit DEF Init, ServerInv
  <1>2. asksStop \in BOOLEAN
    <2>1. asksStop = FALSE
      BY DEF Init
    <2> QED
      BY <2>1, Zenon
  <1>3. Control
    BY CliServiceAssumption
    DEF Init, Port!Init, Control, Port!OpenStates, Port!CloseStates, Callers
  <1> QED
    BY <1>1, <1>2, <1>3, CliServiceAssumption
    DEF TypeInv, TypeOK, PortInv, Init, Port!Init, Port!Resting, Callers

\* Every step of the program, hurried or not, orderly or not.
LEMMA TypeStep == ASSUME TypeInv, [Next]_vars PROVE TypeInv'
  <1> DEFINE Program == /\ asksStop \in BOOLEAN
                        /\ cb \in [Conns -> {"none", "opening", "closing", "return"}]
                        /\ main \in {"off", "waiting", "leaving", "stopping", "closing",
                                      "ended", "raised"}
  <1>0. /\ PortInv /\ Port!TypeOK /\ Tcp!TypeOK /\ Program /\ Control
        /\ Main \in Callers /\ Conns \subseteq Callers /\ Main \notin Conns
        /\ pc \in [Callers -> Port!CallStates] /\ conn \in [Conns -> Tcp!ConnStates]
    BY CliServiceAssumption, SharedPortAssumption
    DEF TypeInv, TypeOK, Callers, Port!TypeOK, Tcp!TypeOK
  <1>1. ASSUME PortInv', Tcp!TypeOK', Program', Control' PROVE TypeInv'
    <2>1. pc' \in [Callers -> Port!CallStates]
      BY <1>1 DEF PortInv, Port!TypeOK
    <2>2. \A c \in Callers : pc'[c] \notin Port!Resting =>
                                pc'[c] \in Port!OpenStates \cup Port!CloseStates \cup {"writing"}
      BY <2>1 DEF Port!CallStates, Port!OpenStates, Port!CloseStates
    <2>3. \A c \in Conns : pc'[c] \notin Port!Resting => cb'[c] \in {"opening", "return"}
      BY <1>0, <1>1, <2>2 DEF Control
    <2>4. pc'[Main] \notin Port!Resting => main' = "closing"
      BY <1>0, <1>1, <2>2 DEF Control
    <2> QED
      BY <1>1, <2>3, <2>4 DEF TypeInv, TypeOK, PortInv
  <1> USE DEF program
  <1>2. CASE PortStep
    <2>1. PortInv' /\ Tcp!TypeOK' /\ Program'
      BY <1>0, <1>2, PortThreadsInv, ServerTypeRests DEF PortStep
    <2>2. Control'
      <3> USE DEF PortStep, tcpVars, Control
      <3>1. ASSUME NEW c \in Conns
            PROVE  /\ cb'[c] = "opening" =>
                        /\ conn'[c] = "connecting"
                        /\ pc'[c] \in Port!OpenStates \cup {"opened", "failed"}
                   /\ cb'[c] \in {"closing", "return"} => conn'[c] = "removed"
                   /\ pc'[c] \in Port!OpenStates => cb'[c] = "opening"
                   /\ pc'[c] \in Port!CloseStates => cb'[c] = "return"
                   /\ pc'[c] # "writing"
        BY <1>0, <1>2, CallersMove DEF Port!Resting
      <3>2. /\ pc'[Main] \notin Port!OpenStates \cup {"writing"}
            /\ pc'[Main] \in Port!CloseStates => main' = "closing"
        BY <1>0, <1>2, CallersMove
      <3> QED
        BY <3>1, <3>2
    <2> QED
      BY <1>1, <2>1, <2>2
  <1>3. CASE TcpStep \/ Network
    <2>1. PortInv' /\ Tcp!TypeOK' /\ Program'
      BY <1>0, <1>3, PortRests, ServerType DEF TcpStep, Network, ServerStep
    <2>2. \A c \in Conns : conn[c] \in {"connecting", "removed"} => conn'[c] = conn[c]
      BY <1>0, <1>3, ConnectionsMove DEF TcpStep, Network
    <2>3. Control'
      BY <1>0, <1>3, <2>2 DEF TcpStep, Network, portVars, Control
    <2> QED
      BY <1>1, <2>1, <2>3
  <1>4. ASSUME NEW c \in Conns, ConnectOpen(c) PROVE TypeInv'
    <2>1. PortInv' /\ Tcp!TypeOK' /\ Program'
      BY <1>0, <1>4, CallPortInv, ServerTypeRests DEF ConnectOpen, CbGoes
    <2>2. Control'
      BY <1>0, <1>4
      DEF ConnectOpen, CbGoes, Port!EnsureOpen, tcpVars, Control, Port!OpenStates,
          Port!CloseStates
    <2> QED
      BY <1>1, <2>1, <2>2
  <1>5. ASSUME NEW c \in Conns, ConnectReturn(c) \/ ConnectRaises(c) \/ DisconnectReturn(c)
        PROVE  TypeInv'
    <2>1. PortInv' /\ Tcp!TypeOK' /\ Program'
      BY <1>0, <1>5, PortRests, ServerType
      DEF ConnectReturn, ConnectRaises, DisconnectReturn, CbGoes, ServerStep
    <2>2. Control'
      BY <1>0, <1>5
      DEF ConnectReturn, ConnectRaises, DisconnectReturn, Tcp!ConnectDone, Tcp!ConnectRaises,
          Tcp!DisconnectDone, Tcp!Goes, CbGoes, portVars, Control, Port!OpenStates,
          Port!CloseStates, Port!Resting
    <2> QED
      BY <1>1, <2>1, <2>2
  <1>6. ASSUME NEW c \in Conns, DisconnectCount(c) PROVE TypeInv'
    <2>1. PortInv' /\ Tcp!TypeOK' /\ Program'
      BY <1>0, <1>6, PortRests, ServerTypeRests DEF DisconnectCount, CbGoes
    <2>2. Control'
      BY <1>0, <1>6
      DEF DisconnectCount, CbGoes, portVars, tcpVars, Control, Port!OpenStates, Port!CloseStates
    <2> QED
      BY <1>1, <2>1, <2>2
  <1>7. ASSUME NEW c \in Conns, DisconnectClose(c) PROVE TypeInv'
    <2>1. PortInv' /\ Tcp!TypeOK' /\ Program'
      BY <1>0, <1>7, CallPortInv, ServerTypeRests DEF DisconnectClose, CbGoes
    <2>2. Control'
      BY <1>0, <1>7
      DEF DisconnectClose, CbGoes, Port!CloseFlag, tcpVars, Control, Port!OpenStates,
          Port!CloseStates
    <2> QED
      BY <1>1, <2>1, <2>2
  <1>8. CASE StartServer \/ StopServer
    <2>1. PortInv' /\ Tcp!TypeOK' /\ Program'
      BY <1>0, <1>8, PortRests, ServerType DEF StartServer, StopServer, MainGoes, ServerStep
    <2>2. Control'
      BY <1>0, <1>8
      DEF StartServer, StopServer, MainGoes, Tcp!Run, Tcp!SetStop, portVars, Control
    <2> QED
      BY <1>1, <2>1, <2>2
  <1>9. CASE RequestStop \/ Leave
    <2>1. PortInv' /\ Tcp!TypeOK'
      BY <1>0, <1>9, PortRests, ServerTypeRests DEF RequestStop, Leave
    <2>2. asksStop' \in BOOLEAN
      BY <1>0, <1>9, Zenon DEF RequestStop, Leave
    <2>3. Program'
      BY <1>0, <1>9, <2>2 DEF RequestStop, Leave, MainGoes
    <2>4. Control'
      BY <1>0, <1>9 DEF RequestStop, Leave, MainGoes, portVars, tcpVars, Control
    <2> QED
      BY <1>1, <2>1, <2>3, <2>4
  <1>10. CASE ClosePort
    <2>1. PortInv' /\ Tcp!TypeOK' /\ Program'
      BY <1>0, <1>10, CallPortInv, PortRests, ServerTypeRests DEF ClosePort, MainGoes
    <2>2. Control'
      BY <1>0, <1>10
      DEF ClosePort, MainGoes, Port!CloseFlag, portVars, tcpVars, Control, Port!OpenStates,
          Port!CloseStates
    <2> QED
      BY <1>1, <2>1, <2>2
  <1>11. CASE End
    <2>1. PortInv' /\ Tcp!TypeOK' /\ Program'
      BY <1>0, <1>11, PortRests, ServerTypeRests DEF End
    <2>2. Control'
      BY <1>0, <1>11 DEF End, portVars, tcpVars, Control, Port!CloseStates
    <2> QED
      BY <1>1, <2>1, <2>2
  <1>12. CASE Device
    <2>1. PortInv' /\ Tcp!TypeOK' /\ Program'
      BY <1>0, <1>12, DevicePortInv, ServerTypeRests DEF Device
    <2>2. Control'
      BY <1>0, <1>12, CallersRest DEF Device, tcpVars, Control
    <2> QED
      BY <1>1, <2>1, <2>2
  <1>13. CASE UNCHANGED vars
    <2>1. PortInv' /\ Tcp!TypeOK' /\ Program'
      BY <1>0, <1>13, PortRests, ServerTypeRests DEF vars
    <2>2. Control'
      BY <1>0, <1>13 DEF vars, portVars, tcpVars, Control
    <2> QED
      BY <1>1, <2>1, <2>2
  <1> QED
    BY <1>2, <1>3, <1>4, <1>5, <1>6, <1>7, <1>8, <1>9, <1>10, <1>11, <1>12, <1>13
    DEF Next, ClientCallback, MainStep

\* The program keeps its types, and a client's thread is inside the port only within its
\* callback, whatever is plugged and unplugged and however many connect.
THEOREM CliTypeCorrect == Spec => []TypeOK
  <1>1. TypeInv /\ [Next]_vars => TypeInv'
    BY TypeStep
  <1>2. TypeInv => TypeOK
    BY DEF TypeInv
  <1> QED
    BY TypeInit, <1>1, <1>2, PTL DEF Spec

\* A client that has still to count those that are left, or has counted nobody and not yet
\* closed; or one whose on_connect has raised, and that takes a reconnect thread.
WillClose(c) ==
    \/ conn[c] \in {"added", "connecting", "lost", "recv", "turn", "closing", "removing"}
    \/ conn[c] = "removed" /\ (cb[c] \in {"none", "closing"} \/ pc[c] = "closeWait")

OpenIsWanted == retries = 0 /\ handle # "closed" => \E c \in Conns : WillClose(c)

IdleInv == TypeInv /\ ServerInv /\ OpenIsWanted

\* Whatever the program does, the server makes a step of its own or none.
LEMMA ServerSteps == ASSUME [Next]_vars PROVE ServerStep \/ UNCHANGED tcpVars
  <1>1. CASE \/ PortStep \/ TcpStep \/ Network \/ Device \/ UNCHANGED vars
    BY <1>1 DEF PortStep, TcpStep, Network, Device, ServerStep, vars
  <1>2. CASE \E c \in Conns : ClientCallback(c)
    BY <1>2 DEF ClientCallback, ConnectOpen, ConnectReturn, ConnectRaises, DisconnectCount,
                DisconnectClose, DisconnectReturn, ServerStep
  <1>3. CASE MainStep \/ StartServer \/ RequestStop
    BY <1>3 DEF MainStep, Leave, StopServer, ClosePort, End, StartServer, RequestStop,
                ServerStep
  <1> QED
    BY <1>1, <1>2, <1>3 DEF Next

LEMMA ServerStays ==
    ASSUME ServerInv, Distinct, [Next]_vars
    PROVE  ServerInv'
BY ServerSteps, ServerKeeps, ServerRests

LEMMA OpenStaysWanted == ASSUME IdleInv, [Next]_vars PROVE OpenIsWanted'
  <1>0. /\ PortInv /\ Tcp!TypeOK /\ Control /\ Conns \subseteq Callers /\ Main \notin Conns
        /\ Callers = Conns \cup {Main}
        /\ conn \in [Conns -> Tcp!ConnStates] /\ clients \subseteq Conns
        /\ cb \in [Conns -> {"none", "opening", "closing", "return"}]
        /\ pc \in [Callers -> Port!CallStates]
    BY CliServiceAssumption, SharedPortAssumption
    DEF IdleInv, TypeInv, TypeOK, Callers, Tcp!TypeOK, Port!TypeOK
  <1> USE DEF program
  <1>1. CASE PortStep \/ Device
    <2> SUFFICES ASSUME retries' = 0, handle' # "closed"
                 PROVE  \E c \in Conns : WillClose(c)'
      BY DEF OpenIsWanted
    <2>1. retries = 0 /\ cb' = cb /\ conn' = conn
      BY <1>0, <1>1, OpenedByCaller DEF PortStep, Device, tcpVars
    <2>2. CASE handle = "closed"
      <3>1. PICK d \in Callers : pc[d] = "openWait"
        BY <1>0, <1>1, <2>1, <2>2, OpenedByCaller DEF PortStep, Device
      <3>2. d \in Conns /\ conn[d] = "connecting"
        BY <1>0, <3>1 DEF Control, Port!OpenStates
      <3> QED
        BY <2>1, <3>2 DEF WillClose
    <2>3. CASE handle # "closed"
      <3>1. PICK c \in Conns : WillClose(c)
        BY <2>1, <2>3 DEF IdleInv, OpenIsWanted
      <3>2. pc[c] = "closeWait" => pc'[c] = "closeWait"
        BY <1>0, <1>1, CallersMove, CallersRest DEF PortStep, Device
      <3> QED
        BY <2>1, <3>1, <3>2 DEF WillClose
    <2> QED
      BY <2>2, <2>3
  <1>2. CASE TcpStep \/ Network
    <2>1. /\ TcpThreads \/ Peers
          /\ retries' = retries /\ handle' = handle /\ cb' = cb /\ pc' = pc
      BY <1>2 DEF TcpStep, Network, portVars
    <2>2. ASSUME NEW c \in Conns, WillClose(c) PROVE WillClose(c)'
      <3>1. conn[c] = "removing" => Tcp!Equals(c) # {}
        BY <1>0 DEF IdleInv, ServerInv, Tcp!ServedIsListed, Tcp!Equals
      <3>2. conn[c] = "removing" => cb[c] = "none"
        BY <1>0 DEF Control
      <3> QED
        BY <1>0, <2>1, <2>2, <3>1, <3>2, ConnectionsMove DEF WillClose
    <2> QED
      BY <2>1, <2>2 DEF IdleInv, OpenIsWanted
  <1>3. ASSUME NEW c \in Conns, ConnectOpen(c) \/ ConnectReturn(c) \/ ConnectRaises(c)
        PROVE  OpenIsWanted'
    BY <1>0, <1>3
    DEF IdleInv, OpenIsWanted, WillClose, ConnectOpen, ConnectReturn, ConnectRaises, CbGoes,
        portVars, tcpVars, Port!EnsureOpen, Port!port, Port!threads, Tcp!ConnectDone,
        Tcp!ConnectRaises, Tcp!Goes, Control
  <1>4. ASSUME NEW c \in Conns, DisconnectCount(c) PROVE OpenIsWanted'
    <2>1. CASE clients = {}
      BY <1>0, <1>4, <2>1
      DEF OpenIsWanted, WillClose, DisconnectCount, CbGoes, portVars, tcpVars
    <2>2. CASE clients # {}
      <3>1. PICK d \in clients : TRUE
        BY <2>2
      <3>2. /\ d \in Conns
            /\ conn[d] \in {"added", "connecting", "lost", "recv", "turn", "closing",
                            "removing"}
        BY <1>0, <3>1 DEF IdleInv, ServerInv, Tcp!ServedIsListed
      <3> QED
        BY <1>4, <3>2 DEF OpenIsWanted, WillClose, DisconnectCount, tcpVars
    <2> QED
      BY <2>1, <2>2
  <1>5. ASSUME NEW c \in Conns, DisconnectClose(c) PROVE OpenIsWanted'
    BY <1>0, <1>5
    DEF OpenIsWanted, WillClose, DisconnectClose, CbGoes, Port!CloseFlag, Port!port,
        Port!threads, tcpVars, IdleInv, Control
  <1>6. ASSUME NEW c \in Conns, DisconnectReturn(c) PROVE OpenIsWanted'
    BY <1>0, <1>6
    DEF IdleInv, OpenIsWanted, WillClose, DisconnectReturn, CbGoes, Tcp!DisconnectDone,
        Tcp!Goes, portVars, Port!Resting, Control
  <1>7. CASE ClosePort
    BY <1>0, <1>7
    DEF IdleInv, OpenIsWanted, WillClose, ClosePort, Port!CloseFlag, Port!port, Port!threads,
        portVars, tcpVars
  <1>8. CASE \/ Leave \/ StopServer \/ End \/ StartServer \/ RequestStop \/ UNCHANGED vars
    BY <1>0, <1>8
    DEF IdleInv, OpenIsWanted, WillClose, Leave, StopServer, End, StartServer, RequestStop,
        vars, MainGoes, Tcp!Run, Tcp!SetStop, portVars, tcpVars
  <1> QED
    BY <1>1, <1>2, <1>3, <1>4, <1>5, <1>6, <1>7, <1>8 DEF Next, ClientCallback, MainStep

\* With distinct addresses, and until a reconnect thread is started, the device is let go
\* of when no client's thread runs.
THEOREM IdleIsClosed == ASSUME Distinct PROVE Spec => []IdleClosed
  <1>1. Init => IdleInv
    BY TypeInit, ServerInit DEF Init, Port!Init, IdleInv, OpenIsWanted
  <1>2. IdleInv /\ [Next]_vars => IdleInv'
    BY TypeStep, ServerStays, OpenStaysWanted DEF IdleInv
  <1>3. IdleInv => IdleClosed
    BY DEF IdleInv, OpenIsWanted, WillClose, IdleClosed
  <1> QED
    BY <1>1, <1>2, <1>3, PTL DEF Spec

\* The main thread: the server has been stopped before the port is closed.
Ending ==
    /\ main \notin {"off", "waiting"} => NobodyAtDoor
    /\ main \in {"off", "waiting", "leaving"} => stopper = "idle"
    /\ main \in {"closing", "ended"} => stopper = "stopped"
    /\ main = "closing" => pc[Main] \in Port!CloseStates \cup {"closed", "failed"}
    /\ main = "ended" => pc[Main] = "closed"
    /\ retries = 0 /\ (main = "ended" \/ (main = "closing" /\ pc[Main] # "closeWait"))
         => handle = "closed"

EndInv == TypeInv /\ ServerInv /\ Reaping /\ Ending

\* A step of the program that nobody makes at the wrong time.
OrderlyStep == [OrderlyNext]_<<vars, hurried>>

\* stop() runs only from the step of the main thread that calls it.
LEMMA StopperFollows ==
    ASSUME EndInv, [Next]_vars
    PROVE  /\ main' \in {"off", "waiting", "leaving"} => stopper' = "idle"
           /\ main' \in {"closing", "ended"} => stopper' = "stopped"
           /\ main' \notin {"off", "waiting"} =>
                main \notin {"off", "waiting"} \/ (main = "waiting" /\ main' = "leaving")
  <1> USE DEF EndInv, Ending, program
  <1>1. CASE TcpStep \/ Network
    BY <1>1, StopperRests DEF TcpStep, Network
  <1>2. CASE PortStep \/ Device \/ UNCHANGED vars
    BY <1>2 DEF PortStep, Device, vars, tcpVars
  <1>3. ASSUME NEW c \in Conns, ClientCallback(c) PROVE main' = main /\ stopper' = stopper
    BY <1>3 DEF ClientCallback, ConnectOpen, ConnectReturn, ConnectRaises, DisconnectCount,
                DisconnectClose, DisconnectReturn, Tcp!ConnectDone, Tcp!ConnectRaises,
                Tcp!DisconnectDone, Tcp!stopping, tcpVars
  <1>4. CASE StartServer \/ RequestStop \/ Leave \/ StopServer
    BY <1>4 DEF StartServer, RequestStop, Leave, StopServer, MainGoes, Tcp!Run, Tcp!SetStop,
                Tcp!StopGoes, Tcp!stopping, tcpVars
  <1>5. CASE ClosePort \/ End
    BY <1>5 DEF ClosePort, End, MainGoes, tcpVars
  <1> QED
    BY <1>1, <1>2, <1>3, <1>4, <1>5 DEF Next, MainStep

\* From the moment the program leaves its loop nobody is at the door.
LEMMA DoorIsEmpty ==
    ASSUME EndInv, OrderlyStep, main' \notin {"off", "waiting"}
    PROVE  NobodyAtDoor'
  <1>1. CASE UNCHANGED vars
    BY <1>1 DEF EndInv, Ending, vars, program, tcpVars, NobodyAtDoor
  <1>2. CASE Next /\ Orderly /\ main \notin {"off", "waiting"}
    <2>1. CASE ServerStep
      BY <1>2, <2>1, DoorStaysEmpty DEF EndInv, ServerInv, Ending, Orderly
    <2>2. CASE UNCHANGED tcpVars
      BY <1>2, <2>2 DEF EndInv, Ending, tcpVars, NobodyAtDoor
    <2> QED
      BY <1>2, <2>1, <2>2, ServerSteps
  <1>3. CASE Next /\ Orderly /\ main = "waiting" /\ main' = "leaving"
    <2>1. NobodyAtDoor
      BY <1>3 DEF EndInv, ServerInv, InHand, Orderly, NobodyAtDoor
    <2>2. conn' = conn
      BY <1>3 DEF Next, PortStep, TcpStep, Network, Device, program, MainStep, Leave,
                  StopServer, ClosePort, End, MainGoes, StartServer, RequestStop,
                  ClientCallback, ConnectOpen, ConnectReturn, ConnectRaises, DisconnectCount,
                  DisconnectClose, DisconnectReturn, tcpVars
    <2> QED
      BY <2>1, <2>2 DEF NobodyAtDoor
  <1> QED
    BY <1>1, <1>2, <1>3, StopperFollows DEF OrderlyStep, OrderlyNext, vars

LEMMA EndServer ==
    ASSUME EndInv, Distinct, ~SlowThreads, OrderlyStep
    PROVE  (TypeInv /\ ServerInv /\ Reaping)'
  <1>1. TypeInv' /\ ServerInv'
    BY TypeStep, ServerStays DEF EndInv, OrderlyStep, OrderlyNext, vars
  <1>2. stopper' # "idle" => NobodyAtDoor'
    <2> SUFFICES ASSUME stopper' # "idle" PROVE NobodyAtDoor'
      OBVIOUS
    <2>1. main' \notin {"off", "waiting"}
      BY StopperFollows DEF OrderlyStep, OrderlyNext, vars
    <2> QED
      BY <2>1, DoorIsEmpty
  <1>3. Reaping'
    <2>1. ServerStep \/ UNCHANGED tcpVars
      BY ServerSteps DEF OrderlyStep, OrderlyNext, vars
    <2> QED
      BY <1>2, <2>1, ReapingKeeps, ReapingRests DEF EndInv
  <1> QED
    BY <1>1, <1>3

\* What the last close() leaves behind, and that nobody opens the port any more.
LEMMA EndPort ==
    ASSUME EndInv, [Next]_vars
    PROVE  /\ main' = "closing" => pc'[Main] \in Port!CloseStates \cup {"closed", "failed"}
           /\ main' = "ended" => pc'[Main] = "closed"
           /\ retries' = 0 /\ (main' = "ended" \/ (main' = "closing" /\ pc'[Main] # "closeWait"))
                => handle' = "closed"
  <1>0. /\ PortInv /\ Tcp!TypeOK /\ Control /\ Conns \subseteq Callers /\ Main \notin Conns
        /\ Callers = Conns \cup {Main} /\ pc \in [Callers -> Port!CallStates]
    BY CliServiceAssumption, SharedPortAssumption
    DEF EndInv, TypeInv, TypeOK, Callers, Port!TypeOK
  <1> USE DEF EndInv, Ending, program
  <1>1. CASE (PortStep \/ Device) /\ main = "closing"
    <2>1. main' = "closing"
      BY <1>1 DEF PortStep, Device
    <2>2. pc'[Main] \in Port!CloseStates \cup {"closed", "failed"}
      BY <1>0, <1>1, CallersMove, CallersRest DEF PortStep, Device, Port!Resting
    <2>3. ASSUME retries' = 0, pc'[Main] # "closeWait" PROVE handle' = "closed"
      <3>1. CASE pc[Main] = "closeWait"
        BY <1>0, <1>1, <2>3, <3>1, CallersMove, CallersRest DEF PortStep, Device
      <3>2. CASE pc[Main] # "closeWait"
        <4>1. retries = 0 /\ handle = "closed"
          BY <1>0, <1>1, <2>3, <3>2, OpenedByCaller DEF PortStep, Device
        <4>2. \A d \in clients : conn[d] = "lost"
          BY <1>1 DEF Reaping
        <4>3. ASSUME NEW d \in Callers, pc[d] = "openWait" PROVE FALSE
          BY <1>0, <4>2, <4>3 DEF Control, Port!OpenStates, ServerInv, Tcp!ServedIsListed
        <4> QED
          BY <1>0, <1>1, <4>1, <4>3, OpenedByCaller DEF PortStep, Device
      <3> QED
        BY <3>1, <3>2
    <2> QED
      BY <2>1, <2>2, <2>3
  <1>2. CASE (PortStep \/ Device) /\ main # "closing" /\ Alive
    BY <1>2 DEF PortStep, Device, Alive
  <1>3. CASE TcpStep \/ Network \/ UNCHANGED vars
    BY <1>3 DEF TcpStep, Network, vars, portVars
  <1>4. ASSUME NEW c \in Conns, ClientCallback(c)
        PROVE  /\ main' = main /\ pc'[Main] = pc[Main]
               /\ retries' = retries /\ handle' = handle
    BY <1>0, <1>4
    DEF ClientCallback, ConnectOpen, ConnectReturn, ConnectRaises, DisconnectCount,
        DisconnectClose, DisconnectReturn, Port!EnsureOpen, Port!CloseFlag, Port!port,
        Port!threads, portVars
  <1>5. CASE StartServer \/ RequestStop \/ Leave \/ StopServer
    BY <1>5 DEF StartServer, RequestStop, Leave, StopServer, MainGoes, portVars
  <1>6. CASE ClosePort
    BY <1>0, <1>6 DEF ClosePort, MainGoes, Port!CloseFlag, Port!CloseStates
  <1>7. CASE End
    BY <1>7 DEF End, portVars
  <1> QED
    BY <1>1, <1>2, <1>3, <1>4, <1>5, <1>6, <1>7 DEF Next, MainStep

\* With distinct addresses, joins that wait and an orderly end: when the program has ended
\* the port is closed and nobody is about to open it, until a reconnect thread is started.
THEOREM EndIsClosed == ASSUME Distinct, ~SlowThreads PROVE OrderlySpec => []EndCloses
  <1>1. OrderlyInit => EndInv
    BY TypeInit, ServerInit, ReapingInit
    DEF OrderlyInit, Init, Tcp!Init, EndInv, Ending
  <1>2. EndInv /\ OrderlyStep => EndInv'
    <2> SUFFICES ASSUME EndInv, OrderlyStep PROVE EndInv'
      OBVIOUS
    <2>1. [Next]_vars
      BY DEF OrderlyStep, OrderlyNext, vars
    <2>2. Ending'
      BY <2>1, DoorIsEmpty, StopperFollows, EndPort DEF Ending
    <2> QED
      BY <2>2, EndServer DEF EndInv
  <1>3. EndInv => EndCloses
    <2> SUFFICES ASSUME EndInv, retries = 0, main = "ended"
                 PROVE  /\ handle = "closed"
                        /\ \A c \in Callers : pc[c] \notin Port!OpenStates
      BY DEF EndCloses, Port!OpenStates
    <2>1. (\A d \in clients : conn[d] = "lost") /\ handle = "closed"
      BY DEF EndInv, Ending, Reaping
    <2>2. Callers = Conns \cup {Main} /\ Control
      BY CliServiceAssumption DEF Callers, EndInv, TypeInv
    <2> QED
      BY <2>1, <2>2 DEF Control, EndInv, ServerInv, Tcp!ServedIsListed
  <1> QED
    BY <1>1, <1>2, <1>3, PTL DEF OrderlySpec, OrderlyStep

\* A client between its count and the end of its close().
Closer(c) == cb[c] = "closing" \/ (cb[c] = "return" /\ pc[c] \notin Port!Resting)

Served == {"recv", "turn", "closing", "removing"}

\* Clients that want the port and clients that close it are never there together, and the
\* port is connected for the former.
Courtesy ==
    \A c \in Conns :
        /\ conn[c] \in Served => isConnected
        /\ cb[c] = "opening" /\ pc[c] = "opened" => isConnected
        /\ Closer(c) => \A d \in Conns : cb[d] # "opening" /\ conn[d] \notin Served

PatientInv ==
    /\ TypeInv /\ ServerInv
    /\ ~hurried /\ faults = 0 /\ main \notin {"closing", "ended", "raised"}
         => Patient /\ Courtesy

LEMMA CourtesyRests ==
    ASSUME Courtesy, UNCHANGED <<isConnected, pc, cb>>,
           \A d \in Conns : conn'[d] \in Served => conn[d] \in Served
    PROVE  Courtesy'
BY Zenon DEF Courtesy, Closer

\* As long as the main thread has not closed the port, who closes it is a leaving client and
\* who opens it a client that comes.
LEMMA CallersAre ==
    ASSUME TypeInv, main \notin {"closing", "ended", "raised"}, NEW c \in Callers
    PROVE  /\ pc[c] \in Port!CloseStates => c \in Conns /\ Closer(c) /\ cb[c] = "return"
           /\ pc[c] \in Port!OpenStates => c \in Conns /\ cb[c] = "opening"
           /\ pc[c] # "writing"
BY CliServiceAssumption DEF TypeInv, Control, Closer, Callers, Port!CloseStates, Port!Resting

LEMMA CourtesyPort ==
    ASSUME TypeInv, ~SlowThreads, Patient, Courtesy, PortStep \/ Device, faults' = 0,
           main \notin {"closing", "ended", "raised"}
    PROVE  Patient' /\ Courtesy'
  <1>0. /\ PortInv /\ Control /\ cb' = cb /\ conn' = conn /\ Conns \subseteq Callers
        /\ PortThreads \/ Port!Environment
        /\ pc \in [Callers -> Port!CallStates]
    BY DEF TypeInv, PortInv, Port!TypeOK, PortStep, Device, tcpVars, program, Callers
  <1>1. /\ Patient'
        /\ isConnected /\ (\A c \in Callers : pc[c] \notin Port!CloseStates) => isConnected'
        /\ \A c \in Callers : pc[c] # "opened" /\ pc'[c] = "opened" => isConnected'
    BY <1>0, CallersAre, PatientPort
  <1>2. ASSUME NEW c \in Conns, conn[c] \in Served \/ cb[c] = "opening"
        PROVE  \A d \in Callers : pc[d] \notin Port!CloseStates
    BY <1>2, CallersAre DEF Courtesy
  <1>3. ASSUME NEW c \in Conns, pc[c] \in Port!Resting PROVE pc'[c] = pc[c]
    BY <1>0, <1>3, CallersMove, CallersRest
  <1> QED
    BY <1>0, <1>1, <1>2, <1>3 DEF Courtesy, Closer

LEMMA CourtesyProgram ==
    ASSUME TypeInv, ServerInv, Patient, Courtesy, Next, ~Asks, ~PortStep, ~Device,
           main \notin {"closing", "ended", "raised"},
           main' \notin {"closing", "ended", "raised"}
    PROVE  Patient' /\ Courtesy'
  <1>0. /\ PortInv /\ Tcp!TypeOK /\ Control /\ Conns \subseteq Callers
        /\ conn \in [Conns -> Tcp!ConnStates] /\ clients \subseteq Conns
        /\ cb \in [Conns -> {"none", "opening", "closing", "return"}]
        /\ pc \in [Callers -> Port!CallStates] /\ isConnected \in BOOLEAN
    BY DEF TypeInv, TypeOK, Callers, Tcp!TypeOK, Port!TypeOK
  <1> USE DEF program
  <1>1. CASE TcpStep \/ Network
    <2>1. \A d \in Conns : conn'[d] \in Served => conn[d] \in Served
      BY <1>0, <1>1, ConnectionsMove DEF TcpStep, Network, Served
    <2>2. UNCHANGED <<portVars, isConnected, pc, cb>>
      BY <1>1 DEF TcpStep, Network, portVars
    <2> QED
      BY <2>1, <2>2, PatientRests, CourtesyRests
  <1>2. ASSUME NEW c \in Conns, ConnectOpen(c) PROVE Patient' /\ Courtesy'
    <2>1. \A d \in Conns : ~Closer(d)
      BY <1>0, <1>2 DEF Asks, Closer, ConnectOpen, CbGoes
    <2>2. \A d \in Callers : pc[d] \notin Port!CloseStates
      BY <2>1, CallersAre
    <2>3. /\ Patient' /\ isConnected' = isConnected
          /\ pc'[c] = "opened" => isConnected'
      BY <1>0, <1>2, <2>2, PatientAsk DEF ConnectOpen
    <2> QED
      BY <1>0, <1>2, <2>1, <2>3
      DEF ConnectOpen, CbGoes, Port!EnsureOpen, tcpVars, Courtesy, Closer
  <1>3. ASSUME NEW c \in Conns, ConnectReturn(c) PROVE Patient' /\ Courtesy'
    <2>1. isConnected /\ \A d \in Conns : ~Closer(d)
      BY <1>3 DEF ConnectReturn, CbGoes, Courtesy
    <2>2. Patient' /\ pc' = pc /\ isConnected' = isConnected
      BY <1>3, PatientRests DEF ConnectReturn, portVars
    <2> QED
      BY <1>0, <1>3, <2>1, <2>2
      DEF ConnectReturn, CbGoes, Tcp!ConnectDone, Tcp!Goes, Courtesy, Closer, Served
  <1>4. ASSUME NEW c \in Conns, DisconnectCount(c) PROVE Patient' /\ Courtesy'
    <2>1. pc[c] \in Port!Resting
      BY <1>0, <1>4
      DEF DisconnectCount, CbGoes, Control, Port!OpenStates, Port!CloseStates, Port!CallStates,
          Port!Resting
    <2>2. clients = {} => \A d \in Conns : cb[d] # "opening" /\ conn[d] \notin Served
      BY <1>0 DEF ServerInv, Tcp!ServedIsListed, Control, Served
    <2>3. Patient' /\ pc' = pc /\ isConnected' = isConnected
      BY <1>4, PatientRests DEF DisconnectCount, portVars
    <2> QED
      BY <1>0, <1>4, <2>1, <2>2, <2>3 DEF DisconnectCount, CbGoes, tcpVars, Courtesy, Closer
  <1>5. ASSUME NEW c \in Conns, DisconnectClose(c) PROVE Patient' /\ Courtesy'
    <2>1. \A d \in Conns : cb[d] # "opening" /\ conn[d] \notin Served
      BY <1>5 DEF DisconnectClose, CbGoes, Courtesy, Closer
    <2>2. \A d \in Callers : pc[d] \notin Port!OpenStates
      BY <2>1, CallersAre
    <2>3. Patient' /\ isConnected' = isConnected
      BY <1>0, <1>5, <2>2, PatientLetGo DEF DisconnectClose
    <2> QED
      BY <1>0, <1>5, <2>1, <2>3
      DEF DisconnectClose, CbGoes, Port!CloseFlag, tcpVars, Courtesy, Closer
  <1>6. ASSUME NEW c \in Conns, ConnectRaises(c) PROVE FALSE
    BY <1>0, <1>6 DEF ConnectRaises, Patient, PortInv, Joined
  <1>7. ASSUME NEW c \in Conns, DisconnectReturn(c) PROVE Patient' /\ Courtesy'
    <2>1. Patient' /\ pc' = pc /\ isConnected' = isConnected
      BY <1>7, PatientRests DEF DisconnectReturn, portVars
    <2> QED
      BY <1>0, <1>7, <2>1
      DEF DisconnectReturn, CbGoes, Tcp!DisconnectDone, Tcp!Goes, Courtesy, Closer, Served
  <1>8. CASE StartServer \/ RequestStop \/ Leave \/ StopServer
    <2>1. UNCHANGED <<portVars, isConnected, pc, conn, cb>>
      BY <1>8 DEF StartServer, RequestStop, Leave, StopServer, Tcp!Run, Tcp!SetStop, tcpVars,
                  portVars
    <2> QED
      BY <2>1, PatientRests, CourtesyRests
  <1>9. CASE ClosePort \/ End
    BY <1>9 DEF ClosePort, End, MainGoes
  <1> QED
    BY <1>1, <1>2, <1>3, <1>4, <1>5, <1>6, <1>7, <1>8, <1>9
    DEF Next, ClientCallback, MainStep

\* The program does not come back from its end, nor from a fault.
LEMMA OnwardsOnly ==
    ASSUME TypeInv, Next
    PROVE  /\ faults' = 0 => faults = 0
           /\ main' \notin {"closing", "ended", "raised"} =>
                main \notin {"closing", "ended", "raised"}
  <1> USE DEF program
  <1>1. CASE PortStep \/ Device
    BY <1>1, FaultsCount DEF PortStep, Device, TypeInv
  <1>2. CASE TcpStep \/ Network
    BY <1>2 DEF TcpStep, Network, portVars
  <1>3. ASSUME NEW c \in Conns, ClientCallback(c) PROVE faults' = faults /\ main' = main
    BY <1>3 DEF ClientCallback, ConnectOpen, ConnectReturn, ConnectRaises, DisconnectCount,
                DisconnectClose, DisconnectReturn, Port!EnsureOpen, Port!CloseFlag,
                Port!device, portVars
  <1>4. CASE MainStep \/ StartServer \/ RequestStop
    BY <1>4 DEF MainStep, Leave, StopServer, ClosePort, End, StartServer, RequestStop, MainGoes,
                Port!CloseFlag, Port!device, portVars
  <1> QED
    BY <1>1, <1>2, <1>3, <1>4 DEF Next

\* With distinct addresses and joins that wait: a client in its loop has the device, open
\* and read, until the first fault or until somebody asks for the port while a client that
\* leaves is about to close it.
THEOREM PatienceServes ==
    ASSUME Distinct, ~SlowThreads PROVE OrderlySpec => []PatientIsServed
  <1>1. OrderlyInit => PatientInv
    <2> SUFFICES ASSUME OrderlyInit PROVE PatientInv
      OBVIOUS
    <2>1. Courtesy
      BY DEF OrderlyInit, Init, Tcp!Init, Courtesy, Closer, Served
    <2>2. ~hurried => Patient
      BY PatientInit DEF OrderlyInit, Init
    <2> QED
      BY <2>1, <2>2, TypeInit, ServerInit DEF OrderlyInit, Init, PatientInv
  <1>2. PatientInv /\ OrderlyStep => PatientInv'
    <2> SUFFICES ASSUME PatientInv, OrderlyStep PROVE PatientInv'
      OBVIOUS
    <2>1. TypeInv' /\ ServerInv'
      BY TypeStep, ServerStays DEF PatientInv, OrderlyStep, OrderlyNext, vars
    <2>2. ASSUME Next, hurried' = (hurried \/ Asks), ~hurried', faults' = 0,
                 main' \notin {"closing", "ended", "raised"}
          PROVE  Patient' /\ Courtesy'
      <3>1. /\ Patient /\ Courtesy /\ ~Asks
            /\ main \notin {"closing", "ended", "raised"}
        BY <2>2, OnwardsOnly DEF PatientInv
      <3> QED
        BY <2>2, <3>1, CourtesyPort, CourtesyProgram DEF PatientInv
    <2>3. CASE UNCHANGED <<vars, hurried>>
      <3>1. UNCHANGED <<portVars, conn, cb, pc, isConnected, hurried, faults, main>>
        BY <2>3 DEF vars, program, portVars, tcpVars
      <3> QED
        BY <2>1, <3>1, PatientRests, CourtesyRests DEF PatientInv
    <2> QED
      BY <2>1, <2>2, <2>3 DEF PatientInv, OrderlyStep, OrderlyNext
  <1>3. PatientInv => PatientIsServed
    <2> SUFFICES ASSUME PatientInv, ~hurried, faults = 0, main = "waiting",
                        NEW c \in Conns, conn[c] = "recv"
                 PROVE  isConnected /\ handle = "live" /\ Port!RxAlive(epoch)
      BY DEF PatientIsServed, ClientIsServed
    <2>1. isConnected /\ Patient /\ PortInv
      BY DEF PatientInv, Courtesy, Served, TypeInv
    <2> QED
      BY <2>1, PatientIsRead
  <1> QED
    BY <1>1, <1>2, <1>3, PTL DEF OrderlySpec, OrderlyStep

-----------------------------------------------------------------------------
(***************************************************************************)
(* The promises of the parts                                               *)
(***************************************************************************)

\* Whatever the program does, the port makes a step of its own or none.
LEMMA PortSteps == ASSUME [Next]_vars PROVE PortUse \/ UNCHANGED portVars
  <1>1. CASE \/ PortStep \/ TcpStep \/ Network \/ Device \/ UNCHANGED vars
    BY <1>1 DEF PortStep, TcpStep, Network, Device, PortUse, vars
  <1>2. CASE \E c \in Conns : ClientCallback(c)
    BY <1>2 DEF ClientCallback, ConnectOpen, ConnectReturn, ConnectRaises, DisconnectCount,
                DisconnectClose, DisconnectReturn, PortUse, Callers
  <1>3. CASE MainStep \/ StartServer \/ RequestStop
    BY <1>3, CliServiceAssumption
    DEF MainStep, Leave, StopServer, ClosePort, End, StartServer, RequestStop, PortUse, Callers
  <1> QED
    BY <1>1, <1>2, <1>3 DEF Next

\* The program keeps to the server's specification: its callbacks, however long they take
\* and whatever else goes on meanwhile, are single steps of SerialServer or none, so that
\* what is proved of SerialServer holds of the server within the program.
THEOREM CliRunsServer == Spec => Tcp!Spec
  <1>1. Init => Tcp!Init
    BY DEF Init
  <1>2. [Next]_vars => [Tcp!Next]_(Tcp!vars)
    BY ServerSteps, ServerDoes
  <1> QED
    BY <1>1, <1>2, PTL DEF Spec, Tcp!Spec

\* What SerialPort promises whoever calls it: within the program, too, a port that counts as
\* connected is open and read, but for a close() that has been called and an open that is
\* under way.
THEOREM CliKeepsPort == Spec => [](Port!ConnectedIsOpen /\ Port!ConnectedIsRead)
  <1> DEFINE I == TypeInv /\ Port!ConnectedIsRead
  <1>1. Init => I
    BY TypeInit DEF Init, Port!Init, Port!ConnectedIsRead
  <1>2. ASSUME I, [Next]_vars PROVE I'
    BY <1>2, TypeStep, PortSteps, PortIsRead, PortReadRests DEF TypeInv
  <1>3. I => Port!ConnectedIsOpen /\ Port!ConnectedIsRead
    BY DEF TypeInv, PortInv
  <1> QED
    BY <1>1, <1>2, <1>3, PTL DEF Spec

\* on_disconnect is called for each connection that goes down and for nothing else, however
\* many threads of the program use the port.
THEOREM CliIsTold == Spec => Port!DropsNotified
  <1>1. ASSUME TypeInv, [Next]_vars PROVE [Heard]_(Port!vars)
    <2>1. CASE PortUse
      BY <1>1, <2>1, PortTells DEF TypeInv
    <2>2. CASE UNCHANGED portVars
      BY <2>2 DEF portVars, Port!vars, Port!device, Port!port, Port!threads
    <2> QED
      BY <1>1, <2>1, <2>2, PortSteps
  <1>2. TypeInv /\ [Next]_vars => TypeInv'
    BY TypeStep
  <1> QED
    BY <1>1, <1>2, TypeInit, PTL DEF Spec, Port!DropsNotified, Heard
=============================================================================
