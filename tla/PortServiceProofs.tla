------------------------- MODULE PortServiceProofs -------------------------
(***************************************************************************)
(* What holds of the port service of the application: its types for any    *)
(* connections, timers and bounds; and with distinct addresses that stop() *)
(* lets go of the device, that a port nobody uses has somebody who will    *)
(* close it, and that a consumer that does not hurry is served.            *)
(***************************************************************************)
EXTENDS MCPortService, SharedPortProofs, FiniteSetTheorems

\* stop() is under way or has returned.
StopPcs == {"stCancel", "stServer", "stWait", "stSerial", "stopped"}

\* Where a thread is in its callback, in the port and in the server goes together.
Control ==
    /\ \A c \in Conns :
          /\ cb[c] = "open" => conn[c] = "connecting" /\ pc[c] \in Port!Resting
          /\ cb[c] \in {"testLocal", "schedule"} => conn[c] = "removed"
          /\ cb[c] = "return" => conn[c] \in {"connecting", "removed"}
          /\ cb[c] = "return" /\ conn[c] = "connecting"
               => pc[c] \in Port!OpenStates \cup {"opened", "failed"}
          /\ pc[c] \in Port!OpenStates => cb[c] = "return" /\ conn[c] = "connecting"
          /\ pc[c] \notin Port!CloseStates \cup {"writing"}
    /\ \A t \in Timers :
          /\ pc[t] \notin Port!OpenStates \cup {"writing"}
          /\ pc[t] \in Port!CloseStates => timer[t] = "done"
    /\ pc[Tk] \in Port!OpenStates => tk = "lcWait"
    /\ pc[Tk] \in Port!CloseStates => tk = "stSerial"
    /\ pc[Tk] # "writing"

\* What the Tk thread has announced before it goes on.
Announced ==
    /\ tk = "lcWait" => pc[Tk] \in Port!OpenStates \cup {"opened", "failed"}
    /\ tk \in {"lcCancel", "lcOpen", "lcWait"} => local
    /\ tk \in StopPcs \cup {"off", "starting", "ldCount", "ldSchedule"} => ~local
    /\ running <=> tk \notin StopPcs \cup {"off", "starting"}

TypeInv == TypeOK /\ PortInv /\ Control /\ Announced

LEMMA TypeInit == Init => TypeInv
  <1> SUFFICES ASSUME Init PROVE TypeInv
    OBVIOUS
  <1>1. PortInv /\ Tcp!TypeOK
    BY PortInit, ServerInit DEF Init, ServerInv
  <1>2. running \in BOOLEAN /\ local \in BOOLEAN
    BY Zenon DEF Init
  <1>3. Control /\ Announced
    BY SharedPortAssumption, PortServiceAssumption
    DEF Init, Port!Init, Tcp!Init, Control, Announced, Port!OpenStates, Port!CloseStates,
        StopPcs, Callers
  <1>4. TypeOK
    BY <1>1, <1>2, PortServiceAssumption
    DEF TypeOK, PortInv, Init, CbStates, TkStates
  <1> QED
    BY <1>1, <1>3, <1>4 DEF TypeInv

TimerStates == {"none", "armed", "cancelled", "fired", "closing", "done"}

\* Cancelling and scheduling touch only timers that have not fired.
LEMMA LingerMoves ==
    ASSUME timer \in [Timers -> TimerStates], CancelLinger \/ ScheduleSerialClose
    PROVE  /\ timer' \in [Timers -> TimerStates]
           /\ lingerTimer' \in Timers \cup {NoOne}
           /\ \A t \in Timers : timer[t] \notin {"none", "armed"} => timer'[t] = timer[t]
           /\ \A t \in Timers : timer'[t] = "closing" => timer[t] = "closing"
  <1>1. CASE CancelLinger
    BY <1>1 DEF CancelLinger, Cancelled, TimerStates
  <1>2. CASE ScheduleSerialClose
    BY <1>1, <1>2 DEF ScheduleSerialClose, Cancelled, TimerStates
  <1> QED
    BY <1>1, <1>2

\* Steps that touch neither the port nor the server.
Bookkeeping ==
    \/ \E c \in Conns : \/ ConnectCancel(c) \/ DisconnectCount(c) \/ DisconnectTestLocal(c)
                        \/ DisconnectSchedule(c)
    \/ \E t \in Timers : TimerFires(t) \/ LingerCheck(t)
    \/ StartRunning \/ ConnectLocalCancel \/ ConnectLocalReturn \/ DisconnectLocalCount
    \/ DisconnectLocalSchedule \/ StopCancel \/ StopReturn
    \/ ConnectLocal \/ DisconnectLocal \/ Stop
    \/ UNCHANGED vars

LEMMA BookkeepingOnly == ASSUME Bookkeeping PROVE UNCHANGED <<portVars, tcpVars>>
BY DEF Bookkeeping, ConnectCancel, DisconnectCount, DisconnectTestLocal, DisconnectSchedule,
       TimerFires, LingerCheck, StartRunning, ConnectLocalCancel, ConnectLocalReturn,
       DisconnectLocalCount, DisconnectLocalSchedule, StopCancel, StopReturn, ConnectLocal,
       DisconnectLocal, Stop, vars

LEMMA FlagsType ==
    ASSUME running \in BOOLEAN, local \in BOOLEAN, [Next]_vars
    PROVE  running' \in BOOLEAN /\ local' \in BOOLEAN
  <1>1. CASE PortStep \/ TcpStep \/ Network \/ Device \/ UNCHANGED vars
    <2>1. running' = running /\ local' = local
      BY <1>1 DEF PortStep, TcpStep, Network, Device, vars, service
    <2> QED
      BY <2>1
  <1>2. CASE \/ \E c \in Conns : ClientCallback(c)
             \/ \E t \in Timers : TimerStep(t)
    <2>1. running' = running /\ local' = local
      BY <1>2 DEF ClientCallback, ConnectCancel, ConnectOpen, ConnectReturn, ConnectRaises,
                  DisconnectCount, DisconnectTestLocal, DisconnectSchedule, DisconnectReturn,
                  TimerStep, TimerFires, LingerCheck, LingerClose
    <2> QED
      BY <2>1
  <1>3. CASE TkStep \/ User
    <2>1. /\ running' = running \/ running' = TRUE \/ running' = FALSE
          /\ local' = local \/ local' = TRUE \/ local' = FALSE
      BY <1>3, Zenon
      DEF TkStep, User, StartRunning, ConnectLocalCancel, ConnectLocalOpen, ConnectLocalReturn,
          DisconnectLocalCount, DisconnectLocalSchedule, StopCancel, StopServer, StopSerial,
          StopReturn, StartServer, ConnectLocal, DisconnectLocal, Stop
    <2> QED
      BY <2>1, Zenon
  <1> QED
    BY <1>1, <1>2, <1>3 DEF Next

\* What the service adds to the types of its parts, and where its threads are.
Whereabouts ==
    /\ lingerTimer \in Timers \cup {NoOne}
    /\ timer \in [Timers -> TimerStates]
    /\ cb \in [Conns -> CbStates]
    /\ tk \in TkStates
    /\ locals \in 0 .. MaxLocal
    /\ Control /\ Announced

\* The facts the steps below use.
LEMMA Types ==
    ASSUME TypeInv
    PROVE  /\ PortInv /\ Tcp!TypeOK /\ Whereabouts
           /\ running \in BOOLEAN /\ local \in BOOLEAN
           /\ Callers = Conns \cup Timers \cup {Tk}
           /\ Conns \cap Timers = {} /\ Tk \notin Conns /\ Tk \notin Timers
           /\ pc \in [Callers -> Port!CallStates] /\ conn \in [Conns -> Tcp!ConnStates]
           /\ clients \subseteq Conns
BY SharedPortAssumption, PortServiceAssumption
DEF TypeInv, TypeOK, Whereabouts, TimerStates, Callers, Port!TypeOK, Tcp!TypeOK

LEMMA BookkeepingStays ==
    ASSUME TypeInv, Bookkeeping
    PROVE  Whereabouts'
  <1>0. /\ Whereabouts /\ running \in BOOLEAN /\ local \in BOOLEAN
        /\ pc' = pc /\ conn' = conn
        /\ Callers = Conns \cup Timers \cup {Tk}
        /\ pc \in [Callers -> Port!CallStates]
    BY Types, BookkeepingOnly DEF portVars, tcpVars
  <1> USE <1>0 DEF Whereabouts, Control, Announced, CbGoes, TkGoes, CbStates, TkStates
  <1>1. ASSUME NEW c \in Conns, ConnectCancel(c) PROVE Whereabouts'
    <2>1. pc[c] \in Port!Resting
      BY <1>1 DEF ConnectCancel, Port!OpenStates, Port!CloseStates, Port!CallStates,
                  Port!Resting, Callers
    <2> QED
      BY <1>1, <2>1, LingerMoves DEF ConnectCancel
  <1>2. ASSUME NEW c \in Conns, DisconnectCount(c) \/ DisconnectTestLocal(c) PROVE Whereabouts'
    BY <1>2 DEF DisconnectCount, DisconnectTestLocal, linger
  <1>3. ASSUME NEW c \in Conns, DisconnectSchedule(c) PROVE Whereabouts'
    BY <1>3, LingerMoves DEF DisconnectSchedule
  <1>4. ASSUME NEW t \in Timers, TimerFires(t) \/ LingerCheck(t) PROVE Whereabouts'
    BY <1>4 DEF TimerFires, LingerCheck, TimerStates
  <1>5. CASE StartRunning \/ Stop
    BY <1>5 DEF StartRunning, Stop, StopPcs, linger
  <1>6. CASE ConnectLocalCancel \/ StopCancel
    BY <1>6, LingerMoves DEF ConnectLocalCancel, StopCancel, StopPcs
  <1>7. CASE ConnectLocalReturn \/ StopReturn
    BY <1>7 DEF ConnectLocalReturn, StopReturn, StopPcs, Port!OpenStates, Port!CloseStates,
                linger
  <1>8. CASE DisconnectLocalCount
    BY <1>8 DEF DisconnectLocalCount, StopPcs, linger
  <1>9. CASE DisconnectLocalSchedule
    BY <1>9, LingerMoves DEF DisconnectLocalSchedule, StopPcs
  <1>10. CASE ConnectLocal
    BY <1>10, PortServiceAssumption DEF ConnectLocal, StopPcs, linger
  <1>11. CASE DisconnectLocal
    BY <1>11 DEF DisconnectLocal, StopPcs, linger
  <1>12. CASE UNCHANGED vars
    BY <1>12 DEF vars, service, linger
  <1> QED
    BY <1>1, <1>2, <1>3, <1>4, <1>5, <1>6, <1>7, <1>8, <1>9, <1>10, <1>11, <1>12
    DEF Bookkeeping

\* Every step of the service, hurried or not, orderly or not.
LEMMA TypeStep == ASSUME TypeInv, [Next]_vars PROVE TypeInv'
  <1>0. /\ PortInv /\ Tcp!TypeOK /\ Whereabouts
        /\ Callers = Conns \cup Timers \cup {Tk}
        /\ Conns \cap Timers = {} /\ Tk \notin Conns /\ Tk \notin Timers
        /\ pc \in [Callers -> Port!CallStates] /\ conn \in [Conns -> Tcp!ConnStates]
    BY Types
  <1>1. ASSUME PortInv', Tcp!TypeOK', Whereabouts' PROVE TypeInv'
    BY <1>1, FlagsType, Types
    DEF TypeInv, TypeOK, PortInv, Whereabouts, TimerStates
  <1> USE DEF service, linger, CbGoes, TkGoes
  <1>2. CASE Bookkeeping
    BY <1>0, <1>1, <1>2, BookkeepingOnly, BookkeepingStays, PortRests, ServerTypeRests
  <1>3. CASE PortStep
    <2>1. PortInv' /\ Tcp!TypeOK' /\ UNCHANGED <<tcpVars, service>>
      BY <1>0, <1>3, PortThreadsInv, ServerTypeRests DEF PortStep
    <2>2. \A d \in Callers :
             /\ pc'[d] \in Port!OpenStates => pc[d] \in Port!OpenStates
             /\ pc[d] \in Port!OpenStates =>
                  pc'[d] \in Port!OpenStates \cup {"opened", "failed"}
             /\ pc'[d] \in Port!CloseStates => pc[d] \in Port!CloseStates
             /\ pc'[d] = "writing" => pc[d] = "writing"
             /\ pc[d] \in Port!Resting => pc'[d] = pc[d]
      BY <1>0, <1>3, CallersMove DEF PortStep
    <2>3. {"opened", "failed"} \subseteq Port!Resting
      BY DEF Port!Resting
    <2>4. Control'
      BY <1>0, <2>1, <2>2, <2>3 DEF Whereabouts, Control, tcpVars
    <2>5. Announced'
      BY <1>0, <2>1, <2>2, <2>3 DEF Whereabouts, Announced
    <2> QED
      BY <1>0, <1>1, <2>1, <2>4, <2>5 DEF Whereabouts
  <1>4. CASE Device
    <2>1. PortInv' /\ Tcp!TypeOK' /\ UNCHANGED <<tcpVars, service>> /\ pc' = pc
      BY <1>0, <1>4, DevicePortInv, ServerTypeRests, CallersRest DEF Device
    <2> QED
      BY <1>0, <1>1, <2>1 DEF Whereabouts, Control, Announced, tcpVars
  <1>5. CASE TcpStep \/ Network
    <2>1. PortInv' /\ Tcp!TypeOK' /\ UNCHANGED <<portVars, service>>
      BY <1>0, <1>5, PortRests, ServerType DEF TcpStep, Network, ServerStep
    <2>2. \A c \in Conns : conn[c] \in {"connecting", "removed"} => conn'[c] = conn[c]
      BY <1>0, <1>5, ConnectionsMove DEF TcpStep, Network
    <2>3. Control'
      BY <1>0, <2>1, <2>2 DEF Whereabouts, Control, portVars
    <2> QED
      BY <1>0, <1>1, <2>1, <2>3 DEF Whereabouts, Announced, portVars
  <1>6. ASSUME NEW c \in Conns, ConnectOpen(c) PROVE TypeInv'
    <2>1. PortInv' /\ Tcp!TypeOK' /\ conn' = conn
      BY <1>0, <1>6, CallPortInv, ServerTypeRests DEF ConnectOpen, tcpVars
    <2>2. Control'
      BY <1>0, <1>6, <2>1
      DEF ConnectOpen, Port!EnsureOpen, Whereabouts, Control, Port!OpenStates, Port!CloseStates
    <2>3. Announced'
      BY <1>0, <1>6 DEF ConnectOpen, Port!EnsureOpen, Whereabouts, Announced
    <2> QED
      BY <1>0, <1>1, <1>6, <2>1, <2>2, <2>3 DEF ConnectOpen, Whereabouts, CbStates
  <1>7. ASSUME NEW c \in Conns, ConnectReturn(c) \/ ConnectRaises(c) \/ DisconnectReturn(c)
        PROVE  TypeInv'
    <2>1. PortInv' /\ Tcp!TypeOK' /\ UNCHANGED portVars
      BY <1>0, <1>7, PortRests, ServerType
      DEF ConnectReturn, ConnectRaises, DisconnectReturn, ServerStep
    <2>2. Control'
      BY <1>0, <1>7, <2>1
      DEF ConnectReturn, ConnectRaises, DisconnectReturn, Tcp!ConnectDone, Tcp!ConnectRaises,
          Tcp!DisconnectDone, Tcp!Goes, portVars, Whereabouts, Control, Port!OpenStates,
          Port!CloseStates
    <2>3. Announced'
      BY <1>0, <1>7, <2>1
      DEF ConnectReturn, ConnectRaises, DisconnectReturn, portVars, Whereabouts, Announced
    <2> QED
      BY <1>0, <1>1, <1>7, <2>1, <2>2, <2>3
      DEF ConnectReturn, ConnectRaises, DisconnectReturn, Whereabouts, CbStates
  <1>8. ASSUME NEW t \in Timers, LingerClose(t) PROVE TypeInv'
    <2>1. PortInv' /\ Tcp!TypeOK' /\ conn' = conn
      BY <1>0, <1>8, CallPortInv, ServerTypeRests DEF LingerClose, tcpVars
    <2>2. Control'
      BY <1>0, <1>8, <2>1
      DEF LingerClose, Port!CloseFlag, Whereabouts, Control, Port!OpenStates, Port!CloseStates
    <2>3. Announced'
      BY <1>0, <1>8 DEF LingerClose, Port!CloseFlag, Whereabouts, Announced
    <2> QED
      BY <1>0, <1>1, <1>8, <2>1, <2>2, <2>3 DEF LingerClose, Whereabouts, TimerStates
  <1>9. CASE ConnectLocalOpen
    <2>1. PortInv' /\ Tcp!TypeOK' /\ conn' = conn
      BY <1>0, <1>9, CallPortInv, ServerTypeRests DEF ConnectLocalOpen, tcpVars
    <2>2. Control' /\ Announced'
      BY <1>0, <1>9, <2>1
      DEF ConnectLocalOpen, Port!EnsureOpen, Whereabouts, Control, Announced, Port!OpenStates,
          Port!CloseStates, StopPcs
    <2> QED
      BY <1>0, <1>1, <1>9, <2>1, <2>2 DEF ConnectLocalOpen, Whereabouts, TkStates
  <1>10. CASE StopSerial
    <2>1. PortInv' /\ Tcp!TypeOK' /\ conn' = conn
      BY <1>0, <1>10, CallPortInv, ServerTypeRests DEF StopSerial, tcpVars
    <2>2. Control' /\ Announced'
      BY <1>0, <1>10, <2>1
      DEF StopSerial, Port!CloseFlag, Whereabouts, Control, Announced, Port!OpenStates,
          Port!CloseStates, StopPcs
    <2> QED
      BY <1>0, <1>1, <1>10, <2>1, <2>2 DEF StopSerial, Whereabouts, TkStates
  <1>11. CASE StartServer \/ StopServer
    <2>1. PortInv' /\ Tcp!TypeOK' /\ conn' = conn /\ pc' = pc
      BY <1>0, <1>11, PortRests, ServerType
      DEF StartServer, StopServer, Tcp!Run, Tcp!SetStop, ServerStep, portVars
    <2>2. Control' /\ Announced'
      BY <1>0, <1>11, <2>1 DEF StartServer, StopServer, Whereabouts, Control, Announced, StopPcs
    <2> QED
      BY <1>0, <1>1, <1>11, <2>1, <2>2 DEF StartServer, StopServer, Whereabouts, TkStates
  <1> QED
    BY <1>2, <1>3, <1>4, <1>5, <1>6, <1>7, <1>8, <1>9, <1>10, <1>11
    DEF Next, ClientCallback, TimerStep, TkStep, User, Bookkeeping

\* The service keeps its types, whatever is plugged and unplugged, however many connect and
\* however often the terminal does.
THEOREM ServiceTypeCorrect == Spec => []TypeOK
  <1>1. TypeInv /\ [Next]_vars => TypeInv'
    BY TypeStep
  <1>2. TypeInv => TypeOK
    BY DEF TypeInv
  <1> QED
    BY TypeInit, <1>1, <1>2, PTL DEF Spec

\* stop(): the server has been stopped before the port is closed.
Ending ==
    /\ tk \in StopPcs => NobodyAtDoor
    /\ tk \notin {"stWait", "stSerial", "stopped"} => stopper = "idle"
    /\ tk \in {"stSerial", "stopped"} => stopper = "stopped"
    /\ tk = "stSerial" => pc[Tk] \in Port!CloseStates \cup {"closed", "failed"}
    /\ retries = 0 /\ (tk = "stopped" \/ (tk = "stSerial" /\ pc[Tk] # "closeWait"))
         => handle = "closed"

EndInv == TypeInv /\ ServerInv /\ Reaping /\ Ending

\* A step of the service that nobody makes at the wrong time.
OrderlyStep == [OrderlyNext]_<<vars, hurried>>

\* Whatever the service does, the server makes a step of its own or none.
LEMMA ServerSteps == ASSUME [Next]_vars PROVE ServerStep \/ UNCHANGED tcpVars
  <1>1. CASE Bookkeeping
    BY <1>1, BookkeepingOnly
  <1>2. CASE PortStep \/ TcpStep \/ Network \/ Device
    BY <1>2 DEF PortStep, TcpStep, Network, Device, ServerStep
  <1>3. CASE \/ \E c \in Conns : \/ ConnectOpen(c) \/ ConnectReturn(c)
                                 \/ ConnectRaises(c) \/ DisconnectReturn(c)
             \/ \E t \in Timers : LingerClose(t)
             \/ ConnectLocalOpen \/ StopSerial \/ StartServer \/ StopServer
    BY <1>3 DEF ConnectOpen, ConnectReturn, ConnectRaises, DisconnectReturn, LingerClose,
                ConnectLocalOpen, StopSerial, StartServer, StopServer, ServerStep
  <1> QED
    BY <1>1, <1>2, <1>3 DEF Next, ClientCallback, TimerStep, TkStep, User, Bookkeeping

LEMMA ServerStays == ASSUME ServerInv, Distinct, [Next]_vars PROVE ServerInv'
BY ServerSteps, ServerKeeps, ServerRests

\* stop() of the server runs only from the step of the Tk thread that calls it.
LEMMA StopperFollows ==
    ASSUME EndInv, [Next]_vars
    PROVE  /\ tk' \notin {"stWait", "stSerial", "stopped"} => stopper' = "idle"
           /\ tk' \in {"stSerial", "stopped"} => stopper' = "stopped"
           /\ tk' \in StopPcs => tk \in StopPcs \/ (tk = "idle" /\ tk' = "stCancel")
  <1> USE DEF EndInv, Ending, service, TkGoes, StopPcs
  <1>1. CASE TcpStep \/ Network
    BY <1>1, StopperRests DEF TcpStep, Network
  <1>2. CASE PortStep \/ Device \/ UNCHANGED vars
    BY <1>2 DEF PortStep, Device, vars, tcpVars
  <1>3. ASSUME \/ \E c \in Conns : ClientCallback(c)
               \/ \E t \in Timers : TimerStep(t)
        PROVE  tk' = tk /\ stopper' = stopper
    BY <1>3 DEF ClientCallback, ConnectCancel, ConnectOpen, ConnectReturn, ConnectRaises,
                DisconnectCount, DisconnectTestLocal, DisconnectSchedule, DisconnectReturn,
                Tcp!ConnectDone, Tcp!ConnectRaises, Tcp!DisconnectDone, Tcp!stopping,
                tcpVars, TimerStep, TimerFires, LingerCheck, LingerClose
  <1>4. CASE \/ StartRunning \/ ConnectLocalCancel \/ ConnectLocalOpen \/ ConnectLocalReturn
             \/ DisconnectLocalCount \/ DisconnectLocalSchedule \/ ConnectLocal
             \/ DisconnectLocal
    BY <1>4 DEF StartRunning, ConnectLocalCancel, ConnectLocalOpen, ConnectLocalReturn,
                DisconnectLocalCount, DisconnectLocalSchedule, ConnectLocal, DisconnectLocal,
                tcpVars
  <1>5. CASE Stop \/ StopCancel \/ StopSerial \/ StopReturn
    BY <1>5, Types
    DEF Stop, StopCancel, StopSerial, StopReturn, tcpVars, Reaping
  <1>6. CASE StartServer \/ StopServer
    BY <1>6 DEF StartServer, StopServer, Tcp!Run, Tcp!SetStop, Tcp!StopGoes, Tcp!stopping
  <1> QED
    BY <1>1, <1>2, <1>3, <1>4, <1>5, <1>6 DEF Next, TkStep, User

\* From the moment stop() is called nobody is at the door.
LEMMA DoorIsEmpty == ASSUME EndInv, OrderlyStep, tk' \in StopPcs PROVE NobodyAtDoor'
  <1>1. CASE UNCHANGED vars
    BY <1>1 DEF EndInv, Ending, vars, service, tcpVars, NobodyAtDoor
  <1>2. CASE Next /\ Orderly /\ tk \in StopPcs
    <2>1. ~running
      BY <1>2 DEF EndInv, TypeInv, Announced
    <2>2. CASE ServerStep
      BY <1>2, <2>1, <2>2, DoorStaysEmpty DEF EndInv, ServerInv, Ending, Orderly
    <2>3. CASE UNCHANGED tcpVars
      BY <1>2, <2>3 DEF EndInv, Ending, tcpVars, NobodyAtDoor
    <2> QED
      BY <1>2, <2>2, <2>3, ServerSteps
  <1>3. CASE Next /\ Orderly /\ tk = "idle" /\ tk' = "stCancel"
    <2>1. NobodyAtDoor
      BY <1>3 DEF EndInv, ServerInv, InHand, Orderly, NobodyAtDoor
    <2>2. conn' = conn
      BY <1>3
      DEF Next, PortStep, TcpStep, Network, Device, service, TkStep, User, StartRunning,
          ConnectLocalCancel, ConnectLocalOpen, ConnectLocalReturn, DisconnectLocalCount,
          DisconnectLocalSchedule, ConnectLocal, DisconnectLocal, Stop, StopCancel, StopSerial,
          StopReturn, StartServer, StopServer, TkGoes, ClientCallback, ConnectCancel,
          ConnectOpen, ConnectReturn, ConnectRaises, DisconnectCount, DisconnectTestLocal,
          DisconnectSchedule, DisconnectReturn, TimerStep, TimerFires, LingerCheck,
          LingerClose, tcpVars
    <2> QED
      BY <2>1, <2>2 DEF NobodyAtDoor
  <1> QED
    BY <1>1, <1>2, <1>3, StopperFollows DEF OrderlyStep, OrderlyNext, vars

LEMMA EndServer ==
    ASSUME EndInv, Distinct, ~SlowThreads, OrderlyStep
    PROVE  (TypeInv /\ ServerInv /\ Reaping)'
  <1>1. TypeInv' /\ ServerInv'
    BY TypeStep, ServerStays DEF EndInv, OrderlyStep, OrderlyNext, vars
  <1>2. stopper' # "idle" => NobodyAtDoor'
    <2> SUFFICES ASSUME stopper' # "idle" PROVE NobodyAtDoor'
      OBVIOUS
    <2>1. tk' \in StopPcs
      BY StopperFollows DEF OrderlyStep, OrderlyNext, vars, StopPcs
    <2> QED
      BY <2>1, DoorIsEmpty
  <1>3. Reaping'
    <2>1. ServerStep \/ UNCHANGED tcpVars
      BY ServerSteps DEF OrderlyStep, OrderlyNext, vars
    <2> QED
      BY <1>2, <2>1, ReapingKeeps, ReapingRests DEF EndInv
  <1> QED
    BY <1>1, <1>3

\* Once the server has been stopped nobody opens the port.
LEMMA NobodyOpens ==
    ASSUME EndInv, tk \in {"stSerial", "stopped"}, NEW d \in Callers
    PROVE  pc[d] \notin Port!OpenStates
  <1>1. \A c \in clients : conn[c] = "lost"
    BY DEF EndInv, Ending, Reaping
  <1>2. Callers = Conns \cup Timers \cup {Tk} /\ Control
    BY Types DEF EndInv, TypeInv
  <1> QED
    BY <1>1, <1>2 DEF Control, EndInv, ServerInv, Tcp!ServedIsListed

\* What the close() of stop() leaves behind.
LEMMA EndPort ==
    ASSUME EndInv, [Next]_vars
    PROVE  /\ tk' = "stSerial" => pc'[Tk] \in Port!CloseStates \cup {"closed", "failed"}
           /\ retries' = 0 /\ (tk' = "stopped" \/ (tk' = "stSerial" /\ pc'[Tk] # "closeWait"))
                => handle' = "closed"
  <1>0. /\ PortInv /\ Control /\ Callers = Conns \cup Timers \cup {Tk}
        /\ Tk \notin Conns /\ Tk \notin Timers
        /\ pc \in [Callers -> Port!CallStates]
    BY Types DEF EndInv, TypeInv
  <1> USE DEF EndInv, Ending, service, TkGoes
  <1>1. CASE (PortStep \/ Device) /\ tk \in {"stSerial", "stopped"}
    <2>1. tk' = tk
      BY <1>1 DEF PortStep, Device
    <2>2. tk = "stSerial" => pc'[Tk] \in Port!CloseStates \cup {"closed", "failed"}
      BY <1>0, <1>1, CallersMove, CallersRest DEF PortStep, Device, Port!Resting
    <2>3. ASSUME retries' = 0, tk = "stopped" \/ pc'[Tk] # "closeWait"
          PROVE  handle' = "closed"
      <3>1. CASE tk = "stSerial" /\ pc[Tk] = "closeWait"
        BY <1>0, <1>1, <2>3, <3>1, CallersMove, CallersRest DEF PortStep, Device
      <3>2. CASE tk = "stopped" \/ pc[Tk] # "closeWait"
        <4>1. retries = 0 /\ handle = "closed"
          BY <1>0, <1>1, <2>3, <3>2, OpenedByCaller DEF PortStep, Device
        <4>2. \A d \in Callers : pc[d] # "openWait"
          BY <1>1, NobodyOpens DEF Port!OpenStates
        <4> QED
          BY <1>0, <1>1, <4>1, <4>2, OpenedByCaller DEF PortStep, Device
      <3> QED
        BY <1>1, <3>1, <3>2
    <2> QED
      BY <2>1, <2>2, <2>3
  <1>2. CASE (PortStep \/ Device) /\ tk \notin {"stSerial", "stopped"}
    BY <1>2 DEF PortStep, Device
  <1>3. CASE TcpStep \/ Network \/ UNCHANGED vars
    BY <1>3 DEF TcpStep, Network, vars, portVars
  <1>4. ASSUME \/ \E c \in Conns : ClientCallback(c)
               \/ \E t \in Timers : TimerStep(t)
        PROVE  /\ tk' = tk /\ pc'[Tk] = pc[Tk]
               /\ retries' = retries /\ handle' = handle
    BY <1>0, <1>4
    DEF ClientCallback, ConnectCancel, ConnectOpen, ConnectReturn, ConnectRaises,
        DisconnectCount, DisconnectTestLocal, DisconnectSchedule, DisconnectReturn, TimerStep,
        TimerFires, LingerCheck, LingerClose, Port!EnsureOpen, Port!CloseFlag, Port!port,
        Port!threads, portVars
  <1>5. CASE \/ StartRunning \/ ConnectLocalCancel \/ ConnectLocalOpen \/ ConnectLocalReturn
             \/ DisconnectLocalCount \/ DisconnectLocalSchedule \/ ConnectLocal
             \/ DisconnectLocal \/ Stop \/ StopCancel \/ StartServer \/ StopServer
    BY <1>5 DEF StartRunning, ConnectLocalCancel, ConnectLocalOpen, ConnectLocalReturn,
                DisconnectLocalCount, DisconnectLocalSchedule, ConnectLocal, DisconnectLocal,
                Stop, StopCancel, StartServer, StopServer
  <1>6. CASE StopSerial
    BY <1>0, <1>6 DEF StopSerial, Port!CloseFlag, Port!CloseStates
  <1>7. CASE StopReturn
    BY <1>7 DEF StopReturn, portVars
  <1> QED
    BY <1>1, <1>2, <1>3, <1>4, <1>5, <1>6, <1>7 DEF Next, TkStep, User

LEMMA LifeIsOrderly == [OrderlyNext /\ InTurn]_<<vars, hurried>> => OrderlyStep
BY DEF OrderlyStep

LEMMA EndAlways == ASSUME Distinct, ~SlowThreads PROVE LifeSpec => []EndInv
  <1>1. OrderlyInit => EndInv
    BY TypeInit, ServerInit, ReapingInit
    DEF OrderlyInit, Init, Tcp!Init, EndInv, Ending, StopPcs
  <1>2. EndInv /\ OrderlyStep => EndInv'
    <2> SUFFICES ASSUME EndInv, OrderlyStep PROVE EndInv'
      OBVIOUS
    <2>1. [Next]_vars
      BY DEF OrderlyStep, OrderlyNext, vars
    <2>2. Ending'
      BY <2>1, DoorIsEmpty, StopperFollows, EndPort DEF Ending
    <2> QED
      BY <2>2, EndServer DEF EndInv
  <1> QED
    BY <1>1, <1>2, LifeIsOrderly, PTL DEF LifeSpec

\* With distinct addresses, joins that wait and an orderly end: when stop() has returned the
\* port is closed and nobody is about to open it, until a reconnect thread is started.
THEOREM StopIsClosed == ASSUME Distinct, ~SlowThreads PROVE LifeSpec => []StopCloses
  <1>1. EndInv => StopCloses
    <2> SUFFICES ASSUME EndInv, retries = 0, tk = "stopped"
                 PROVE  /\ handle = "closed"
                        /\ \A c \in Callers : pc[c] \notin Port!OpenStates
      BY DEF StopCloses, Port!OpenStates
    <2> QED
      BY NobodyOpens DEF EndInv, Ending
  <1> QED
    BY <1>1, EndAlways, PTL

-----------------------------------------------------------------------------
(***************************************************************************)
(* An open port that nobody uses                                           *)
(***************************************************************************)

\* Clients on the register, also those whose on_connect has raised, and a client that has
\* left it and has still to count.
Counts(c) ==
    \/ conn[c] \in {"added", "connecting", "lost", "recv", "turn", "closing", "removing"}
    \/ conn[c] = "removed" /\ cb[c] \in {"none", "testLocal", "schedule"}

\* A timer that has still to look, or has found nobody and not yet closed.
Pending(t) == timer[t] \in {"armed", "fired", "closing"} \/ pc[t] = "closeWait"

\* Somebody uses the port, or will see that nobody does.
Looked == \/ local \/ tk \in {"ldCount", "ldSchedule"}
          \/ \E c \in Conns : Counts(c)
          \/ \E t \in Timers : Pending(t)

\* Before the service runs nobody comes.
Tended ==
    /\ tk \in {"off", "starting"} =>
          /\ retries = 0 => handle = "closed"
          /\ \A c \in Conns : conn[c] \in {"new", "dead"}
    /\ running /\ retries = 0 /\ handle # "closed" => Looked

TendedInv == TypeInv /\ ServerInv /\ IsFiniteSet(clients) /\ Tended

LEMMA FiniteStays == ASSUME IsFiniteSet(clients), [Next]_vars PROVE IsFiniteSet(clients')
  <1>1. \/ clients' \subseteq clients
        \/ \E c \in Conns : clients' = clients \cup {c}
    <2>1. CASE Tcp!AcceptStep
      BY <2>1 DEF Tcp!AcceptStep, Tcp!AcceptEnd, Tcp!Accept, Tcp!ConstructFails,
                  Tcp!AddClient, Tcp!StartClient
    <2>2. CASE (\E c \in Conns : ClientStep(c)) \/ Peers
      BY <2>2 DEF ClientStep, Tcp!RecvEmpty, Tcp!RecvTimeout, Tcp!Turn, Tcp!CloseClient,
                  Tcp!RemoveClient, Peers, Tcp!Connect, Tcp!PeerLeaves
    <2>3. CASE Tcp!StopStep
      BY <2>3 DEF Tcp!StopStep, Tcp!Snapshot, Tcp!CloseSocket, Tcp!JoinAccept, Tcp!StopDone,
                  Tcp!StopClient, Tcp!JoinClient
    <2>4. CASE \/ Tcp!Run \/ Tcp!SetStop \/ UNCHANGED tcpVars
               \/ \E c \in Conns : \/ Tcp!ConnectDone(c) \/ Tcp!ConnectRaises(c)
                                   \/ Tcp!DisconnectDone(c)
      BY <2>4 DEF Tcp!Run, Tcp!SetStop, tcpVars, Tcp!ConnectDone, Tcp!ConnectRaises,
                  Tcp!DisconnectDone
    <2> QED
      BY <2>1, <2>2, <2>3, <2>4, ServerSteps DEF ServerStep, TcpThreads
  <1> QED
    BY <1>1, FS_Subset, FS_AddElement

\* What the service counts.
LEMMA CountIs ==
    ASSUME IsFiniteSet(clients), running
    PROVE  /\ clientCount = 0 <=> clients = {}
           /\ hasConsumers <=> (clients # {} \/ local)
  <1>1. Cardinality(clients) \in Nat /\ (Cardinality(clients) = 0 <=> clients = {})
    BY FS_CardinalityType, FS_EmptySet
  <1> QED
    BY <1>1 DEF clientCount, hasConsumers

LEMMA StartsEmpty ==
    ASSUME TendedInv, OrderlyStep, tk' \in {"off", "starting"}
    PROVE  /\ retries' = 0 => handle' = "closed"
           /\ \A c \in Conns : conn'[c] \in {"new", "dead"}
  <1>0. /\ PortInv /\ Tcp!TypeOK /\ Control /\ Callers = Conns \cup Timers \cup {Tk}
        /\ conn \in [Conns -> Tcp!ConnStates]
    BY Types DEF TendedInv, TypeInv
  <1>1. CASE UNCHANGED vars
    BY <1>1 DEF TendedInv, Tended, vars, service, portVars, tcpVars
  <1>2. CASE Next /\ Orderly
    <2>1. tk \in {"off", "starting"}
      BY <1>2 DEF Next, PortStep, TcpStep, Network, Device, service, TkStep, User, StartRunning,
          ConnectLocalCancel, ConnectLocalOpen, ConnectLocalReturn, DisconnectLocalCount,
          DisconnectLocalSchedule, ConnectLocal, DisconnectLocal, Stop, StopCancel, StopSerial,
          StopReturn, StartServer, StopServer, TkGoes, ClientCallback, ConnectCancel,
          ConnectOpen, ConnectReturn, ConnectRaises, DisconnectCount, DisconnectTestLocal,
          DisconnectSchedule, DisconnectReturn, TimerStep, TimerFires, LingerCheck, LingerClose
    <2>2. /\ retries = 0 => handle = "closed"
          /\ \A c \in Conns : conn[c] \in {"new", "dead"}
          /\ \A c \in Conns : ~(conn[c] = "new" /\ conn'[c] = "backlog")
      BY <1>2, <2>1 DEF TendedInv, Tended, TypeInv, Announced, StopPcs, Orderly
    <2>3. \A d \in Callers : pc[d] # "openWait"
      BY <1>0, <2>1, <2>2 DEF Control, Port!OpenStates
    <2>4. CASE PortStep \/ Device
      BY <1>0, <2>2, <2>3, <2>4, OpenedByCaller DEF PortStep, Device, tcpVars
    <2>5. CASE TcpStep \/ Network
      BY <1>0, <2>2, <2>5, ConnectionsMove DEF TcpStep, Network, portVars
    <2>6. CASE Bookkeeping
      BY <2>2, <2>6, BookkeepingOnly DEF portVars, tcpVars
    <2>7. CASE StartServer
      BY <2>2, <2>7 DEF StartServer, Tcp!Run, portVars
    <2>8. ASSUME \/ \E c \in Conns : \/ ConnectOpen(c) \/ ConnectReturn(c)
                                     \/ ConnectRaises(c) \/ DisconnectReturn(c)
                 \/ ConnectLocalOpen \/ StopServer \/ StopSerial
          PROVE  FALSE
      BY <1>0, <2>1, <2>2, <2>8
      DEF ConnectOpen, ConnectReturn, ConnectRaises, DisconnectReturn, ConnectLocalOpen,
          StopServer, StopSerial, TkGoes, CbGoes, Control
    <2>9. ASSUME NEW t \in Timers, LingerClose(t)
          PROVE  UNCHANGED <<retries, handle, conn>>
      BY <2>9 DEF LingerClose, Port!CloseFlag, Port!port, Port!threads, tcpVars
    <2> QED
      BY <1>2, <2>2, <2>4, <2>5, <2>6, <2>7, <2>8, <2>9
      DEF Next, ClientCallback, TimerStep, TkStep, User, Bookkeeping
  <1> QED
    BY <1>1, <1>2 DEF OrderlyStep, OrderlyNext, vars

LEMMA PortLooked ==
    ASSUME TendedInv, PortStep \/ Device, running, retries' = 0, handle' # "closed"
    PROVE  Looked'
  <1>0. /\ PortInv /\ Control /\ Announced /\ Callers = Conns \cup Timers \cup {Tk}
        /\ UNCHANGED <<local, tk, conn, cb, timer>>
    BY Types DEF TendedInv, TypeInv, PortStep, Device, service, linger, tcpVars
  <1>1. retries = 0
    BY <1>0, OpenedByCaller DEF PortStep, Device
  <1>2. CASE handle = "closed"
    <2>1. PICK d \in Callers : pc[d] = "openWait"
      BY <1>0, <1>1, <1>2, OpenedByCaller DEF PortStep, Device
    <2>2. CASE d = Tk
      BY <1>0, <2>1, <2>2 DEF Control, Announced, Port!OpenStates, Looked
    <2>3. CASE d \in Conns
      BY <1>0, <2>1, <2>3 DEF Control, Port!OpenStates, Looked, Counts
    <2>4. CASE d \in Timers
      BY <1>0, <2>1, <2>4 DEF Control, Port!OpenStates
    <2> QED
      BY <1>0, <2>2, <2>3, <2>4
  <1>3. CASE handle # "closed"
    <2>1. Looked
      BY <1>1, <1>3 DEF TendedInv, Tended, Looked
    <2>2. ASSUME NEW t \in Timers, pc[t] = "closeWait" PROVE pc'[t] = "closeWait"
      BY <1>0, <2>2, CallersMove, CallersRest DEF PortStep, Device
    <2> QED
      BY <1>0, <2>1, <2>2 DEF Looked, Counts, Pending
  <1> QED
    BY <1>2, <1>3

LEMMA ServerLooked ==
    ASSUME TendedInv, TcpStep \/ Network, Looked
    PROVE  Looked'
  <1>0. /\ Tcp!TypeOK /\ Control /\ (TcpThreads \/ Peers)
        /\ UNCHANGED <<local, tk, cb, timer, pc>>
    BY DEF TendedInv, TypeInv, TypeOK, TcpStep, Network, service, linger, portVars
  <1>1. ASSUME NEW c \in Conns, Counts(c) PROVE Counts(c)'
    <2>1. conn[c] = "removing" => Tcp!Equals(c) # {}
      BY DEF TendedInv, ServerInv, Tcp!ServedIsListed, Tcp!Equals
    <2>2. conn[c] = "removing" => cb[c] = "none"
      BY <1>0 DEF Control, TendedInv, TypeInv, TypeOK, CbStates
    <2> QED
      BY <1>0, <1>1, <2>1, <2>2, ConnectionsMove DEF Counts
  <1> QED
    BY <1>0, <1>1 DEF Looked, Pending

\* Somebody on the register will count when it leaves.
LEMMA ListedCounts == ASSUME TendedInv, clients # {} PROVE \E c \in Conns : Counts(c)
BY DEF TendedInv, ServerInv, Tcp!TypeOK, Tcp!ServedIsListed, Counts

LEMMA ServiceLooked ==
    ASSUME TendedInv, Looked, Next, ~PortStep, ~Device, ~TcpStep, ~Network, running, running'
    PROVE  Looked'
  <1>0. /\ Whereabouts /\ Callers = Conns \cup Timers \cup {Tk}
        /\ pc \in [Callers -> Port!CallStates] /\ conn \in [Conns -> Tcp!ConnStates]
        /\ Conns \cap Timers = {} /\ Tk \notin Timers
    BY Types DEF TendedInv
  <1>c. /\ clientCount = 0 <=> clients = {}
        /\ hasConsumers <=> (clients # {} \/ local)
    BY CountIs DEF TendedInv
  <1> USE DEF CbGoes, TkGoes, linger
  <1>1. ASSUME NEW c \in Conns, ConnectCancel(c) PROVE Looked'
    BY <1>0, <1>1 DEF ConnectCancel, tcpVars, Looked, Counts
  <1>2. ASSUME NEW c \in Conns, ConnectOpen(c) PROVE Looked'
    <2>1. conn[c] = "connecting" /\ conn' = conn
      BY <1>0, <1>2 DEF ConnectOpen, Whereabouts, Control, tcpVars
    <2> QED
      BY <2>1 DEF Looked, Counts
  <1>3. ASSUME NEW c \in Conns, ConnectReturn(c) \/ ConnectRaises(c) PROVE Looked'
    BY <1>0, <1>3
    DEF ConnectReturn, ConnectRaises, Tcp!ConnectDone, Tcp!ConnectRaises, Tcp!Goes, Looked,
        Counts
  <1>4. ASSUME NEW c \in Conns, DisconnectCount(c) PROVE Looked'
    <2>1. CASE clients = {}
      BY <1>0, <1>c, <1>4, <2>1 DEF DisconnectCount, Whereabouts, tcpVars, Looked, Counts
    <2>2. CASE clients # {}
      <3>1. PICK d \in Conns : d \in clients
        BY <2>2, Types DEF TendedInv
      <3>2. conn[d] \in {"added", "connecting", "lost", "recv", "turn", "closing",
                         "removing"}
        BY <3>1 DEF TendedInv, ServerInv, Tcp!ServedIsListed
      <3> QED
        BY <1>4, <3>2 DEF DisconnectCount, tcpVars, Looked, Counts
    <2> QED
      BY <2>1, <2>2
  <1>5. ASSUME NEW c \in Conns, DisconnectTestLocal(c) PROVE Looked'
    BY <1>0, <1>5
    DEF DisconnectTestLocal, Whereabouts, Control, tcpVars, Looked, Counts
  <1>6. CASE (\E c \in Conns : DisconnectSchedule(c)) \/ DisconnectLocalSchedule
    <2>1. ScheduleSerialClose
      BY <1>6 DEF DisconnectSchedule, DisconnectLocalSchedule
    <2>2. \E t \in Timers : timer'[t] = "armed"
      BY <1>0, <2>1 DEF ScheduleSerialClose, Cancelled, Whereabouts
    <2> QED
      BY <2>2 DEF Looked, Pending
  <1>7. ASSUME NEW c \in Conns, DisconnectReturn(c) PROVE Looked'
    <2>1. ~Counts(c)
      BY <1>7 DEF DisconnectReturn, Tcp!DisconnectDone, Tcp!Goes, Counts
    <2>2. \A d \in Conns : Counts(d) => Counts(d)'
      BY <1>0, <1>7, <2>1
      DEF DisconnectReturn, Tcp!DisconnectDone, Tcp!Goes, Counts, Whereabouts
    <2> QED
      BY <1>7, <2>2 DEF DisconnectReturn, Looked, Pending, portVars
  <1>8. ASSUME NEW t \in Timers, TimerFires(t) PROVE Looked'
    BY <1>0, <1>8
    DEF TimerFires, Whereabouts, Looked, Counts, Pending, tcpVars, portVars
  <1>9. ASSUME NEW t \in Timers, LingerCheck(t) PROVE Looked'
    <2>1. CASE hasConsumers
      BY <1>9, <1>c, <2>1, ListedCounts DEF LingerCheck, Looked, Counts, tcpVars
    <2>2. CASE ~hasConsumers
      BY <1>0, <1>9, <2>2 DEF LingerCheck, Whereabouts, Looked, Pending
    <2> QED
      BY <2>1, <2>2
  <1>10. ASSUME NEW t \in Timers, LingerClose(t) PROVE Looked'
    BY <1>0, <1>10 DEF LingerClose, Port!CloseFlag, Looked, Pending
  <1>11. CASE ConnectLocal \/ DisconnectLocal
    BY <1>11 DEF ConnectLocal, DisconnectLocal, Looked
  <1>12. CASE ConnectLocalCancel \/ ConnectLocalOpen \/ ConnectLocalReturn
    BY <1>0, <1>12
    DEF ConnectLocalCancel, ConnectLocalOpen, ConnectLocalReturn, Whereabouts, Announced,
        Looked
  <1>13. CASE DisconnectLocalCount
    BY <1>13, <1>c, ListedCounts DEF DisconnectLocalCount, Looked, Counts, tcpVars
  <1>14. ASSUME \/ StartRunning \/ Stop \/ StopCancel \/ StopServer \/ StopSerial \/ StopReturn
                \/ StartServer
         PROVE  FALSE
    BY <1>0, <1>14
    DEF StartRunning, Stop, StopCancel, StopServer, StopSerial, StopReturn, StartServer,
        Whereabouts, Announced, StopPcs
  <1> QED
    BY <1>1, <1>2, <1>3, <1>4, <1>5, <1>6, <1>7, <1>8, <1>9, <1>10, <1>11, <1>12, <1>13, <1>14
    DEF Next, ClientCallback, TimerStep, TkStep, User

\* The safety part of IdleCloses: a running service without consumers that still holds the
\* device has a linger timer that will look, or is at it.
IdleIsTended ==
    Idle /\ retries = 0 /\ handle # "closed" => \E t \in Timers : Pending(t)

LEMMA TendedStays == ASSUME TendedInv, OrderlyStep PROVE Tended'
  <1>0. [Next]_vars
    BY DEF OrderlyStep, OrderlyNext, vars
  <1>1. ASSUME running', retries' = 0, handle' # "closed" PROVE Looked'
    <2>1. CASE PortStep \/ Device
      <3>1. running
        BY <1>1, <2>1 DEF PortStep, Device, service
      <3> QED
        BY <1>1, <2>1, <3>1, PortLooked
    <2>2. CASE ~PortStep /\ ~Device
      <3>1. UNCHANGED <<retries, handle>>
        BY <1>0, <2>2
        DEF Next, TcpStep, Network, TkStep, User, StartRunning, ConnectLocalCancel,
            ConnectLocalOpen, ConnectLocalReturn, DisconnectLocalCount,
            DisconnectLocalSchedule, ConnectLocal, DisconnectLocal, Stop, StopCancel,
            StopSerial, StopReturn, StartServer, StopServer, ClientCallback, ConnectCancel,
            ConnectOpen, ConnectReturn, ConnectRaises, DisconnectCount, DisconnectTestLocal,
            DisconnectSchedule, DisconnectReturn, TimerStep, TimerFires, LingerCheck,
            LingerClose, Port!EnsureOpen, Port!CloseFlag, Port!port, Port!threads, portVars,
            vars
      <3>2. running
        <4>1. CASE StartRunning
          BY <1>1, <3>1, <4>1 DEF StartRunning, TkGoes, TendedInv, Tended
        <4>2. CASE ~StartRunning
          BY <1>0, <1>1, <2>2, <4>2
          DEF Next, TcpStep, Network, service, TkStep, User, ConnectLocalCancel,
              ConnectLocalOpen, ConnectLocalReturn, DisconnectLocalCount,
              DisconnectLocalSchedule, ConnectLocal, DisconnectLocal, Stop, StopCancel,
              StopSerial, StopReturn, StartServer, StopServer, ClientCallback, ConnectCancel,
              ConnectOpen, ConnectReturn, ConnectRaises, DisconnectCount, DisconnectTestLocal,
              DisconnectSchedule, DisconnectReturn, TimerStep, TimerFires, LingerCheck,
              LingerClose, vars
        <4> QED
          BY <4>1, <4>2
      <3>3. Looked
        BY <1>1, <3>1, <3>2 DEF TendedInv, Tended, Looked
      <3>4. CASE UNCHANGED vars
        BY <3>3, <3>4 DEF vars, service, linger, tcpVars, portVars, Looked, Counts, Pending
      <3> QED
        BY <1>0, <1>1, <2>2, <3>2, <3>3, <3>4, ServerLooked, ServiceLooked
    <2> QED
      BY <2>1, <2>2
  <1> QED
    BY <1>1, StartsEmpty DEF Tended, Looked

\* With distinct addresses, whatever overlaps: clients that come and go, the terminal, timers
\* that were cancelled too late, and a port that is being closed.
THEOREM IdleIsLooked == ASSUME Distinct PROVE LifeSpec => []IdleIsTended
  <1>1. OrderlyInit => TendedInv
    BY TypeInit, ServerInit, FS_EmptySet
    DEF OrderlyInit, Init, Port!Init, Tcp!Init, TendedInv, Tended
  <1>2. TendedInv /\ OrderlyStep => TendedInv'
    BY TypeStep, ServerStays, FiniteStays, TendedStays DEF TendedInv, OrderlyStep,
                                                           OrderlyNext, vars
  <1>3. TendedInv => IdleIsTended
    <2> SUFFICES ASSUME TendedInv, Idle, retries = 0, handle # "closed"
                 PROVE  \E t \in Timers : Pending(t)
      BY DEF IdleIsTended
    <2>1. running
      BY DEF TendedInv, TypeInv, Announced, Idle, StopPcs
    <2> QED
      BY <2>1 DEF TendedInv, Tended, Looked, Idle, Counts
  <1> QED
    BY <1>1, <1>2, <1>3, LifeIsOrderly, PTL DEF LifeSpec

-----------------------------------------------------------------------------
(***************************************************************************)
(* Consumers are served                                                    *)
(***************************************************************************)


\* A timer between its look and the end of its close().
Closer(t) == timer[t] = "closing" \/ pc[t] \notin Port!Resting

Served == {"recv", "turn", "closing", "removing"}

\* A client and a terminal that have asked for the port.
Wants(c) == conn[c] \in Served \/ (conn[c] = "connecting" /\ cb[c] = "return")
LocalWants == tk = "lcWait" \/ (tk = "idle" /\ local)

\* Timers that close the port and consumers are never there together, and the port is
\* connected for the latter.
Courtesy ==
    /\ \A c \in Conns : conn[c] \in Served \/ (Wants(c) /\ pc[c] = "opened") => isConnected
    /\ LocalWants /\ (tk = "idle" \/ pc[Tk] = "opened") => isConnected
    /\ \A t \in Timers : Closer(t) => ~LocalWants /\ \A c \in Conns : ~Wants(c)

PatientInv ==
    /\ TypeInv /\ ServerInv /\ IsFiniteSet(clients)
    /\ ~hurried /\ faults = 0 /\ tk \notin {"stSerial", "stopped"} => Patient /\ Courtesy

\* The promise to consumers, step by step: a client in its loop and a connected terminal have
\* the device, open and read, until the first fault or until somebody asks for the port while
\* a linger timer is about to close it.
ConsumersAreRead ==
    ~hurried /\ faults = 0 /\ ((\E c \in Conns : conn[c] = "recv") \/ (tk = "idle" /\ local))
        => isConnected /\ handle = "live" /\ Port!RxAlive(epoch)

\* Until stop() closes the port, who closes it is a linger timer and who opens it a consumer
\* that comes.
LEMMA CallersAre ==
    ASSUME TypeInv, tk \notin {"stSerial", "stopped"}, NEW c \in Callers
    PROVE  /\ pc[c] \in Port!CloseStates => c \in Timers /\ Closer(c)
           /\ pc[c] \in Port!OpenStates => (c \in Conns /\ Wants(c)) \/ (c = Tk /\ LocalWants)
           /\ pc[c] # "writing"
  <1>1. Callers = Conns \cup Timers \cup {Tk} /\ Control
    BY Types DEF TypeInv
  <1> QED
    BY <1>1 DEF Control, Closer, Wants, LocalWants, Port!CloseStates, Port!Resting

\* Steps that leave the port alone, make nobody want it and no timer close it.
LEMMA CourtesyRests ==
    ASSUME Courtesy, UNCHANGED <<isConnected, pc>>,
           \A c \in Conns : /\ conn'[c] \in Served => conn[c] \in Served
                            /\ Wants(c)' => Wants(c),
           LocalWants' => LocalWants, tk' = "idle" /\ LocalWants' => tk = "idle",
           \A t \in Timers : timer'[t] = "closing" => timer[t] = "closing"
    PROVE  Courtesy'
BY Zenon DEF Courtesy, Closer

LEMMA CourtesyPort ==
    ASSUME TypeInv, ~SlowThreads, Patient, Courtesy, PortStep \/ Device, faults' = 0,
           tk \notin {"stSerial", "stopped"}
    PROVE  Patient' /\ Courtesy'
  <1>0. /\ PortInv /\ Control /\ Announced /\ UNCHANGED <<conn, cb, timer, tk, local>>
        /\ PortThreads \/ Port!Environment
        /\ Callers = Conns \cup Timers \cup {Tk}
        /\ pc \in [Callers -> Port!CallStates]
    BY Types DEF TypeInv, PortStep, Device, tcpVars, service, linger
  <1>1. /\ Patient'
        /\ isConnected /\ (\A c \in Callers : pc[c] \notin Port!CloseStates) => isConnected'
        /\ \A c \in Callers : pc[c] # "opened" /\ pc'[c] = "opened" => isConnected'
    BY <1>0, CallersAre, PatientPort
  <1>2. (\E c \in Conns : Wants(c)) \/ LocalWants =>
            \A d \in Callers : pc[d] \notin Port!CloseStates
    BY CallersAre DEF Courtesy
  <1>3. \A c \in Callers : pc[c] \in Port!Resting => pc'[c] = pc[c]
    BY <1>0, CallersMove, CallersRest
  <1>4. ASSUME NEW c \in Conns, conn'[c] \in Served \/ (Wants(c)' /\ pc'[c] = "opened")
        PROVE  isConnected'
    <2>1. Wants(c)
      BY <1>0, <1>4 DEF Wants
    <2>2. CASE conn[c] \in Served \/ pc[c] = "opened"
      BY <1>1, <1>2, <2>1, <2>2 DEF Courtesy
    <2>3. CASE conn[c] \notin Served /\ pc[c] # "opened"
      BY <1>0, <1>1, <1>4, <2>3
    <2> QED
      BY <2>2, <2>3
  <1>5. ASSUME LocalWants', tk' = "idle" \/ pc'[Tk] = "opened"
        PROVE  isConnected'
    <2>1. LocalWants
      BY <1>0, <1>5 DEF LocalWants
    <2>2. CASE tk = "idle" \/ pc[Tk] = "opened"
      BY <1>1, <1>2, <2>1, <2>2 DEF Courtesy
    <2>3. CASE tk # "idle" /\ pc[Tk] # "opened"
      BY <1>0, <1>1, <1>5, <2>3
    <2> QED
      BY <2>2, <2>3
  <1>6. ASSUME NEW t \in Timers, Closer(t)'
        PROVE  ~LocalWants' /\ \A c \in Conns : ~Wants(c)'
    <2>1. Closer(t)
      BY <1>0, <1>3, <1>6 DEF Closer
    <2> QED
      BY <1>0, <2>1 DEF Courtesy, Wants, LocalWants
  <1> QED
    BY <1>1, <1>4, <1>5, <1>6 DEF Courtesy

LEMMA CourtesyBookkeeping ==
    ASSUME TypeInv, ServerInv, IsFiniteSet(clients), Patient, Courtesy, Bookkeeping,
           tk \notin {"stSerial", "stopped"}
    PROVE  Patient' /\ Courtesy'
  <1>0. /\ UNCHANGED <<portVars, isConnected, pc, conn, clients>>
        /\ Whereabouts
    BY BookkeepingOnly, Types DEF portVars, tcpVars
  <1>1. Patient'
    BY <1>0, PatientRests
  <1> SUFFICES Courtesy'
    BY <1>1
  <1> USE DEF CbGoes, TkGoes, linger, Wants, LocalWants
  <1>2. ASSUME NEW c \in Conns,
               \/ ConnectCancel(c) \/ DisconnectCount(c) \/ DisconnectTestLocal(c)
               \/ DisconnectSchedule(c)
        PROVE  Courtesy'
    <2>1. UNCHANGED <<tk, local>>
      BY <1>2 DEF ConnectCancel, DisconnectCount, DisconnectTestLocal, DisconnectSchedule
    <2>2. \A t \in Timers : timer'[t] = "closing" => timer[t] = "closing"
      BY <1>0, <1>2, LingerMoves
      DEF ConnectCancel, DisconnectCount, DisconnectTestLocal, DisconnectSchedule, Whereabouts
    <2>3. \A d \in Conns : Wants(d)' => Wants(d)
      BY <1>0, <1>2
      DEF ConnectCancel, DisconnectCount, DisconnectTestLocal, DisconnectSchedule,
          Whereabouts, Control
    <2> QED
      BY <1>0, <2>1, <2>2, <2>3, CourtesyRests
  <1>3. ASSUME NEW t \in Timers, TimerFires(t) PROVE Courtesy'
    <2>1. \A u \in Timers : timer'[u] = "closing" => timer[u] = "closing"
      BY <1>0, <1>3 DEF TimerFires, Whereabouts
    <2> QED
      BY <1>0, <1>3, <2>1, CourtesyRests DEF TimerFires
  <1>4. ASSUME NEW t \in Timers, LingerCheck(t) PROVE Courtesy'
    <2>1. UNCHANGED <<tk, local, cb>>
      BY <1>4 DEF LingerCheck
    <2>2. CASE timer'[t] # "closing"
      <3>1. \A u \in Timers : timer'[u] = "closing" => timer[u] = "closing"
        BY <1>0, <1>4, <2>2 DEF LingerCheck, Whereabouts
      <3> QED
        BY <1>0, <2>1, <3>1, CourtesyRests
    <2>3. CASE timer'[t] = "closing"
      <3>1. running /\ ~hasConsumers
        BY <1>0, <1>4, <2>3 DEF LingerCheck, Whereabouts
      <3>2. clients = {} /\ ~local
        BY <3>1, CountIs
      <3>3. ~LocalWants /\ \A c \in Conns : ~Wants(c)
        BY <1>0, <3>2 DEF ServerInv, Tcp!ServedIsListed, Whereabouts, Announced, Served
      <3> QED
        BY <1>0, <2>1, <3>3 DEF Courtesy
    <2> QED
      BY <2>2, <2>3
  <1>5. CASE \/ StartRunning \/ DisconnectLocalCount \/ ConnectLocal \/ DisconnectLocal \/ Stop
             \/ UNCHANGED vars
    <2>1. UNCHANGED <<cb, timer>>
      BY <1>5 DEF StartRunning, DisconnectLocalCount, ConnectLocal, DisconnectLocal, Stop, vars,
                  service
    <2>2. LocalWants' => LocalWants /\ (tk' = "idle" => tk = "idle")
      BY <1>0, <1>5
      DEF StartRunning, DisconnectLocalCount, ConnectLocal, DisconnectLocal, Stop, vars,
          service, Whereabouts, Announced
    <2> QED
      BY <1>0, <2>1, <2>2, CourtesyRests
  <1>6. CASE ConnectLocalCancel \/ DisconnectLocalSchedule \/ StopCancel
    <2>1. /\ UNCHANGED cb
          /\ \A t \in Timers : timer'[t] = "closing" => timer[t] = "closing"
      BY <1>0, <1>6, LingerMoves
      DEF ConnectLocalCancel, DisconnectLocalSchedule, StopCancel, Whereabouts
    <2>2. ~LocalWants'
      BY <1>0, <1>6
      DEF ConnectLocalCancel, DisconnectLocalSchedule, StopCancel, Whereabouts, Announced,
          StopPcs
    <2> QED
      BY <1>0, <2>1, <2>2, CourtesyRests
  <1>7. CASE ConnectLocalReturn
    <2>1. pc[Tk] # "failed"
      BY <1>0, Types DEF Patient, PortInv, Joined
    <2>2. isConnected /\ LocalWants /\ UNCHANGED <<cb, timer>>
      BY <1>7, <2>1 DEF ConnectLocalReturn, Courtesy
    <2> QED
      BY <1>0, <2>2 DEF Courtesy, Closer
  <1>8. CASE StopReturn
    BY <1>8 DEF StopReturn
  <1> QED
    BY <1>2, <1>3, <1>4, <1>5, <1>6, <1>7, <1>8 DEF Bookkeeping

LEMMA CourtesyCalls ==
    ASSUME TypeInv, Patient, Courtesy, ~Asks, tk \notin {"stSerial", "stopped"},
           \/ \E c \in Conns : \/ ConnectOpen(c) \/ ConnectReturn(c) \/ ConnectRaises(c)
                               \/ DisconnectReturn(c)
           \/ \E t \in Timers : LingerClose(t)
           \/ ConnectLocalOpen \/ StartServer \/ StopServer
    PROVE  Patient' /\ Courtesy'
  <1>0. /\ PortInv /\ Whereabouts /\ Callers = Conns \cup Timers \cup {Tk}
        /\ Conns \cap Timers = {} /\ Tk \notin Conns /\ Tk \notin Timers
        /\ pc \in [Callers -> Port!CallStates] /\ conn \in [Conns -> Tcp!ConnStates]
    BY Types
  <1> USE DEF CbGoes, TkGoes, linger, Wants, LocalWants
  <1>1. ASSUME NEW c \in Conns, ConnectOpen(c) PROVE Patient' /\ Courtesy'
    <2>1. \A t \in Timers : ~Closer(t)
      BY <1>0, <1>1 DEF Asks, Closer, ConnectOpen, Whereabouts, CbStates
    <2>2. \A d \in Callers : pc[d] \notin Port!CloseStates
      BY <2>1, CallersAre
    <2>3. /\ Patient' /\ isConnected' = isConnected
          /\ pc'[c] = "opened" => isConnected'
      BY <1>0, <1>1, <2>2, PatientAsk DEF ConnectOpen
    <2>4. /\ UNCHANGED <<tk, local, timer, conn>>
          /\ \A d \in Callers : d # c => pc'[d] = pc[d]
          /\ \A d \in Conns : d # c => cb'[d] = cb[d]
      BY <1>0, <1>1 DEF ConnectOpen, Port!EnsureOpen, tcpVars, Whereabouts
    <2>5. \A t \in Timers : ~Closer(t)'
      BY <1>0, <2>1, <2>4 DEF Closer
    <2>6. conn[c] = "connecting"
      BY <1>0, <1>1 DEF ConnectOpen, Whereabouts, Control
    <2> QED
      BY <1>0, <2>3, <2>4, <2>5, <2>6 DEF Courtesy, Served
  <1>2. ASSUME NEW c \in Conns, ConnectReturn(c) PROVE Patient' /\ Courtesy'
    <2>1. /\ conn[c] = "connecting" /\ cb[c] = "return" /\ pc[c] = "opened"
          /\ UNCHANGED <<portVars, isConnected, pc, tk, local, timer>>
      BY <1>2 DEF ConnectReturn, Tcp!ConnectDone, Tcp!Goes, portVars
    <2>2. \A d \in Conns : d # c => conn'[d] = conn[d] /\ cb'[d] = cb[d]
      BY <1>0, <1>2 DEF ConnectReturn, Tcp!ConnectDone, Tcp!Goes, Whereabouts
    <2>3. isConnected /\ \A t \in Timers : ~Closer(t)
      BY <2>1 DEF Courtesy
    <2> QED
      BY <2>1, <2>2, <2>3, PatientRests DEF Courtesy, Closer
  <1>3. ASSUME NEW c \in Conns, DisconnectReturn(c) PROVE Patient' /\ Courtesy'
    <2>1. UNCHANGED <<portVars, isConnected, pc, tk, local, timer>>
      BY <1>3 DEF DisconnectReturn, portVars
    <2>2. \A d \in Conns : /\ conn'[d] \in Served => conn[d] \in Served
                           /\ Wants(d)' => Wants(d)
      BY <1>0, <1>3
      DEF DisconnectReturn, Tcp!DisconnectDone, Tcp!Goes, Whereabouts, Served
    <2> QED
      BY <2>1, <2>2, PatientRests, CourtesyRests
  <1>4. ASSUME NEW t \in Timers, LingerClose(t) PROVE Patient' /\ Courtesy'
    <2>1. ~LocalWants /\ \A d \in Conns : ~Wants(d)
      BY <1>4 DEF LingerClose, Courtesy, Closer
    <2>2. \A d \in Callers : pc[d] \notin Port!OpenStates
      BY <2>1, CallersAre
    <2>3. Patient' /\ isConnected' = isConnected
      BY <1>0, <1>4, <2>2, PatientLetGo DEF LingerClose
    <2>4. UNCHANGED <<tk, local, cb, conn>>
      BY <1>4 DEF LingerClose, tcpVars
    <2> QED
      BY <2>1, <2>3, <2>4 DEF Courtesy
  <1>5. CASE ConnectLocalOpen
    <2>1. \A t \in Timers : ~Closer(t)
      BY <1>5 DEF Asks, Closer, ConnectLocalOpen
    <2>2. \A d \in Callers : pc[d] \notin Port!CloseStates
      BY <2>1, CallersAre
    <2>3. /\ Patient' /\ isConnected' = isConnected
          /\ pc'[Tk] = "opened" => isConnected'
      BY <1>0, <1>5, <2>2, PatientAsk DEF ConnectLocalOpen
    <2>4. /\ UNCHANGED <<local, timer, conn, cb>> /\ tk' = "lcWait"
          /\ \A d \in Callers : d # Tk => pc'[d] = pc[d]
      BY <1>0, <1>5 DEF ConnectLocalOpen, Port!EnsureOpen, tcpVars
    <2>5. \A t \in Timers : ~Closer(t)'
      BY <1>0, <2>1, <2>4 DEF Closer
    <2> QED
      BY <1>0, <2>3, <2>4, <2>5 DEF Courtesy, Served
  <1>6. ASSUME NEW c \in Conns, ConnectRaises(c) PROVE FALSE
    BY <1>0, <1>6 DEF ConnectRaises, Patient, PortInv, Joined
  <1>7. CASE StartServer \/ StopServer
    <2>1. /\ UNCHANGED <<portVars, isConnected, pc, local, timer, conn, cb>>
          /\ ~LocalWants'
      BY <1>7 DEF StartServer, StopServer, Tcp!Run, Tcp!SetStop, portVars
    <2> QED
      BY <2>1, PatientRests, CourtesyRests
  <1> QED
    BY <1>1, <1>2, <1>3, <1>4, <1>5, <1>6, <1>7

LEMMA CourtesyServer ==
    ASSUME TypeInv, Patient, Courtesy, TcpStep \/ Network
    PROVE  Patient' /\ Courtesy'
  <1>1. UNCHANGED <<portVars, isConnected, pc, tk, local, timer, cb>>
    BY DEF TcpStep, Network, portVars, service, linger
  <1>2. Tcp!TypeOK /\ (TcpThreads \/ Peers)
    BY Types DEF TcpStep, Network
  <1>3. ASSUME NEW d \in Conns
        PROVE  (conn'[d] \in Served => conn[d] \in Served) /\ (Wants(d)' => Wants(d))
    <2>1. CASE conn'[d] = conn[d]
      BY <1>1, <2>1 DEF Served, Wants
    <2>2. CASE conn'[d] # conn[d]
      <3>1. conn'[d] \in Served => conn[d] \in Served
        BY <1>2, <2>2, ConnectionsMove DEF Served
      <3>2. conn'[d] = "connecting" => conn[d] = "added"
        BY <1>2, <2>2, ConnectionsMove
      <3>3. conn[d] = "added" => cb[d] # "return"
        BY Types DEF Whereabouts, Control
      <3> QED
        BY <1>1, <3>1, <3>2, <3>3 DEF Wants
    <2> QED
      BY <2>1, <2>2
  <1> QED
    BY <1>1, <1>3, PatientRests, CourtesyRests DEF LocalWants

\* The service does not come back from its end, nor from a fault.
LEMMA OnwardsOnly ==
    ASSUME TypeInv, Next
    PROVE  /\ faults' = 0 => faults = 0
           /\ tk' \notin {"stSerial", "stopped"} => tk \notin {"stSerial", "stopped"}
  <1>1. CASE PortStep \/ Device
    BY <1>1, FaultsCount DEF PortStep, Device, TypeInv, service
  <1>2. CASE TcpStep \/ Network
    BY <1>2 DEF TcpStep, Network, portVars, service
  <1>3. ASSUME \/ \E c \in Conns : ClientCallback(c)
               \/ \E t \in Timers : TimerStep(t)
        PROVE  faults' = faults /\ tk' = tk
    BY <1>3 DEF ClientCallback, ConnectCancel, ConnectOpen, ConnectReturn, ConnectRaises,
                DisconnectCount, DisconnectTestLocal, DisconnectSchedule, DisconnectReturn,
                TimerStep, TimerFires, LingerCheck, LingerClose, Port!EnsureOpen,
                Port!CloseFlag, Port!device, portVars
  <1>4. CASE TkStep \/ User
    BY <1>4 DEF TkStep, User, TkGoes, StartRunning, ConnectLocalCancel, ConnectLocalOpen,
                ConnectLocalReturn, DisconnectLocalCount, DisconnectLocalSchedule,
                ConnectLocal, DisconnectLocal, Stop, StopCancel, StopSerial, StopReturn,
                StartServer, StopServer, Port!EnsureOpen, Port!CloseFlag, Port!device, portVars
  <1> QED
    BY <1>1, <1>2, <1>3, <1>4 DEF Next

\* With distinct addresses and joins that wait: a grace period that ends, is cancelled or is
\* started again never takes the device from a consumer that did not ask for it just then.
THEOREM ConsumersKeepPort == ASSUME Distinct, ~SlowThreads PROVE LifeSpec => []ConsumersAreRead
  <1>1. OrderlyInit => PatientInv
    <2> SUFFICES ASSUME OrderlyInit PROVE PatientInv
      OBVIOUS
    <2>1. (~hurried => Patient) /\ IsFiniteSet(clients)
      BY PatientInit, FS_EmptySet DEF OrderlyInit, Init, Tcp!Init
    <2>2. TypeInv /\ ServerInv
      BY TypeInit, ServerInit DEF OrderlyInit, Init
    <2>3. Courtesy
      BY PortServiceAssumption
      DEF OrderlyInit, Init, Tcp!Init, Port!Init, Courtesy, Closer, Wants, LocalWants, Served,
          Port!Resting, Callers
    <2> QED
      BY <2>1, <2>2, <2>3 DEF PatientInv
  <1>2. PatientInv /\ OrderlyStep => PatientInv'
    <2> SUFFICES ASSUME PatientInv, OrderlyStep PROVE PatientInv'
      OBVIOUS
    <2>1. TypeInv' /\ ServerInv' /\ IsFiniteSet(clients')
      BY TypeStep, ServerStays, FiniteStays DEF PatientInv, OrderlyStep, OrderlyNext, vars
    <2>2. ASSUME Next, hurried' = (hurried \/ Asks), ~hurried', faults' = 0,
                 tk' \notin {"stSerial", "stopped"}
          PROVE  Patient' /\ Courtesy'
      <3>1. Patient /\ Courtesy /\ ~Asks /\ tk \notin {"stSerial", "stopped"}
        BY <2>2, OnwardsOnly DEF PatientInv
      <3>2. CASE PortStep \/ Device
        BY <2>2, <3>1, <3>2, CourtesyPort DEF PatientInv
      <3>3. CASE TcpStep \/ Network
        BY <3>1, <3>3, CourtesyServer DEF PatientInv
      <3>4. CASE Bookkeeping
        BY <3>1, <3>4, CourtesyBookkeeping DEF PatientInv
      <3>5. CASE StopSerial
        BY <2>2, <3>5 DEF StopSerial, TkGoes
      <3> QED
        BY <2>2, <3>1, <3>2, <3>3, <3>4, <3>5, CourtesyCalls
        DEF PatientInv, Next, ClientCallback, TimerStep, TkStep, User, Bookkeeping
    <2>3. CASE UNCHANGED <<vars, hurried>>
      <3>1. Bookkeeping /\ UNCHANGED <<hurried, faults, tk>>
        BY <2>3 DEF Bookkeeping, vars, service, portVars
      <3>2. CASE tk \notin {"stSerial", "stopped"}
        BY <2>1, <3>1, <3>2, CourtesyBookkeeping DEF PatientInv
      <3> QED
        BY <2>1, <3>1, <3>2 DEF PatientInv
    <2> QED
      BY <2>1, <2>2, <2>3 DEF PatientInv, OrderlyStep, OrderlyNext
  <1>3. PatientInv /\ EndInv => ConsumersAreRead
    <2> SUFFICES ASSUME PatientInv, EndInv, ~hurried, faults = 0,
                        (\E c \in Conns : conn[c] = "recv") \/ (tk = "idle" /\ local)
                 PROVE  isConnected /\ handle = "live" /\ Port!RxAlive(epoch)
      BY DEF ConsumersAreRead
    <2>1. tk \notin {"stSerial", "stopped"}
      BY DEF EndInv, Ending, Reaping, ServerInv, Tcp!ServedIsListed
    <2>2. isConnected /\ Patient /\ PortInv
      BY <2>1 DEF PatientInv, Courtesy, Served, LocalWants, TypeInv
    <2> QED
      BY <2>2, PatientIsRead
  <1> QED
    BY <1>1, <1>2, <1>3, EndAlways, LifeIsOrderly, PTL DEF LifeSpec

-----------------------------------------------------------------------------
(***************************************************************************)
(* The promises of the parts                                               *)
(***************************************************************************)

\* Whatever the service does, the port makes a step of its own or none.
LEMMA PortSteps == ASSUME [Next]_vars PROVE PortUse \/ UNCHANGED portVars
  <1>1. CASE Bookkeeping
    BY <1>1, BookkeepingOnly
  <1>2. CASE PortStep \/ TcpStep \/ Network \/ Device
    BY <1>2 DEF PortStep, TcpStep, Network, Device, PortUse
  <1>3. CASE \/ \E c \in Conns : \/ ConnectOpen(c) \/ ConnectReturn(c)
                                 \/ ConnectRaises(c) \/ DisconnectReturn(c)
             \/ \E t \in Timers : LingerClose(t)
             \/ ConnectLocalOpen \/ StopSerial \/ StartServer \/ StopServer
    BY <1>3, PortServiceAssumption
    DEF ConnectOpen, ConnectReturn, ConnectRaises, DisconnectReturn, LingerClose,
        ConnectLocalOpen, StopSerial, StartServer, StopServer, PortUse, Callers
  <1> QED
    BY <1>1, <1>2, <1>3 DEF Next, ClientCallback, TimerStep, TkStep, User, Bookkeeping

\* The service keeps to the server's specification: its callbacks, however long they take
\* and whatever else goes on meanwhile, are single steps of SerialServer or none, so that
\* what is proved of SerialServer holds of the server within the service.
THEOREM ServiceRunsServer == Spec => Tcp!Spec
  <1>1. Init => Tcp!Init
    BY DEF Init
  <1>2. [Next]_vars => [Tcp!Next]_(Tcp!vars)
    BY ServerSteps, ServerDoes
  <1> QED
    BY <1>1, <1>2, PTL DEF Spec, Tcp!Spec

\* What SerialPort promises whoever calls it: within the service, too, a port that counts as
\* connected is open and read, but for a close() that has been called and an open that is
\* under way.
THEOREM ServiceKeepsPort == Spec => [](Port!ConnectedIsOpen /\ Port!ConnectedIsRead)
  <1> DEFINE I == TypeInv /\ Port!ConnectedIsRead
  <1>1. Init => I
    BY TypeInit DEF Init, Port!Init, Port!ConnectedIsRead
  <1>2. ASSUME I, [Next]_vars PROVE I'
    BY <1>2, TypeStep, PortSteps, PortIsRead, PortReadRests DEF TypeInv
  <1>3. I => Port!ConnectedIsOpen /\ Port!ConnectedIsRead
    BY DEF TypeInv, PortInv
  <1> QED
    BY <1>1, <1>2, <1>3, PTL DEF Spec

\* on_disconnect is called for each connection that goes down and for nothing else, however
\* many threads of the service use the port.
THEOREM ServiceIsTold == Spec => Port!DropsNotified
  <1>1. ASSUME TypeInv, [Next]_vars PROVE [Heard]_(Port!vars)
    <2>1. CASE PortUse
      BY <1>1, <2>1, PortTells DEF TypeInv
    <2>2. CASE UNCHANGED portVars
      BY <2>2 DEF portVars, Port!vars, Port!device, Port!port, Port!threads
    <2> QED
      BY <1>1, <2>1, <2>2, PortSteps
  <1>2. TypeInv /\ [Next]_vars => TypeInv'
    BY TypeStep
  <1> QED
    BY <1>1, <1>2, TypeInit, PTL DEF Spec, Port!DropsNotified, Heard
=============================================================================
