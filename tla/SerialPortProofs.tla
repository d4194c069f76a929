-------------------------- MODULE SerialPortProofs --------------------------
(***************************************************************************)
(* What holds of the serial port: for any set of callers and any bounds;   *)
(* for a single caller, in the two ways of MCSerialSingle; and of writing  *)
(* with wait_echo.                                                         *)
(***************************************************************************)
EXTENDS MCSerialSingle, EchoWrite, TLAPS

-----------------------------------------------------------------------------
(***************************************************************************)
(* Any callers.  The inductive invariant IInv adds to the properties what  *)
(* they rest on: the lock discipline, the room a thread that holds the     *)
(* lock has below the bounds, and that receive threads are started in      *)
(* epoch order.                                                            *)
(***************************************************************************)

\* A thread inside __open has room for the receive or reconnect thread it may start.
Room ==
    (\/ \E c \in Callers : pc[c] \in {"opening", "retryTest"}
     \/ \E r \in Retries : rt[r] = "opening")
        => epoch < MaxEpoch /\ retries < MaxRetry

\* Receive threads 1 to epoch have been started, and no other.
EpochOrder ==
    /\ \A e \in Epochs : rx[e] # "none" <=> e <= epoch
    /\ isConnected => epoch > 0

IInv ==
    /\ TypeOK
    /\ LockInv
    /\ Room
    /\ EpochOrder
    /\ ConnectedIsOpen
    /\ ConnectedIsRead

\* The initial states satisfy the inductive invariant.
LEMMA InitIInv == Init => IInv
  <1> SUFFICES ASSUME Init PROVE IInv
    OBVIOUS
  <1> USE SerialPortAssumption DEF Init, Epochs, Retries
  <1>1. TypeOK
    <2>1. /\ plugged \in BOOLEAN /\ isConnected \in BOOLEAN /\ closeSet \in BOOLEAN
      BY Zenon
    <2>2. /\ faults \in 0 .. MaxFaults /\ epoch \in 0 .. MaxEpoch
          /\ retries \in 0 .. MaxRetry /\ retryThread \in 0 .. MaxRetry
      OBVIOUS
    <2>3. /\ handle \in {"closed", "live", "dead"} /\ told \in {"nothing", "up", "down"}
          /\ lock \in Callers \cup (1 .. MaxRetry) \cup {NoOne}
      OBVIOUS
    <2>4. /\ rx \in [1 .. MaxEpoch -> RxStates] /\ rt \in [1 .. MaxRetry -> RtStates]
          /\ pc \in [Callers -> CallStates]
      BY DEF RxStates, RtStates, CallStates, Resting, OpenStates, CloseStates
    <2>5. /\ target \in [Callers -> 0 .. MaxEpoch + MaxRetry]
          /\ calls \in [Callers -> 0 .. MaxCalls]
      OBVIOUS
    <2> QED
      BY <2>1, <2>2, <2>3, <2>4, <2>5 DEF TypeOK
  <1>2. LockInv /\ Room
    BY DEF LockInv, Room
  <1>3. EpochOrder /\ ConnectedIsOpen /\ ConnectedIsRead
    BY DEF EpochOrder, ConnectedIsOpen, ConnectedIsRead
  <1> QED
    BY <1>1, <1>2, <1>3 DEF IInv

\* A reconnect thread that is started is not one that opens the port.
LEMMA StartOpensNothing ==
    ASSUME TypeOK, StartRetry
    PROVE  \A r \in Retries : rt'[r] = "opening" => rt[r] = "opening"
  <1> SUFFICES ASSUME NEW r \in Retries, rt'[r] = "opening" PROVE rt[r] = "opening"
    OBVIOUS
  <1>1. rt' = [rt EXCEPT ![retries + 1] = "check"]
    BY DEF StartRetry
  <1>2. rt \in [Retries -> RtStates]
    BY DEF TypeOK
  <1> QED
    BY <1>1, <1>2

\* A caller that gives the lock back leaves nobody inside __open, unless a reconnect thread
\* opens then.
LEMMA NobodyInside ==
    ASSUME TypeOK, LockInv, NEW c \in Callers, lock = c, lock' = NoOne,
           NEW p \in {"opened", "failed"}, pc' = [pc EXCEPT ![c] = p],
           \A r \in Retries : rt'[r] = "opening" => rt[r] = "opening"
    PROVE  /\ \A d \in Callers : pc'[d] \notin {"opening", "retryTest", "writing"}
           /\ \A r \in Retries : rt'[r] # "opening"
           /\ LockInv'
  <1>1. \A r \in Retries : lock # r
    BY SerialPortAssumption DEF Retries
  <1>2. \A r \in Retries : rt'[r] # "opening"
    BY <1>1 DEF LockInv
  <1>3. \A d \in Callers : pc'[d] \notin {"opening", "retryTest", "writing"}
    <2>1. \A d \in Callers : d # c => pc[d] \notin {"opening", "retryTest", "writing"}
      BY DEF LockInv
    <2>2. pc \in [Callers -> CallStates]
      BY DEF TypeOK
    <2> QED
      BY <2>1, <2>2
  <1>4. \A t \in Callers \cup Retries : NoOne # t
    BY SerialPortAssumption DEF Retries
  <1> QED
    BY <1>2, <1>3, <1>4 DEF LockInv

\* A step of a caller preserves the inductive invariant.
LEMMA CallerIInv ==
    ASSUME IInv, NEW c \in Callers, Call(c) \/ CallerStep(c)
    PROVE  IInv'
  <1> USE SerialPortAssumption
      DEF IInv, TypeOK, LockInv, Room, EpochOrder, ConnectedIsOpen, ConnectedIsRead,
          Epochs, Retries, RxStates, RtStates, CallStates, Resting, OpenStates, CloseStates,
          isOpen, device, port, threads, Goes, Acquire, Release, RxAlive
  <1>1. ASSUME Call(c) PROVE IInv'
    <2>1. CASE EnsureOpen(c)
      <3>1. TypeOK'
        BY <1>1, <2>1 DEF Call, EnsureOpen
      <3>2. LockInv'
        BY <1>1, <2>1 DEF Call, EnsureOpen
      <3>3. (Room /\ EpochOrder)'
        BY <1>1, <2>1 DEF Call, EnsureOpen
      <3>4. (ConnectedIsOpen /\ ConnectedIsRead)'
        BY <1>1, <2>1 DEF Call, EnsureOpen
      <3> QED
        BY <3>1, <3>2, <3>3, <3>4
    <2>2. CASE CloseFlag(c)
      BY <1>1, <2>2 DEF Call, CloseFlag
    <2>3. CASE SendBegin(c)
      <3>1. TypeOK'
        BY <1>1, <2>3 DEF Call, SendBegin
      <3>2. LockInv'
        BY <1>1, <2>3 DEF Call, SendBegin
      <3>3. (Room /\ EpochOrder)'
        BY <1>1, <2>3 DEF Call, SendBegin
      <3>4. (ConnectedIsOpen /\ ConnectedIsRead)'
        BY <1>1, <2>3 DEF Call, SendBegin
      <3> QED
        BY <3>1, <3>2, <3>3, <3>4
    <2> QED
      BY <1>1, <2>1, <2>2, <2>3 DEF Call
  <1>2. ASSUME OpenReset(c) PROVE IInv'
    <2>1. TypeOK'
      BY <1>2 DEF OpenReset
    <2>2. LockInv'
      BY <1>2 DEF OpenReset
    <2>3. (Room /\ EpochOrder)'
      BY <1>2 DEF OpenReset
    <2>4. (ConnectedIsOpen /\ ConnectedIsRead)'
      BY <1>2 DEF OpenReset
    <2> QED
      BY <2>1, <2>2, <2>3, <2>4
  <1>3. ASSUME OpenTry(c) PROVE IInv'
    BY <1>3 DEF OpenTry, SerialOpen
  <1>4. ASSUME OpenUp(c) PROVE IInv'
    <2>1. TypeOK'
      BY <1>4 DEF OpenUp, Opened
    <2>2. LockInv'
      BY <1>4 DEF OpenUp, Opened
    <2>3. (Room /\ EpochOrder)'
      <3>1. Room'
        <4>1. /\ \A d \in Callers : pc'[d] \notin {"opening", "retryTest"}
              /\ \A r \in Retries : rt'[r] # "opening"
          BY <1>4 DEF OpenUp
        <4> QED
          BY <4>1
      <3>2. EpochOrder'
        BY <1>4 DEF OpenUp, Opened
      <3> QED
        BY <3>1, <3>2
    <2>4. (ConnectedIsOpen /\ ConnectedIsRead)'
      BY <1>4 DEF OpenUp, Opened
    <2> QED
      BY <2>1, <2>2, <2>3, <2>4
  <1>5. ASSUME OpenDown(c) PROVE IInv'
    <2>1. CASE retryThread = 0
      <3>1. TypeOK'
        <4>1. rt' \in [1 .. MaxRetry -> RtStates]
          BY <1>5, <2>1 DEF OpenDown, StartRetry
        <4>2. retries' \in 0 .. MaxRetry /\ retryThread' \in 0 .. MaxRetry
          BY <1>5, <2>1 DEF OpenDown, StartRetry
        <4>3. pc' \in [Callers -> CallStates]
          BY <1>5, <2>1 DEF OpenDown
        <4> QED
          BY <1>5, <2>1, <4>1, <4>2, <4>3 DEF OpenDown
      <3>2. (LockInv /\ Room)'
        <4>1. \A r \in Retries : rt'[r] = "opening" => rt[r] = "opening"
          BY <1>5, <2>1, StartOpensNothing DEF OpenDown
        <4>2. /\ lock = c /\ lock' = NoOne
              /\ pc' = [pc EXCEPT ![c] = "opened"]
          BY <1>5, <2>1 DEF OpenDown
        <4> QED
          BY <4>1, <4>2, NobodyInside
      <3>3. EpochOrder'
        BY <1>5, <2>1 DEF OpenDown
      <3>4. (ConnectedIsOpen /\ ConnectedIsRead)'
        BY <1>5, <2>1 DEF OpenDown, StartRetry
      <3> QED
        BY <3>1, <3>2, <3>3, <3>4
    <2>2. CASE retryThread # 0
      <3>1. TypeOK'
        BY <1>5, <2>2 DEF OpenDown
      <3>2. LockInv' /\ (Room /\ EpochOrder)'
        BY <1>5, <2>2 DEF OpenDown
      <3>3. (ConnectedIsOpen /\ ConnectedIsRead)'
        BY <1>5, <2>2 DEF OpenDown
      <3> QED
        BY <3>1, <3>2, <3>3
    <2> QED
      BY <2>1, <2>2
  <1>14. ASSUME RetryTest(c) PROVE IInv'
    <2>1. pc' \in [Callers -> CallStates] /\ pc'[c] \in {"failed", "opened"}
      BY <1>14 DEF RetryTest
    <2>2. /\ lock = c /\ lock' = NoOne
          /\ pc[c] = "retryTest" /\ pc' = [pc EXCEPT ![c] = pc'[c]]
          /\ UNCHANGED <<device, port, rx, epoch, closeSet, target, calls>>
      BY <1>14 DEF RetryTest
    <2>3. CASE retryThread = 0 \/ RtAlive(retryThread)
      <3>1. UNCHANGED <<rt, retries, retryThread>>
        BY <1>14, <2>3 DEF RetryTest
      <3>2. TypeOK'
        BY <2>1, <2>2, <3>1
      <3>3. (LockInv /\ Room)'
        BY <2>1, <2>2, <3>1, NobodyInside
      <3>4. (EpochOrder /\ ConnectedIsOpen)'
        BY <2>2
      <3>5. ConnectedIsRead'
        BY <2>1, <2>2
      <3> QED
        BY <3>2, <3>3, <3>4, <3>5
    <2>4. CASE ~(retryThread = 0 \/ RtAlive(retryThread))
      <3>1. StartRetry
        BY <1>14, <2>4 DEF RetryTest
      <3>2. TypeOK'
        BY <2>1, <2>2, <3>1 DEF StartRetry
      <3>3. (LockInv /\ Room)'
        BY <2>1, <2>2, <3>1, NobodyInside, StartOpensNothing
      <3>4. (EpochOrder /\ ConnectedIsOpen)'
        BY <2>2
      <3>5. ConnectedIsRead'
        BY <2>1, <2>2
      <3> QED
        BY <3>2, <3>3, <3>4, <3>5
    <2> QED
      BY <2>3, <2>4
  <1>6. ASSUME CloseBody(c) PROVE IInv'
    BY <1>6 DEF CloseBody, CloseHandle
  <1>7. ASSUME RxCheck(c) PROVE IInv'
    BY <1>7 DEF RxCheck
  <1>8. ASSUME RxJoin(c) PROVE IInv'
    BY <1>8 DEF RxJoin
  <1>9. ASSUME RxWait(c) PROVE IInv'
    BY <1>9 DEF RxWait
  <1>10. ASSUME RtCheck(c) PROVE IInv'
    BY <1>10 DEF RtCheck
  <1>15. ASSUME RtAliveTest(c) PROVE IInv'
    BY <1>15 DEF RtAliveTest
  <1>11. ASSUME RtJoin(c) PROVE IInv'
    BY <1>11 DEF RtJoin
  <1>12. ASSUME RtWait(c) PROVE IInv'
    BY <1>12 DEF RtWait
  <1>13. ASSUME SendEnd(c) PROVE IInv'
    BY <1>13 DEF SendEnd
  <1> QED
    BY <1>1, <1>2, <1>3, <1>4, <1>5, <1>6, <1>7, <1>8, <1>9, <1>10, <1>11,
       <1>12, <1>13, <1>14, <1>15 DEF CallerStep

\* A step of a receive thread preserves the inductive invariant.
LEMMA ReceiverIInv ==
    ASSUME IInv, NEW e \in Epochs, RxStep(e) \/ RxStale(e) \/ RxGlitch(e)
    PROVE  IInv'
  <1> USE SerialPortAssumption
      DEF IInv, TypeOK, LockInv, Room, EpochOrder, ConnectedIsOpen, ConnectedIsRead,
          Epochs, Retries, RxStates, RtStates, CallStates, Resting, OpenStates, CloseStates,
          isOpen, device, port, threads, RxGoes, RxAlive
  <1>1. ASSUME RxStart(e) PROVE IInv'
    BY <1>1 DEF RxStart
  <1>2. ASSUME RxEnd(e) PROVE IInv'
    BY <1>2 DEF RxEnd
  <1>3. ASSUME RxStale(e) PROVE IInv'
    BY <1>3 DEF RxStale
  <1>4. ASSUME RxGlitch(e) PROVE IInv'
    BY <1>4 DEF RxGlitch
  <1>5. ASSUME RxCheckEpoch(e) PROVE IInv'
    BY <1>5 DEF RxCheckEpoch
  <1>6. ASSUME RxCheckFlag(e) PROVE IInv'
    BY <1>6 DEF RxCheckFlag
  <1>7. ASSUME RxClose(e) PROVE IInv'
    <2> USE <1>7 DEF RxClose, CloseHandle, StartRetry
    <2>1. rx' \in [1 .. MaxEpoch -> RxStates] /\ rt' \in [1 .. MaxRetry -> RtStates]
      OBVIOUS
    <2>2. /\ handle' \in {"closed", "live", "dead"} /\ told' \in {"nothing", "up", "down"}
          /\ isConnected' \in BOOLEAN
      OBVIOUS
    <2>3. TypeOK'
      BY <2>1, <2>2
    <2>4. LockInv'
      OBVIOUS
    <2>5. (Room /\ EpochOrder)'
      OBVIOUS
    <2>6. (ConnectedIsOpen /\ ConnectedIsRead)'
      OBVIOUS
    <2> QED
      BY <2>3, <2>4, <2>5, <2>6
  <1> QED
    BY <1>1, <1>2, <1>3, <1>4, <1>5, <1>6, <1>7 DEF RxStep

\* A step of a reconnect thread preserves the inductive invariant.
LEMMA RetryIInv ==
    ASSUME IInv, NEW r \in Retries, RtStep(r)
    PROVE  IInv'
  <1> USE SerialPortAssumption
      DEF IInv, TypeOK, LockInv, Room, EpochOrder, ConnectedIsOpen, ConnectedIsRead,
          Epochs, Retries, RxStates, RtStates, CallStates, Resting, OpenStates, CloseStates,
          isOpen, device, port, threads, RtGoes, Acquire, Release, RxAlive
  <1>1. ASSUME RtLoop(r) PROVE IInv'
    BY <1>1 DEF RtLoop
  <1>2. ASSUME RtList(r) PROVE IInv'
    BY <1>2 DEF RtList
  <1>3. ASSUME RtTry(r) PROVE IInv'
    BY <1>3 DEF RtTry, SerialOpen
  <1>4. ASSUME RtUp(r) PROVE IInv'
    <2>1. TypeOK'
      BY <1>4 DEF RtUp, Opened
    <2>2. LockInv'
      BY <1>4 DEF RtUp, Opened
    <2>3. (Room /\ EpochOrder)'
      BY <1>4 DEF RtUp, Opened
    <2>4. (ConnectedIsOpen /\ ConnectedIsRead)'
      BY <1>4 DEF RtUp, Opened
    <2> QED
      BY <2>1, <2>2, <2>3, <2>4
  <1>5. ASSUME RtDown(r) PROVE IInv'
    BY <1>5 DEF RtDown
  <1>6. ASSUME RtExit(r) PROVE IInv'
    BY <1>6 DEF RtExit
  <1> QED
    BY <1>1, <1>2, <1>3, <1>4, <1>5, <1>6 DEF RtStep

\* The device coming and going preserves the inductive invariant, and so does stuttering.
LEMMA DeviceIInv ==
    ASSUME IInv, Unplug \/ Plug \/ UNCHANGED vars
    PROVE  IInv'
  <1> USE SerialPortAssumption
      DEF IInv, TypeOK, LockInv, Room, EpochOrder, ConnectedIsOpen, ConnectedIsRead,
          Epochs, Retries, isOpen, device, port, threads, RxAlive
  <1>1. ASSUME Unplug PROVE IInv'
    <2>1. plugged' \in BOOLEAN
      <3>1. plugged' = FALSE
        BY <1>1 DEF Unplug
      <3> QED
        BY <3>1, Zenon
    <2>2. TypeOK'
      BY <1>1, <2>1 DEF Unplug
    <2>3. (LockInv /\ Room /\ EpochOrder /\ ConnectedIsOpen /\ ConnectedIsRead)'
      BY <1>1 DEF Unplug
    <2> QED
      BY <2>2, <2>3
  <1>2. ASSUME Plug PROVE IInv'
    BY <1>2 DEF Plug
  <1>3. ASSUME UNCHANGED vars PROVE IInv'
    BY <1>3 DEF vars
  <1> QED
    BY <1>1, <1>2, <1>3

LEMMA StepIInv == IInv /\ [Next]_vars => IInv'
  <1> SUFFICES ASSUME IInv, [Next]_vars PROVE IInv'
    OBVIOUS
  <1>1. ASSUME NEW c \in Callers, Call(c) \/ CallerStep(c) PROVE IInv'
    BY <1>1, CallerIInv
  <1>2. ASSUME NEW e \in Epochs, RxStep(e) \/ RxStale(e) \/ RxGlitch(e) PROVE IInv'
    BY <1>2, ReceiverIInv
  <1>3. ASSUME NEW r \in Retries, RtStep(r) PROVE IInv'
    BY <1>3, RetryIInv
  <1>4. ASSUME Unplug \/ Plug \/ UNCHANGED vars PROVE IInv'
    BY <1>4, DeviceIInv
  <1> QED
    BY <1>1, <1>2, <1>3, <1>4 DEF Next, Environment

\* IInv is an invariant of the specification.
THEOREM Invariance == Spec => []IInv
  BY InitIInv, StepIInv, PTL DEF Spec

\* Every variable keeps its type, and no bound is overrun.
THEOREM TypeCorrect == Spec => []TypeOK
  BY Invariance, PTL DEF IInv

\* self.lock is held exactly by the thread that is inside a with block: whatever the
\* number of callers and of threads the port has started, two of them are never there.
THEOREM LockCorrect == Spec => []LockInv
  BY Invariance, PTL DEF IInv

\* is_connected implies is_open, in spite of the reads and writes made without the lock.
THEOREM ConnectedOpen == Spec => []ConnectedIsOpen
  BY Invariance, PTL DEF IInv

\* A connected port is read by the receive thread of its epoch unless a close() has set
\* _close_set or a caller is just opening the port again.
THEOREM ConnectedRead == Spec => []ConnectedIsRead
  BY Invariance, PTL DEF IInv

\* A step that takes the connection down calls on_disconnect, and on_disconnect is
\* called for nothing else: not even a failing open, which stores is_connected too,
\* takes a connection down silently.
THEOREM DropsAreNotified == Spec => DropsNotified
  <1>1. ASSUME IInv, [Next]_vars
        PROVE  [/\ isConnected /\ ~isConnected' => told' = "down"
                /\ told # "down" /\ told' = "down" => isConnected]_vars
    <2> DEFINE Heard == /\ isConnected /\ ~isConnected' => told' = "down"
                        /\ told # "down" /\ told' = "down" => isConnected
    <2> USE DEF port, device, threads
    <2>1. ASSUME CloseHandle PROVE Heard
      BY <2>1 DEF CloseHandle
    <2>2. ASSUME isConnected' /\ told' = told PROVE Heard
      BY <2>2
    <2>3. ASSUME isConnected' = isConnected /\ (told' = told \/ told' = "up") PROVE Heard
      BY <2>3
    <2>4. ASSUME NEW c \in Callers, OpenDown(c) PROVE Heard
      <3>1. ~isConnected
        BY <1>1, <2>4 DEF OpenDown, IInv, ConnectedIsOpen
      <3>2. told' = told
        BY <2>4 DEF OpenDown
      <3> QED
        BY <3>1, <3>2
    <2>5. ASSUME NEW c \in Callers, Call(c) \/ CallerStep(c) PROVE Heard
      <3>1. CASE Call(c)
        BY <2>3, <3>1 DEF Call, EnsureOpen, CloseFlag, SendBegin
      <3>2. CASE OpenReset(c) \/ OpenTry(c) \/ RetryTest(c) \/ SendEnd(c)
        BY <2>3, <3>2 DEF OpenReset, OpenTry, SerialOpen, RetryTest, SendEnd
      <3>3. CASE OpenUp(c)
        BY <2>2, <3>3 DEF OpenUp, Opened
      <3>4. CASE CloseBody(c)
        BY <2>1, <3>4 DEF CloseBody
      <3>5. CASE \/ RxCheck(c) \/ RxJoin(c) \/ RxWait(c)
                 \/ RtCheck(c) \/ RtAliveTest(c) \/ RtJoin(c) \/ RtWait(c)
        BY <2>3, <3>5 DEF RxCheck, RxJoin, RxWait, RtCheck, RtAliveTest, RtJoin, RtWait
      <3> QED
        BY <2>4, <2>5, <3>1, <3>2, <3>3, <3>4, <3>5 DEF CallerStep
    <2>6. ASSUME NEW e \in Epochs, RxStep(e) \/ RxStale(e) \/ RxGlitch(e) PROVE Heard
      <3>1. CASE RxClose(e)
        BY <2>1, <3>1 DEF RxClose
      <3>2. CASE RxStart(e)
        BY <2>3, <3>2 DEF RxStart
      <3>3. CASE RxEnd(e) \/ RxCheckEpoch(e) \/ RxCheckFlag(e) \/ RxStale(e) \/ RxGlitch(e)
        BY <2>3, <3>3 DEF RxEnd, RxCheckEpoch, RxCheckFlag, RxStale, RxGlitch
      <3> QED
        BY <2>6, <3>1, <3>2, <3>3 DEF RxStep
    <2>7. ASSUME NEW r \in Retries, RtStep(r) PROVE Heard
      <3>1. CASE RtUp(r)
        BY <2>2, <3>1 DEF RtUp, Opened
      <3>2. CASE RtTry(r)
        BY <2>3, <3>2 DEF RtTry, SerialOpen
      <3>3. CASE RtLoop(r) \/ RtList(r) \/ RtDown(r) \/ RtExit(r)
        BY <2>3, <3>3 DEF RtLoop, RtList, RtDown, RtExit
      <3> QED
        BY <2>7, <3>1, <3>2, <3>3 DEF RtStep
    <2>8. ASSUME Unplug \/ Plug PROVE Heard
      BY <2>3, <2>8 DEF Unplug, Plug
    <2> QED
      BY <1>1, <2>5, <2>6, <2>7, <2>8 DEF Next, Environment
  <1> QED
    BY <1>1, Invariance, PTL DEF Spec, DropsNotified

\* Whoever opens or closes the device finds the lock free, so a caller that holds it
\* to write keeps the same open (or closed) port until it is done.
THEOREM WritesAreSafe == Spec => WriteSafe
  <1>1. ASSUME IInv, [Next]_vars
        PROVE  [\A c \in Callers :
                    pc[c] = "writing" /\ pc'[c] = "writing" => isOpen' = isOpen]_vars
    <2> SUFFICES ASSUME NEW w \in Callers, pc[w] = "writing", Next
                 PROVE  isOpen' = isOpen
      BY <1>1
    <2>1. lock # NoOne
      BY <1>1, SerialPortAssumption DEF IInv, LockInv
    <2>2. ASSUME handle' = handle PROVE isOpen' = isOpen
      BY <2>2 DEF isOpen
    <2>3. ASSUME NEW c \in Callers, Call(c) \/ CallerStep(c) PROVE handle' = handle
      <3>1. CASE Call(c)
        BY <3>1 DEF Call, EnsureOpen, CloseFlag, SendBegin, port
      <3>2. CASE OpenReset(c) \/ OpenUp(c) \/ OpenDown(c) \/ RetryTest(c) \/ SendEnd(c)
        BY <3>2 DEF OpenReset, OpenUp, Opened, OpenDown, RetryTest, SendEnd, port
      <3>3. CASE OpenTry(c) \/ CloseBody(c)
        BY <2>1, <3>3 DEF OpenTry, Acquire, CloseBody
      <3>4. CASE \/ RxCheck(c) \/ RxJoin(c) \/ RxWait(c)
                 \/ RtCheck(c) \/ RtAliveTest(c) \/ RtJoin(c) \/ RtWait(c)
        BY <3>4 DEF RxCheck, RxJoin, RxWait, RtCheck, RtAliveTest, RtJoin, RtWait, port
      <3> QED
        BY <2>3, <3>1, <3>2, <3>3, <3>4 DEF CallerStep
    <2>4. ASSUME NEW e \in Epochs, RxStep(e) \/ RxStale(e) \/ RxGlitch(e)
          PROVE  handle' = handle
      <3>1. CASE RxClose(e)
        BY <2>1, <3>1 DEF RxClose
      <3>2. CASE RxStart(e)
        BY <3>2 DEF RxStart
      <3>3. CASE RxEnd(e) \/ RxCheckEpoch(e) \/ RxCheckFlag(e) \/ RxStale(e) \/ RxGlitch(e)
        BY <3>3 DEF RxEnd, RxCheckEpoch, RxCheckFlag, RxStale, RxGlitch, port
      <3> QED
        BY <2>4, <3>1, <3>2, <3>3 DEF RxStep
    <2>5. ASSUME NEW r \in Retries, RtStep(r) PROVE handle' = handle
      <3>1. CASE RtTry(r)
        BY <2>1, <3>1 DEF RtTry, Acquire
      <3>2. CASE RtUp(r)
        BY <3>2 DEF RtUp, Opened
      <3>3. CASE RtLoop(r) \/ RtList(r) \/ RtDown(r) \/ RtExit(r)
        BY <3>3 DEF RtLoop, RtList, RtDown, RtExit, port
      <3> QED
        BY <2>5, <3>1, <3>2, <3>3 DEF RtStep
    <2>6. ASSUME Unplug PROVE isOpen' = isOpen
      BY <2>6 DEF Unplug, isOpen
    <2>7. ASSUME Plug PROVE handle' = handle
      BY <2>7 DEF Plug, port
    <2> QED
      BY <2>2, <2>3, <2>4, <2>5, <2>6, <2>7 DEF Next, Environment
  <1> QED
    BY <1>1, Invariance, PTL DEF Spec, WriteSafe

-----------------------------------------------------------------------------
(***************************************************************************)
(* A single caller, when joins wait and Serial.close() works: any bounds,  *)
(* and the device listed or not.  Each of the two ways has an inductive    *)
(* invariant of its own, on top of the one that holds for any callers.     *)
(***************************************************************************)

\* Without a fault a steady device is opened at the first try, so that no reconnect thread
\* is ever started, and close() does not return before the receiver it has made to leave:
\* receivers are one at a time, and one that leaves finds _close_set set.
ReliableInv ==
    /\ retries = 0 /\ retryThread = 0 /\ \A r \in Retries : rt[r] = "none"
    /\ isConnected => rx[epoch] \in {"start", "loop"}
    /\ \A e \in Epochs :
          /\ RxAlive(e) => e = epoch
          /\ rx[e] # "closeWait"
          /\ rx[e] \in {"checkEpoch", "checkFlag"} => ~isConnected /\ closeSet
    /\ \A c \in Callers :
          /\ pc[c] \notin {"rtAlive", "rtJoin", "rtWait", "failed"}
          /\ isOpen <=> isConnected \/ pc[c] = "opening"
          /\ pc[c] \in OpenStates \cup {"idle", "rxCheck", "rxJoin", "rxWait", "rtCheck", "closed"}
                => ~isConnected
          /\ pc[c] \in {"opened", "writing"} => isConnected
          /\ pc[c] = "rxWait" => target[c] = epoch
          /\ pc[c] \notin {"rxCheck", "rxJoin", "rxWait"} /\ ~isConnected
                => \A e \in Epochs : ~RxAlive(e)
          /\ ~isConnected /\ epoch > 0 /\ ~closeSet => pc[c] \in OpenStates

\* When the device stays an open succeeds.  Receivers that fail start reconnect threads, and
\* those and the caller may open the port at once; but whenever it is down and no close()
\* has set _close_set, one of them is on the way.
Attended ==
    /\ plugged /\ handle # "dead"
    /\ \A r \in Retries : r > retries => rt[r] = "none"
    /\ isOpen <=> \/ isConnected
                  \/ \E c \in Callers : pc[c] = "opening"
                  \/ \E r \in Retries : rt[r] = "opening"
    /\ \A c \in Callers : /\ pc[c] \in CloseStates => closeSet
                          /\ pc[c] # "retryTest"
    /\ RecoveryPending

\* A caller that keeps the port opens it once, when no thread has been started yet; from
\* then on the receivers and reconnect threads bring the port back among themselves.
KeptInv ==
    /\ ~closeSet
    /\ \A c \in Callers :
          /\ pc[c] \in {"idle", "reset", "openWait", "opening", "opened", "writing"}
          /\ pc[c] \in OpenStates \cup {"idle"} => epoch = 0 /\ retries = 0
    /\ retries = 0 => retryThread = 0
    /\ \A r \in Retries : r > retries => rt[r] = "none"
    /\ isOpen /\ ~isConnected => \/ \E c \in Callers : pc[c] = "opening"
                                 \/ \E r \in Retries : rt[r] = "opening"
    /\ RecoveryPending

\* Up to one fault, the first open is the only one until its receiver has left: nobody is on
\* the way to another.  From then on the reconnect threads may open the port more than
\* once, but nothing fails any more: the newest receiver goes on reading, and one that is
\* superseded gets no further than its test of the epoch.
OnceInv ==
    faults <= 1 =>
        /\ epoch = 0 => retries <= 1
        /\ epoch = 1 /\ rx[1] # "dead" =>
              /\ isOpen /\ isConnected
              /\ \A r \in Retries : rt[r] \notin {"list", "openWait", "opening"}
        /\ epoch > 1 \/ (epoch = 1 /\ rx[1] = "dead") => faults = 1 /\ handle # "dead"
        /\ epoch > 1 =>
              /\ handle = "live" /\ isConnected
              /\ rx[epoch] \in {"start", "loop"}
              /\ \A e \in Epochs : rx[e] \notin {"checkFlag", "closeWait"}
        /\ faults = 0 =>
              /\ handle # "dead"
              /\ epoch = 1 => rx[1] \in {"start", "loop"}

SingleInv ==
    /\ IInv
    /\ kept \in BOOLEAN
    /\ IF kept THEN KeptInv /\ OnceInv ELSE Attended /\ (faults = 0 => ReliableInv)

LEMMA InitSingle ==
    ASSUME Init, kept \in BOOLEAN, ~kept => plugged
    PROVE  SingleInv
  <1> USE SerialPortAssumption
  <1>1. IInv
    BY InitIInv
  <1>2. OnceInv
    BY DEF Init, OnceInv, Epochs, Retries
  <1>3. KeptInv
    BY DEF Init, KeptInv, RecoveryPending, isOpen, OpenStates, Epochs, Retries
  <1>4. ASSUME plugged PROVE Attended /\ ReliableInv
    <2>1. ReliableInv
      BY DEF Init, ReliableInv, isOpen, OpenStates, RxAlive, Epochs, Retries
    <2>2. RecoveryPending
      BY DEF Init, RecoveryPending
    <2> QED
      BY <1>4, <2>1, <2>2 DEF Init, Attended, isOpen, CloseStates, Retries
  <1> QED
    BY <1>1, <1>2, <1>3, <1>4 DEF SingleInv

-----------------------------------------------------------------------------
(***************************************************************************)
(* A steady device                                                         *)
(***************************************************************************)

\* A step of the caller, with a steady device and no fault.
LEMMA CallerReliable ==
    ASSUME ~SlowThreads, ~CloseCanFail, NEW c, Callers = {c},
           IInv, Attended, ReliableInv, UNCHANGED <<plugged, faults>>, Call(c) \/ CallerStep(c)
    PROVE  ReliableInv'
  <1> USE SerialPortAssumption
      DEF IInv, TypeOK, LockInv, Room, EpochOrder, Attended, ReliableInv,
          Epochs, Retries, RxStates, CallStates, Resting, OpenStates, CloseStates, isOpen,
          device, port, threads, Goes, Acquire, Release, RxAlive
  <1>1. ASSUME EnsureOpen(c) PROVE ReliableInv'
    BY <1>1 DEF EnsureOpen
  <1>2. ASSUME CloseFlag(c) PROVE ReliableInv'
    BY <1>2 DEF CloseFlag
  <1>3. ASSUME SendBegin(c) PROVE ReliableInv'
    BY <1>3 DEF SendBegin
  <1>4. ASSUME OpenReset(c) PROVE ReliableInv'
    BY <1>4 DEF OpenReset
  <1>5. ASSUME OpenTry(c) PROVE ReliableInv'
    BY <1>5 DEF OpenTry, SerialOpen
  <1>6. ASSUME OpenUp(c) PROVE ReliableInv'
    BY <1>6 DEF OpenUp, Opened
  <1>7. ~OpenDown(c) /\ ~RetryTest(c)
    BY DEF OpenDown, RetryTest
  <1>8. ASSUME CloseBody(c) PROVE ReliableInv'
    BY <1>8 DEF CloseBody, CloseHandle
  <1>9. ASSUME RxCheck(c) PROVE ReliableInv'
    BY <1>9 DEF RxCheck
  <1>10. ASSUME RxJoin(c) PROVE ReliableInv'
    BY <1>10 DEF RxJoin
  <1>11. ASSUME RxWait(c) PROVE ReliableInv'
    BY <1>11 DEF RxWait, RxLeaving
  <1>12. ASSUME RtCheck(c) PROVE ReliableInv'
    BY <1>12 DEF RtCheck
  <1>13. ~RtAliveTest(c) /\ ~RtJoin(c) /\ ~RtWait(c)
    BY DEF RtAliveTest, RtJoin, RtWait
  <1>14. ASSUME SendEnd(c) PROVE ReliableInv'
    BY <1>14 DEF SendEnd
  <1> QED
    BY <1>1, <1>2, <1>3, <1>4, <1>5, <1>6, <1>7, <1>8, <1>9, <1>10, <1>11,
       <1>12, <1>13, <1>14 DEF Call, CallerStep

\* A step of a receiver, with a steady device and no fault: nobody starts a reconnect thread.
LEMMA ReceiverReliable ==
    ASSUME ~SlowThreads, ~CloseCanFail, NEW c, Callers = {c},
           IInv, Attended, ReliableInv, UNCHANGED <<plugged, faults>>,
           NEW e \in Epochs, RxStep(e) \/ RxStale(e) \/ RxGlitch(e)
    PROVE  ReliableInv'
  <1> USE SerialPortAssumption
      DEF IInv, TypeOK, LockInv, Room, EpochOrder, Attended, ReliableInv,
          Epochs, Retries, RxStates, CallStates, Resting, OpenStates, CloseStates, isOpen,
          device, port, threads, RxGoes, RxAlive
  <1>1. ASSUME RxStart(e) PROVE ReliableInv'
    BY <1>1 DEF RxStart
  <1>2. ASSUME RxEnd(e) PROVE ReliableInv'
    BY <1>2 DEF RxEnd
  <1>3. ASSUME RxCheckEpoch(e) PROVE ReliableInv'
    BY <1>3 DEF RxCheckEpoch
  <1>4. ASSUME RxCheckFlag(e) PROVE ReliableInv'
    BY <1>4 DEF RxCheckFlag
  <1>5. ~RxClose(e) /\ ~RxStale(e) /\ ~RxGlitch(e)
    BY DEF RxClose, RxStale, RxGlitch
  <1> QED
    BY <1>1, <1>2, <1>3, <1>4, <1>5 DEF RxStep

\* Any step, with a steady device and no fault.
LEMMA StepReliable ==
    ASSUME ~SlowThreads, ~CloseCanFail, NEW c, Callers = {c},
           IInv, Attended, ReliableInv, UNCHANGED <<plugged, faults>>, Next
    PROVE  ReliableInv'
  <1>1. ASSUME NEW r \in Retries, RtStep(r) PROVE FALSE
    BY <1>1 DEF ReliableInv, RtStep, RtGoes, RtLoop, RtList, RtTry, RtUp, RtDown, RtExit
  <1>2. ~Unplug /\ ~Plug
    BY SerialPortAssumption DEF IInv, TypeOK, Attended, Unplug, Plug
  <1> QED
    BY <1>1, <1>2, CallerReliable, ReceiverReliable DEF Next, Environment


\* A step of the caller, with a steady device.
LEMMA CallerAttended ==
    ASSUME ~CloseCanFail, NEW c, Callers = {c},
           IInv, Attended, UNCHANGED plugged, Call(c) \/ CallerStep(c)
    PROVE  Attended'
  <1> USE SerialPortAssumption
      DEF IInv, TypeOK, LockInv, Room, ConnectedIsOpen, Attended, RecoveryPending,
          Epochs, Retries, RxStates, CallStates, Resting, OpenStates, CloseStates, isOpen,
          device, port, threads, Goes, Acquire, Release, RxAlive
  <1>1. ASSUME EnsureOpen(c) PROVE Attended'
    BY <1>1 DEF EnsureOpen
  <1>2. ASSUME CloseFlag(c) PROVE Attended'
    BY <1>2 DEF CloseFlag
  <1>3. ASSUME SendBegin(c) PROVE Attended'
    BY <1>3 DEF SendBegin
  <1>4. ASSUME OpenReset(c) PROVE Attended'
    BY <1>4 DEF OpenReset
  <1>5. ASSUME OpenTry(c) PROVE Attended'
    BY <1>5 DEF OpenTry, SerialOpen
  <1>6. ASSUME OpenUp(c) PROVE Attended'
    BY <1>6 DEF OpenUp, Opened
  <1>7. ~OpenDown(c) /\ ~RetryTest(c)
    BY DEF OpenDown, RetryTest
  <1>8. ASSUME CloseBody(c) PROVE Attended'
    BY <1>8 DEF CloseBody, CloseHandle
  <1>9. ASSUME RxCheck(c) \/ RxJoin(c) \/ RxWait(c) PROVE Attended'
    BY <1>9 DEF RxCheck, RxJoin, RxWait
  <1>10. ASSUME RtCheck(c) \/ RtAliveTest(c) \/ RtJoin(c) \/ RtWait(c) PROVE Attended'
    BY <1>10 DEF RtCheck, RtAliveTest, RtJoin, RtWait
  <1>11. ASSUME SendEnd(c) PROVE Attended'
    BY <1>11 DEF SendEnd
  <1> QED
    BY <1>1, <1>2, <1>3, <1>4, <1>5, <1>6, <1>7, <1>8, <1>9, <1>10, <1>11
    DEF Call, CallerStep

\* A step of a receiver, with a steady device.
LEMMA ReceiverAttended ==
    ASSUME ~CloseCanFail, NEW c, Callers = {c},
           IInv, Attended, UNCHANGED plugged,
           NEW e \in Epochs, RxStep(e) \/ RxStale(e) \/ RxGlitch(e)
    PROVE  Attended'
  <1> USE SerialPortAssumption
      DEF IInv, TypeOK, LockInv, Room, EpochOrder, ConnectedIsOpen, Attended, RecoveryPending,
          Epochs, Retries, RxStates, RtStates, CallStates, Resting, OpenStates, CloseStates,
          isOpen, device, port, threads, RxGoes, RxAlive
  <1>1. ASSUME RxStart(e) PROVE Attended'
    BY <1>1 DEF RxStart
  <1>5. ASSUME RxStale(e) PROVE Attended'
    BY <1>5 DEF RxStale
  <1>6. ASSUME RxGlitch(e) PROVE Attended'
    BY <1>6 DEF RxGlitch
  <1>7. ASSUME RxEnd(e) PROVE Attended'
    BY <1>7 DEF RxEnd
  <1>2. ASSUME RxCheckEpoch(e) PROVE Attended'
    BY <1>2 DEF RxCheckEpoch
  <1>3. ASSUME RxCheckFlag(e) PROVE Attended'
    BY <1>3 DEF RxCheckFlag
  <1>4. ASSUME RxClose(e) PROVE Attended'
    BY <1>4 DEF RxClose, CloseHandle, StartRetry
  <1> QED
    BY <1>1, <1>2, <1>3, <1>4, <1>5, <1>6, <1>7 DEF RxStep

\* A step of a reconnect thread, with a steady device.
LEMMA RetryAttended ==
    ASSUME NEW c, Callers = {c},
           IInv, Attended, UNCHANGED plugged, NEW r \in Retries, RtStep(r)
    PROVE  Attended'
  <1> USE SerialPortAssumption
      DEF IInv, TypeOK, LockInv, Room, EpochOrder, ConnectedIsOpen, Attended, RecoveryPending,
          Epochs, Retries, RxStates, RtStates, CallStates, Resting, OpenStates, CloseStates,
          isOpen, device, port, threads, RtGoes, Acquire, Release, RxAlive
  <1>1. ASSUME RtLoop(r) PROVE Attended'
    BY <1>1 DEF RtLoop
  <1>2. ASSUME RtList(r) PROVE Attended'
    BY <1>2 DEF RtList
  <1>3. ASSUME RtTry(r) PROVE Attended'
    BY <1>3 DEF RtTry, SerialOpen
  <1>4. ASSUME RtUp(r) PROVE Attended'
    BY <1>4 DEF RtUp, Opened
  <1>5. ~RtDown(r)
    BY DEF RtDown
  <1>6. ASSUME RtExit(r) PROVE Attended'
    BY <1>6 DEF RtExit
  <1> QED
    BY <1>1, <1>2, <1>3, <1>4, <1>5, <1>6 DEF RtStep

\* Any step, with a steady device.
LEMMA StepAttended ==
    ASSUME ~CloseCanFail, NEW c, Callers = {c},
           IInv, Attended, UNCHANGED plugged, Next
    PROVE  Attended'
  <1>1. ~Unplug /\ ~Plug
    BY SerialPortAssumption DEF IInv, TypeOK, Attended, Unplug, Plug
  <1> QED
    BY <1>1, CallerAttended, ReceiverAttended, RetryAttended DEF Next, Environment

\* Faults are counted and never forgotten.
LEMMA FaultsGrow == ASSUME TypeOK, Next, faults' = 0 PROVE faults = 0
  <1>1. ASSUME NEW c \in Callers, Call(c) \/ CallerStep(c) PROVE faults' = faults
    <2>1. CASE Call(c)
      BY <2>1 DEF Call, EnsureOpen, CloseFlag, SendBegin, device
    <2>2. CASE CallerStep(c)
      BY <2>2 DEF CallerStep, OpenReset, OpenTry, OpenUp, OpenDown, RetryTest, CloseBody,
                  RxCheck, RxJoin, RxWait, RtCheck, RtAliveTest, RtJoin, RtWait, SendEnd, device
    <2> QED
      BY <1>1, <2>1, <2>2
  <1>2. ASSUME NEW e \in Epochs, RxStep(e) \/ RxStale(e) PROVE faults' = faults
    BY <1>2 DEF RxStep, RxStart, RxEnd, RxCheckEpoch, RxCheckFlag, RxClose, RxStale, device
  <1>3. ASSUME NEW r \in Retries, RtStep(r) PROVE faults' = faults
    BY <1>3 DEF RtStep, RtLoop, RtList, RtTry, RtUp, RtDown, RtExit, device
  <1>4. ASSUME Unplug \/ \E e \in Epochs : RxGlitch(e) PROVE faults' # 0
    BY <1>4, SerialPortAssumption DEF TypeOK, Unplug, RxGlitch
  <1> QED
    BY <1>1, <1>2, <1>3, <1>4 DEF Next, Environment, Plug

-----------------------------------------------------------------------------
(***************************************************************************)
(* A caller that keeps the port                                            *)
(***************************************************************************)

\* A step of a caller that keeps the port.
LEMMA CallerKept ==
    ASSUME NEW c, Callers = {c},
           IInv, KeptInv, OnceInv, Kept, Call(c) \/ CallerStep(c)
    PROVE  (KeptInv /\ OnceInv)'
  <1> USE SerialPortAssumption
      DEF IInv, TypeOK, LockInv, Room, EpochOrder, KeptInv, OnceInv, Kept,
          RecoveryPending, Epochs, Retries, RxStates, RtStates, CallStates, Resting,
          OpenStates, CloseStates, isOpen, device, port, threads, Goes, Acquire, Release,
          RxAlive, RtAlive
  <1>1. ASSUME EnsureOpen(c) PROVE (KeptInv /\ OnceInv)'
    BY <1>1 DEF EnsureOpen
  <1>2. ~CloseFlag(c)
    BY DEF CloseFlag
  <1>3. ASSUME SendBegin(c) PROVE (KeptInv /\ OnceInv)'
    BY <1>3 DEF SendBegin
  <1>4. ASSUME OpenReset(c) PROVE (KeptInv /\ OnceInv)'
    BY <1>4 DEF OpenReset
  <1>5. ASSUME OpenTry(c) PROVE (KeptInv /\ OnceInv)'
    BY <1>5 DEF OpenTry, SerialOpen
  <1>6. ASSUME OpenUp(c) PROVE (KeptInv /\ OnceInv)'
    BY <1>6 DEF OpenUp, Opened
  <1>7. ASSUME OpenDown(c) PROVE (KeptInv /\ OnceInv)'
    BY <1>7 DEF OpenDown, StartRetry
  <1>11. ~RetryTest(c)
    BY DEF RetryTest
  <1>8. ~CloseBody(c) /\ ~RxCheck(c) /\ ~RxJoin(c) /\ ~RxWait(c)
    BY DEF CloseBody, RxCheck, RxJoin, RxWait
  <1>9. ~RtCheck(c) /\ ~RtAliveTest(c) /\ ~RtJoin(c) /\ ~RtWait(c)
    BY DEF RtCheck, RtAliveTest, RtJoin, RtWait
  <1>10. ASSUME SendEnd(c) PROVE (KeptInv /\ OnceInv)'
    BY <1>10 DEF SendEnd
  <1> QED
    BY <1>1, <1>2, <1>3, <1>4, <1>5, <1>6, <1>7, <1>8, <1>9, <1>10, <1>11
    DEF Call, CallerStep

\* A step of a receiver while the caller keeps the port.
LEMMA ReceiverKept ==
    ASSUME ~CloseCanFail, NEW c, Callers = {c},
           IInv, KeptInv, OnceInv, Kept,
           NEW e \in Epochs, RxStep(e) \/ RxStale(e) \/ RxGlitch(e)
    PROVE  (KeptInv /\ OnceInv)'
  <1> USE SerialPortAssumption
      DEF IInv, TypeOK, LockInv, Room, EpochOrder, ConnectedIsOpen, KeptInv, OnceInv,
          Kept,
          RecoveryPending, Epochs, Retries, RxStates, RtStates, CallStates, Resting,
          OpenStates, CloseStates, isOpen, device, port, threads, RxGoes, RxAlive, RtAlive
  <1>1. ASSUME RxStart(e) PROVE (KeptInv /\ OnceInv)'
    BY <1>1 DEF RxStart
  <1>2. ASSUME RxEnd(e) PROVE (KeptInv /\ OnceInv)'
    BY <1>2 DEF RxEnd
  <1>3. ASSUME RxStale(e) PROVE (KeptInv /\ OnceInv)'
    BY <1>3 DEF RxStale
  <1>4. ASSUME RxGlitch(e) PROVE (KeptInv /\ OnceInv)'
    BY <1>4 DEF RxGlitch
  <1>5. ASSUME RxCheckEpoch(e) PROVE (KeptInv /\ OnceInv)'
    BY <1>5 DEF RxCheckEpoch
  <1>6. ASSUME RxCheckFlag(e) PROVE (KeptInv /\ OnceInv)'
    BY <1>6 DEF RxCheckFlag
  <1>7. ASSUME RxClose(e) PROVE (KeptInv /\ OnceInv)'
    BY <1>7 DEF RxClose, CloseHandle, StartRetry
  <1> QED
    BY <1>1, <1>2, <1>3, <1>4, <1>5, <1>6, <1>7 DEF RxStep

\* A step of a reconnect thread while the caller keeps the port.
LEMMA RetryKept ==
    ASSUME NEW c, Callers = {c},
           IInv, KeptInv, OnceInv, Kept, NEW r \in Retries, RtStep(r)
    PROVE  (KeptInv /\ OnceInv)'
  <1> USE SerialPortAssumption
      DEF IInv, TypeOK, LockInv, Room, EpochOrder, KeptInv, OnceInv, Kept,
          RecoveryPending, Epochs, Retries, RxStates, RtStates, CallStates, Resting,
          OpenStates, CloseStates, isOpen, device, port, threads, RtGoes, Acquire, Release,
          RxAlive, RtAlive
  <1>1. ASSUME RtLoop(r) PROVE (KeptInv /\ OnceInv)'
    BY <1>1 DEF RtLoop
  <1>2. ASSUME RtList(r) PROVE (KeptInv /\ OnceInv)'
    BY <1>2 DEF RtList
  <1>3. ASSUME RtTry(r) PROVE (KeptInv /\ OnceInv)'
    BY <1>3 DEF RtTry, SerialOpen
  <1>4. ASSUME RtUp(r) PROVE (KeptInv /\ OnceInv)'
    BY <1>4, SMTT(20) DEF RtUp, Opened
  <1>5. ASSUME RtDown(r) PROVE (KeptInv /\ OnceInv)'
    BY <1>5 DEF RtDown
  <1>6. ASSUME RtExit(r) PROVE (KeptInv /\ OnceInv)'
    BY <1>6 DEF RtExit
  <1> QED
    BY <1>1, <1>2, <1>3, <1>4, <1>5, <1>6 DEF RtStep

\* Any step while the caller keeps the port.
LEMMA StepKept ==
    ASSUME ~CloseCanFail, NEW c, Callers = {c},
           IInv, KeptInv, OnceInv, Kept, Next
    PROVE  (KeptInv /\ OnceInv)'
  <1>1. ASSUME Unplug PROVE (KeptInv /\ OnceInv)'
    BY <1>1, SerialPortAssumption
    DEF Unplug, IInv, TypeOK, KeptInv, OnceInv, RecoveryPending, isOpen, threads,
        RxAlive, Retries
  <1>2. ASSUME Plug PROVE (KeptInv /\ OnceInv)'
    BY <1>2 DEF Plug, KeptInv, OnceInv, RecoveryPending, isOpen, threads, port, RxAlive
  <1> QED
    BY <1>1, <1>2, CallerKept, ReceiverKept, RetryKept DEF Next, Environment

-----------------------------------------------------------------------------
(***************************************************************************)
(* The theorems                                                            *)
(***************************************************************************)

LEMMA StepSingle ==
    ASSUME ~SlowThreads, ~CloseCanFail, NEW c, Callers = {c}, SingleInv,
           [Next /\ (IF kept THEN Kept ELSE Steady) /\ UNCHANGED kept]_<<vars, kept>>
    PROVE  SingleInv'
  <1>1. IInv'
    BY StepIInv DEF SingleInv
  <1>2. CASE UNCHANGED <<vars, kept>>
    <2>1. (KeptInv /\ OnceInv) => (KeptInv /\ OnceInv)'
      BY <1>2 DEF KeptInv, OnceInv, RecoveryPending, vars, device, port, threads,
                  isOpen, RxAlive
    <2>2. Attended => Attended'
      BY <1>2 DEF Attended, RecoveryPending, vars, device, port, threads, isOpen, RxAlive
    <2>3. ReliableInv => ReliableInv'
      BY <1>2 DEF ReliableInv, vars, device, port, threads, isOpen, RxAlive
    <2> QED
      BY <1>1, <1>2, <2>1, <2>2, <2>3 DEF SingleInv, vars, device
  <1>3. CASE Next /\ kept /\ Kept /\ UNCHANGED kept
    BY <1>1, <1>3, StepKept DEF SingleInv
  <1>4. CASE Next /\ ~kept /\ Steady /\ UNCHANGED kept
    <2>1. Attended'
      BY <1>4, StepAttended DEF SingleInv, Steady
    <2>2. ASSUME faults' = 0 PROVE ReliableInv'
      BY <1>4, <2>2, FaultsGrow, StepReliable DEF SingleInv, Steady, IInv
    <2> QED
      BY <1>1, <1>4, <2>1, <2>2 DEF SingleInv
  <1> QED
    BY <1>2, <1>3, <1>4 DEF SingleInv

\* SingleInv is an invariant of the serial port with a single caller.
LEMMA SingleInvariance ==
    ASSUME ~SlowThreads, ~CloseCanFail, NEW c, Callers = {c}
    PROVE  SingleSpec => []SingleInv
  BY InitSingle, StepSingle, PTL DEF SingleSpec

\* Until the first fault a single caller's port has one receiver at most, however the
\* caller's opens and closes, the receivers and the reconnect threads interleave:
\* ensure_open's docstring holds there.
THEOREM OneReceiver ==
    ASSUME ~SlowThreads, ~CloseCanFail, NEW c, Callers = {c}
    PROVE  SingleSpec => []OneReaderFaultless
  <1>1. SingleInv => OneReaderFaultless
    BY SerialPortAssumption
    DEF SingleInv, ReliableInv, KeptInv, OnceInv, OneReaderFaultless, OneReader, Reading,
        IInv, TypeOK, EpochOrder, RxAlive, Epochs
  <1> QED
    BY <1>1, SingleInvariance, PTL

\* When close() has returned to the only caller, the port is closed until the first fault:
\* the receiver it has made to leave does not start the thread that opens it again.
THEOREM CloseCloses ==
    ASSUME ~SlowThreads, ~CloseCanFail, NEW c, Callers = {c}
    PROVE  SingleSpec => []ClosedAfterClose
  <1>1. SingleInv => ClosedAfterClose
    BY DEF SingleInv, ReliableInv, KeptInv, ClosedAfterClose, isOpen, OpenStates
  <1> QED
    BY <1>1, SingleInvariance, PTL

\* A connection that is lost without a close() is never forgotten: a reconnect thread, the
\* receiver that will start one, or the caller is on the way to open the port again.
THEOREM LossIsPending ==
    ASSUME ~SlowThreads, ~CloseCanFail, NEW c, Callers = {c}
    PROVE  SingleSpec => []RecoveryPending
  <1>1. SingleInv => RecoveryPending
    BY DEF SingleInv, Attended, KeptInv
  <1> QED
    BY <1>1, SingleInvariance, PTL

\* A receiver that waits for the lock in order to close does nothing else.
LEMMA OnlyCloses ==
    ASSUME TypeOK, Next, NEW e \in Epochs, rx[e] = "closeWait", rx'[e] = "dead"
    PROVE  RxClose(e)
  <1>1. ASSUME NEW c \in Callers, Call(c) \/ CallerStep(c) PROVE FALSE
    <2>1. CASE Call(c)
      BY <2>1 DEF Call, EnsureOpen, CloseFlag, SendBegin, threads
    <2>2. CASE OpenUp(c)
      BY <2>2 DEF OpenUp, Opened, TypeOK
    <2>3. CASE CallerStep(c) /\ ~OpenUp(c)
      BY <2>3 DEF CallerStep, OpenReset, OpenTry, OpenDown, RetryTest, CloseBody, RxCheck,
                  RxJoin, RxWait, RtCheck, RtAliveTest, RtJoin, RtWait, SendEnd, threads
    <2> QED
      BY <1>1, <2>1, <2>2, <2>3
  <1>2. ASSUME NEW d \in Epochs, RxStep(d) \/ RxStale(d) \/ RxGlitch(d) PROVE RxClose(e)
    BY <1>2 DEF TypeOK, RxStep, RxStart, RxEnd, RxCheckEpoch, RxCheckFlag, RxClose, RxStale,
                RxGlitch, RxGoes
  <1>3. ASSUME NEW r \in Retries, RtStep(r) PROVE FALSE
    <2>1. CASE RtUp(r)
      BY <2>1 DEF RtUp, Opened, TypeOK
    <2>2. CASE RtStep(r) /\ ~RtUp(r)
      BY <2>2 DEF RtStep, RtLoop, RtList, RtTry, RtDown, RtExit
    <2> QED
      BY <1>3, <2>1, <2>2
  <1>4. ~Unplug /\ ~Plug
    BY DEF Unplug, Plug, threads
  <1> QED
    BY <1>1, <1>2, <1>3, <1>4 DEF Next, Environment

\* Of a port that is kept: up to one loss of the device or one failed read, a receiver that
\* a later open has superseded does not close the port of its successor, although two
\* reconnect threads may both have opened it; the test of the epoch is what stops it.
THEOREM HandsOff ==
    ASSUME ~SlowThreads, ~CloseCanFail, NEW c, Callers = {c}
    PROVE  SingleSpec => HandsOffOnce
  <1>1. ASSUME SingleInv, kept, faults' <= 1, NEW e \in Epochs, RxClose(e)
        PROVE  e = epoch
    <2>1. faults' = faults /\ rx[e] = "closeWait"
      BY <1>1 DEF RxClose, RxGoes, device
    <2>2. OnceInv /\ KeptInv /\ TypeOK /\ EpochOrder
      BY <1>1 DEF SingleInv, IInv
    <2> QED
      BY <1>1, <2>1, <2>2, SerialPortAssumption DEF OnceInv, TypeOK, EpochOrder, Epochs
  <1>2. ASSUME SingleInv,
               [Next /\ (IF kept THEN Kept ELSE Steady) /\ UNCHANGED kept]_<<vars, kept>>
        PROVE  [kept /\ faults' <= 1 => SupersededLeaves]_<<vars, kept>>
    BY <1>1, <1>2, OnlyCloses DEF SupersededLeaves, SingleInv, IInv
  <1> QED
    BY <1>2, SingleInvariance, PTL DEF SingleSpec, HandsOffOnce

-----------------------------------------------------------------------------
(***************************************************************************)
(* Writing with wait_echo, for any bytes and any number of them.           *)
(***************************************************************************)

AllNul(seq) == \A i \in DOMAIN seq : seq[i] = Nul

Due == /\ onWay # << >>
       /\ onWay[Len(onWay)] = char
       /\ \A i \in DOMAIN onWay : i < Len(onWay) => onWay[i] = Nul

\* Between two bytes lastbyte is 0.  Without this a byte equal to the one before would be
\* taken for echoed.
Faithful ==
    /\ onWay \in Seq(Sent)
    /\ \/ at = "idle" /\ lastbyte = Nul /\ AllNul(onWay)
       \/ at = "wait" /\ char # Nul /\ lastbyte = Nul /\ Due
       \/ at \in {"wait", "seen"} /\ char # Nul /\ lastbyte = char /\ onWay = << >>

EchoInv == ~late /\ ~strange => Faithful

\* The receive thread takes up the oldest bytes.
LEMMA ReceivedKeeps ==
    ASSUME Faithful, NEW n \in 1 .. Len(onWay), OnReceived(n)
    PROVE  Faithful'
<1> DEFINE rest == SubSeq(onWay, n + 1, Len(onWay))
<1>1. /\ lastbyte' = onWay[n] /\ onWay' = rest
      /\ at' = at /\ char' = char
  BY DEF OnReceived
<1>2. /\ onWay \in Seq(Sent) /\ Len(onWay) \in Nat
      /\ n \in Nat /\ n >= 1 /\ n <= Len(onWay)
      /\ DOMAIN onWay = 1 .. Len(onWay)
  BY DEF Faithful
<1>3. /\ rest \in Seq(Sent)
      /\ Len(rest) = Len(onWay) - n
      /\ \A i \in 1 .. Len(onWay) - n : rest[i] = onWay[i + n]
  BY <1>2
<1>4. DOMAIN rest = 1 .. Len(onWay) - n
  BY <1>3
<1> HIDE DEF rest
<1>5. /\ onWay # << >>
      /\ n < Len(onWay) \/ n = Len(onWay)
      /\ \A i \in 1 .. Len(onWay) - n : i + n \in DOMAIN onWay
  <2>1. n < Len(onWay) \/ n = Len(onWay)
    <3>1. \A k, m \in Nat : m <= k => m < k \/ m = k
      OBVIOUS
    <3> QED
      BY ONLY <1>2, <3>1, Zenon
  <2>2. ASSUME NEW i \in 1 .. Len(onWay) - n PROVE i + n \in 1 .. Len(onWay)
    BY <1>2
  <2>3. onWay # << >>
    BY <1>2
  <2> QED
    BY <1>2, <2>1, <2>2, <2>3
<1>6. CASE at = "idle" /\ lastbyte = Nul /\ AllNul(onWay)
  <2>1. lastbyte' = Nul
    BY <1>1, <1>2, <1>6 DEF AllNul
  <2>2. AllNul(rest)
    BY <1>3, <1>4, <1>5, <1>6 DEF AllNul
  <2> QED
    BY <1>1, <1>3, <1>6, <2>1, <2>2 DEF Faithful, AllNul
<1>7. CASE at = "wait" /\ char # Nul /\ lastbyte = Nul /\ Due
  <2>1. CASE n = Len(onWay)
    <3>1. lastbyte' = char
      BY <1>1, <1>7, <2>1 DEF Due
    <3>2. rest = << >>
      BY <1>2, <1>3, <2>1
    <3> QED
      BY <1>1, <1>3, <1>7, <3>1, <3>2 DEF Faithful
  <2>2. CASE n < Len(onWay)
    <3>1. lastbyte' = Nul
      BY <1>1, <1>2, <1>7, <2>2 DEF Due
    <3>2. /\ rest # << >>
          /\ rest[Len(rest)] = char
          /\ \A i \in DOMAIN rest : i < Len(rest) => rest[i] = Nul
      <4>1. Len(rest) \in DOMAIN rest /\ rest[Len(rest)] = onWay[Len(onWay)]
        BY <1>2, <1>3, <1>4, <2>2
      <4>2. ASSUME NEW i \in DOMAIN rest, i < Len(rest) PROVE rest[i] = Nul
        <5>1. i + n \in DOMAIN onWay /\ i + n < Len(onWay) /\ rest[i] = onWay[i + n]
          <6>1. i \in 1 .. Len(onWay) - n /\ i < Len(onWay) - n
            BY <1>3, <1>4, <4>2
          <6>2. i \in Nat /\ i + n < Len(onWay)
            BY <1>2, <6>1
          <6> QED
            BY <1>3, <1>5, <6>1, <6>2
        <5> QED
          BY <1>7, <5>1 DEF Due
      <4>3. rest # << >>
        BY <4>1
      <4> QED
        BY <1>7, <4>1, <4>2, <4>3 DEF Due
    <3>3. Due'
      BY <1>1, <3>2 DEF Due
    <3> QED
      BY <1>1, <1>3, <1>7, <3>1, <3>3 DEF Faithful
  <2> QED
    BY <1>5, <2>1, <2>2
<1> QED
  BY <1>5, <1>6, <1>7 DEF Faithful

\* A byte is written when all before it but zeros have come back.
LEMMA WriteKeeps ==
    ASSUME Faithful, NEW b \in Sent, Write(b)
    PROVE  Faithful'
<1> DEFINE more == Append(onWay, b)
<1>1. /\ at = "idle" /\ lastbyte = Nul /\ AllNul(onWay) /\ onWay \in Seq(Sent)
      /\ char' = b /\ onWay' = more /\ lastbyte' = Nul
      /\ at' = IF b = Nul THEN "idle" ELSE "wait"
  BY DEF Faithful, Write
<1>2. /\ more \in Seq(Sent)
      /\ Len(more) = Len(onWay) + 1 /\ Len(onWay) \in Nat
      /\ DOMAIN more = 1 .. Len(onWay) + 1
      /\ more[Len(onWay) + 1] = b
      /\ \A i \in 1 .. Len(onWay) : more[i] = onWay[i]
  BY <1>1
<1>3. \A i \in 1 .. Len(onWay) : more[i] = Nul
  BY <1>1, <1>2 DEF AllNul
<1>4. CASE b = Nul
  <2>1. AllNul(more)
    BY <1>2, <1>3, <1>4 DEF AllNul
  <2> QED
    BY <1>1, <1>2, <1>4, <2>1 DEF Faithful, AllNul
<1>5. CASE b # Nul
  <2>1. /\ more # << >>
        /\ more[Len(more)] = b
        /\ \A i \in DOMAIN more : i < Len(more) => more[i] = Nul
    BY <1>2, <1>3
  <2>2. Due'
    BY <1>1, <2>1 DEF Due
  <2> QED
    BY <1>1, <1>2, <1>5, <2>2 DEF Faithful
<1> QED
  BY <1>4, <1>5

\* As long as the device echoes in time and does nothing else, a byte is written, and send()
\* returns, only when all before it but zeros have come back.
THEOREM Paced == EchoSpec => []EchoPaced
<1>1. EchoInit => EchoInv
  BY DEF EchoInit, EchoInv, Faithful, AllNul
<1>2. EchoInv /\ [EchoNext]_echoVars => EchoInv'
  <2> SUFFICES ASSUME EchoInv, [EchoNext]_echoVars, ~late', ~strange'
               PROVE  Faithful'
    BY DEF EchoInv
  <2>1. ASSUME NEW b \in Sent, Write(b) PROVE Faithful'
    BY <2>1, WriteKeeps DEF EchoInv, Write
  <2>2. ASSUME NEW n \in 1 .. Len(onWay), OnReceived(n) PROVE Faithful'
    BY <2>2, ReceivedKeeps DEF EchoInv, OnReceived
  <2>3. CASE See
    BY <2>3 DEF EchoInv, See, Faithful, Due
  <2>4. CASE GoOn
    BY <2>4 DEF EchoInv, GoOn, Faithful, Due, AllNul
  <2>5. CASE TimeUp
    BY <2>5 DEF TimeUp
  <2>6. ASSUME NEW i, NEW b, Speak(i, b) PROVE FALSE
    BY <2>6 DEF Speak
  <2>7. ASSUME NEW i, Swallow(i) PROVE FALSE
    BY <2>7 DEF Swallow
  <2>8. CASE UNCHANGED echoVars
    BY <2>8 DEF EchoInv, echoVars, Faithful, Due, AllNul
  <2> QED
    BY <2>1, <2>2, <2>3, <2>4, <2>5, <2>6, <2>7, <2>8 DEF EchoNext
<1>3. EchoInv => EchoPaced
  BY DEF EchoInv, EchoPaced, Faithful, Due, AllNul
<1> QED
  BY <1>1, <1>2, <1>3, PTL DEF EchoSpec
=============================================================================
