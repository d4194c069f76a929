----------------------------- MODULE SerialPort -----------------------------
(***************************************************************************)
(* One serial device as serialtcp/serial_port.py drives it.  Three kinds   *)
(* of threads share one SerialPort object:                                 *)
(*   - the callers of ensure_open(), close() and send() (TCP client        *)
(*     threads, linger timers, the Tk thread),                             *)
(*   - the receive threads, one started by every successful open and named *)
(*     here by the epoch it was started for,                               *)
(*   - the reconnect threads, numbered in the order they are started.      *)
(* A step of the model ends where the code takes or releases the lock, or  *)
(* where it reads or writes an attribute another thread may change.        *)
(***************************************************************************)
EXTENDS Naturals

CONSTANTS
    Callers,        \* threads that call ensure_open, close and send
    NoOne,          \* holder of the free lock
    MaxEpoch,       \* bound on successful opens
    MaxRetry,       \* bound on reconnect threads ever started
    MaxFaults,      \* bound on unplugs and spurious read errors
    MaxCalls,       \* bound on the calls of one caller
    Listed,         \* does list_ports.comports() report the configured name?
    SlowThreads,    \* may join(timeout=3) give up on a thread that is leaving?
    CloseCanFail    \* may Serial.close() raise on a device that is gone?

Epochs  == 1 .. MaxEpoch
Retries == 1 .. MaxRetry

ASSUME SerialPortAssumption ==
    /\ MaxEpoch \in Nat /\ MaxRetry \in Nat
    /\ MaxFaults \in Nat /\ MaxCalls \in Nat
    /\ Listed \in BOOLEAN /\ SlowThreads \in BOOLEAN /\ CloseCanFail \in BOOLEAN
    /\ NoOne \notin Callers \cup Retries
    /\ Callers \cap Retries = {}

VARIABLES
    plugged,        \* the device is there and the OS would open it
    faults,         \* how many faults the environment has spent
    handle,         \* pyserial's object: "closed", or open on a "live" or "dead" device
    isConnected,    \* is_connected
    closeSet,       \* _close_set
    epoch,          \* _open_epoch; also names receive_thread
    lock,           \* who holds self.lock
    told,           \* the last callback: on_connect ("up") or on_disconnect ("down")
    rx,             \* control point of each receive thread
    rt,             \* control point of each reconnect thread
    retries,        \* reconnect threads started so far
    retryThread,    \* reconnect_thread; 0 is None
    pc,             \* control point of each caller
    target,         \* the thread a caller is joining
    calls           \* calls each caller has made

device  == <<plugged, faults>>
port    == <<handle, isConnected, told>>
threads == <<rx, rt, retries, retryThread, epoch>>
vars    == <<device, port, threads, closeSet, lock, pc, target, calls>>

RxStates   == {"none", "start", "loop", "checkEpoch", "checkFlag", "closeWait", "dead"}
RtStates   == {"none", "check", "list", "openWait", "opening", "exit", "dead"}
Resting     == {"idle", "opened", "closed", "failed"}
OpenStates  == {"reset", "openWait", "opening", "retryTest"}
CloseStates == {"closeWait", "rxCheck", "rxJoin", "rxWait",
                "rtCheck", "rtAlive", "rtJoin", "rtWait"}
CallStates  == Resting \cup OpenStates \cup CloseStates \cup {"writing"}

isOpen == handle # "closed"

RxAlive(e) == rx[e] \notin {"none", "dead"}
RtAlive(r) == rt[r] \notin {"none", "dead"}

TypeOK ==
    /\ plugged \in BOOLEAN
    /\ faults \in 0 .. MaxFaults
    /\ handle \in {"closed", "live", "dead"}
    /\ isConnected \in BOOLEAN
    /\ closeSet \in BOOLEAN
    /\ epoch \in 0 .. MaxEpoch
    /\ lock \in Callers \cup Retries \cup {NoOne}
    /\ told \in {"nothing", "up", "down"}
    /\ rx \in [Epochs -> RxStates]
    /\ rt \in [Retries -> RtStates]
    /\ retries \in 0 .. MaxRetry
    /\ retryThread \in 0 .. MaxRetry
    /\ pc \in [Callers -> CallStates]
    /\ target \in [Callers -> 0 .. MaxEpoch + MaxRetry]
    /\ calls \in [Callers -> 0 .. MaxCalls]

\* SerialPort.__init__.  The device may or may not be there at first.
Init ==
    /\ plugged \in BOOLEAN
    /\ faults = 0
    /\ handle = "closed"
    /\ isConnected = FALSE
    /\ closeSet = FALSE
    /\ epoch = 0
    /\ lock = NoOne
    /\ told = "nothing"
    /\ rx = [e \in Epochs |-> "none"]
    /\ rt = [r \in Retries |-> "none"]
    /\ retries = 0
    /\ retryThread = 0
    /\ pc = [c \in Callers |-> "idle"]
    /\ target = [c \in Callers |-> 0]
    /\ calls = [c \in Callers |-> 0]

Goes(c, from, to) == pc[c] = from /\ pc' = [pc EXCEPT ![c] = to]
RxGoes(e, from, to) == rx[e] = from /\ rx' = [rx EXCEPT ![e] = to]
RtGoes(r, from, to) == rt[r] = from /\ rt' = [rt EXCEPT ![r] = to]

Acquire(t) == lock = NoOne /\ lock' = t
Release(t) == lock = t /\ lock' = NoOne

-----------------------------------------------------------------------------
(***************************************************************************)
(* What happens under the lock.                                            *)
(***************************************************************************)

\* Serial.open(): raises on an open port (the handle stays as it is) and when
\* the device cannot be opened.  Bounds: there is room for what may follow.
SerialOpen ==
    /\ epoch < MaxEpoch /\ retries < MaxRetry
    /\ handle' = IF ~isOpen /\ plugged THEN "live" ELSE handle
    /\ UNCHANGED <<isConnected, told>>

\* __open once the port is open: a new epoch and the receive thread for it.
Opened ==
    /\ isOpen
    /\ isConnected' = TRUE
    /\ epoch' = epoch + 1
    /\ rx' = [rx EXCEPT ![epoch + 1] = "start"]
    /\ UNCHANGED <<handle, told>>

\* A reconnect thread is created, started and stored in reconnect_thread.
StartRetry ==
    /\ retries < MaxRetry
    /\ retries' = retries + 1
    /\ retryThread' = retries + 1
    /\ rt' = [rt EXCEPT ![retries + 1] = "check"]

\* Mutant: the port object is dropped instead of closed.
CloseHandleDrops ==
    /\ handle' = "none"
    /\ isConnected' = FALSE
    /\ told' = IF isConnected THEN "down" ELSE told

\* Mutant: is_connected is not reset.
CloseHandleNoReset ==
    /\ \/ handle' = "closed"
       \/ handle = "dead" /\ CloseCanFail /\ handle' = "dead"
    /\ told' = IF isConnected THEN "down" ELSE told
    /\ UNCHANGED isConnected

\* Mutant: is_connected is reset first and tested afterwards.
CloseHandleSilent ==
    /\ \/ handle' = "closed"
       \/ handle = "dead" /\ CloseCanFail /\ handle' = "dead"
    /\ isConnected' = FALSE
    /\ UNCHANGED told

\* __close(): an exception of Serial.close() is logged and leaves the port open.
CloseHandle ==
    /\ \/ handle' = "closed"
       \/ handle = "dead" /\ CloseCanFail /\ handle' = "dead"
    /\ isConnected' = FALSE
    /\ told' = IF isConnected THEN "down" ELSE told

-----------------------------------------------------------------------------
(***************************************************************************)
(* ensure_open() and open()                                                *)
(***************************************************************************)

\* ensure_open: the test of is_connected is not under the lock.
EnsureOpen(c) ==
    /\ pc[c] \in Resting
    /\ pc' = [pc EXCEPT ![c] = IF isConnected THEN "opened" ELSE "reset"]
    /\ UNCHANGED <<device, port, threads, closeSet, lock, target>>

\* open: forget an earlier close.
OpenReset(c) ==
    /\ Goes(c, "reset", "openWait")
    /\ closeSet' = FALSE
    /\ UNCHANGED <<device, port, threads, lock, target, calls>>

OpenTry(c) ==
    /\ Goes(c, "openWait", "opening")
    /\ Acquire(c)
    /\ SerialOpen
    /\ UNCHANGED <<device, threads, closeSet, target, calls>>

\* Mutant: the lock is not given back after a successful open.
OpenUpKeepsLock(c) ==
    /\ Goes(c, "opening", "opened")
    /\ Opened
    /\ UNCHANGED <<device, rt, retries, retryThread, closeSet, lock, target, calls>>

OpenUp(c) ==
    /\ Goes(c, "opening", "opened")
    /\ Opened
    /\ Release(c)
    /\ UNCHANGED <<device, rt, retries, retryThread, closeSet, target, calls>>

\* The open failed: leave a reconnect thread behind when there is none ...
OpenDown(c) ==
    /\ ~isOpen
    /\ isConnected' = FALSE
    /\ \/ /\ retryThread = 0
          /\ Goes(c, "opening", "opened")
          /\ StartRetry
          /\ Release(c)
       \/ /\ retryThread # 0
          /\ Goes(c, "opening", "retryTest")
          /\ UNCHANGED <<rt, retries, retryThread, lock>>
    /\ UNCHANGED <<device, handle, told, rx, epoch, closeSet, target, calls>>

\* ... or the one there is has ended.  reconnect_thread is read again for that: when a
\* close() has stored None since, the AttributeError leaves open().
RetryTest(c) ==
    /\ Goes(c, "retryTest", IF retryThread = 0 THEN "failed" ELSE "opened")
    /\ IF retryThread = 0 \/ RtAlive(retryThread)
       THEN UNCHANGED <<rt, retries, retryThread>>
       ELSE StartRetry
    /\ Release(c)
    /\ UNCHANGED <<device, port, rx, epoch, closeSet, target, calls>>

-----------------------------------------------------------------------------
(***************************************************************************)
(* close()                                                                 *)
(***************************************************************************)

\* Mutant: close() forgets to set _close_set.
CloseFlagForgotten(c) ==
    /\ pc[c] \in Resting
    /\ pc' = [pc EXCEPT ![c] = "closeWait"]
    /\ UNCHANGED <<device, port, threads, closeSet, lock, target>>

CloseFlag(c) ==
    /\ pc[c] \in Resting
    /\ pc' = [pc EXCEPT ![c] = "closeWait"]
    /\ closeSet' = TRUE
    /\ UNCHANGED <<device, port, threads, lock, target>>

\* Mutant: close() does not take the lock.
CloseBodyNoLock(c) ==
    /\ Goes(c, "closeWait", "rxCheck")
    /\ CloseHandle
    /\ UNCHANGED <<device, threads, closeSet, lock, target, calls>>

\* The lock is taken and given back around __close, which blocks nowhere.
CloseBody(c) ==
    /\ Goes(c, "closeWait", "rxCheck")
    /\ lock = NoOne
    /\ CloseHandle
    /\ UNCHANGED <<device, threads, closeSet, lock, target, calls>>

\* Mutant: close() does not wait for the receive thread.
RxCheckNoJoin(c) ==
    /\ Goes(c, "rxCheck", "rtCheck")
    /\ UNCHANGED <<device, port, threads, closeSet, lock, target, calls>>

RxCheck(c) ==
    /\ pc[c] = "rxCheck"
    /\ pc' = [pc EXCEPT ![c] =
                IF epoch # 0 /\ RxAlive(epoch) THEN "rxJoin" ELSE "rtCheck"]
    /\ UNCHANGED <<device, port, threads, closeSet, lock, target, calls>>

\* receive_thread is read again for the join: it may be a newer thread.
RxJoin(c) ==
    /\ Goes(c, "rxJoin", "rxWait")
    /\ target' = [target EXCEPT ![c] = epoch]
    /\ UNCHANGED <<device, port, threads, closeSet, lock, calls>>

\* A receive thread that will end by itself within the read timeout of two seconds.
RxLeaving(e) == rx[e] \notin {"start", "loop"} \/ handle # "live" \/ ~isConnected

\* join(timeout=3) returns when the thread is dead or after three seconds.
RxWait(c) ==
    /\ Goes(c, "rxWait", "rtCheck")
    /\ \/ ~RxAlive(target[c])
       \/ ~RxLeaving(target[c]) \/ SlowThreads
    /\ target' = [target EXCEPT ![c] = 0]
    /\ UNCHANGED <<device, port, threads, closeSet, lock, calls>>

\* reconnect_thread is read three times: is there one, ...
RtCheck(c) ==
    /\ Goes(c, "rtCheck", IF retryThread # 0 THEN "rtAlive" ELSE "closed")
    /\ UNCHANGED <<device, port, threads, closeSet, lock, target, calls>>

\* ... is it alive, ...  Another close() may store None at any time: then and in the next
\* step an AttributeError leaves close().
RtAliveTest(c) ==
    /\ Goes(c, "rtAlive", IF retryThread = 0 THEN "failed"
                          ELSE IF RtAlive(retryThread) THEN "rtJoin" ELSE "closed")
    /\ UNCHANGED <<device, port, threads, closeSet, lock, target, calls>>

\* ... and for the join.
RtJoin(c) ==
    /\ pc[c] = "rtJoin"
    /\ pc' = [pc EXCEPT ![c] = IF retryThread = 0 THEN "failed" ELSE "rtWait"]
    /\ target' = [target EXCEPT ![c] = retryThread]
    /\ UNCHANGED <<device, port, threads, closeSet, lock, calls>>

\* A reconnect thread whose loop condition is false, or will be when it looks.
RtLeaving(r) == rt[r] = "exit" \/ closeSet \/ isOpen

RtWait(c) ==
    /\ Goes(c, "rtWait", "closed")
    /\ \/ ~RtAlive(target[c])
       \/ ~RtLeaving(target[c]) \/ SlowThreads
    /\ retryThread' = 0
    /\ target' = [target EXCEPT ![c] = 0]
    /\ UNCHANGED <<device, port, rx, rt, retries, epoch, closeSet, lock, calls>>

-----------------------------------------------------------------------------
(***************************************************************************)
(* send(): the whole write is done under the lock, errors are logged       *)
(***************************************************************************)

SendBegin(c) ==
    /\ Goes(c, "opened", "writing")
    /\ Acquire(c)
    /\ UNCHANGED <<device, port, threads, closeSet, target>>

SendEnd(c) ==
    /\ Goes(c, "writing", "opened")
    /\ Release(c)
    /\ UNCHANGED <<device, port, threads, closeSet, target, calls>>

-----------------------------------------------------------------------------
(***************************************************************************)
(* The receive thread of epoch e                                           *)
(***************************************************************************)

\* on_connect is called by the new thread, not by open().
RxStart(e) ==
    /\ RxGoes(e, "start", "loop")
    /\ told' = "up"
    /\ UNCHANGED <<device, handle, isConnected, rt, retries, retryThread, epoch,
                   closeSet, lock, pc, target, calls>>

\* The loop condition is false, or the read raises on a port that is gone.
RxEnd(e) ==
    /\ handle # "live" \/ ~isConnected
    /\ RxGoes(e, "loop", "checkEpoch")
    /\ UNCHANGED <<device, port, rt, retries, retryThread, epoch,
                   closeSet, lock, pc, target, calls>>

\* A read begun before the port was closed and opened again may fail as well.
RxStale(e) ==
    /\ e # epoch
    /\ RxGoes(e, "loop", "checkEpoch")
    /\ UNCHANGED <<device, port, rt, retries, retryThread, epoch,
                   closeSet, lock, pc, target, calls>>

\* Mutant: the receiver does not ask whether it has been superseded.
RxCheckEpochSkipped(e) ==
    /\ RxGoes(e, "checkEpoch", "checkFlag")
    /\ UNCHANGED <<device, port, rt, retries, retryThread, epoch,
                   closeSet, lock, pc, target, calls>>

\* The test is not under the lock.
RxCheckEpoch(e) ==
    /\ RxGoes(e, "checkEpoch", IF e # epoch THEN "dead" ELSE "checkFlag")
    /\ UNCHANGED <<device, port, rt, retries, retryThread, epoch,
                   closeSet, lock, pc, target, calls>>

\* Mutant: the test of _close_set is inverted.
RxCheckFlagInverted(e) ==
    /\ RxGoes(e, "checkFlag", IF closeSet THEN "closeWait" ELSE "dead")
    /\ UNCHANGED <<device, port, rt, retries, retryThread, epoch,
                   closeSet, lock, pc, target, calls>>

RxCheckFlag(e) ==
    /\ RxGoes(e, "checkFlag", IF closeSet THEN "dead" ELSE "closeWait")
    /\ UNCHANGED <<device, port, rt, retries, retryThread, epoch,
                   closeSet, lock, pc, target, calls>>

\* Mutant: no reconnect thread is started.
RxCloseNoRetry(e) ==
    /\ RxGoes(e, "closeWait", "dead")
    /\ lock = NoOne
    /\ CloseHandle
    /\ UNCHANGED <<device, epoch, rt, retries, retryThread, closeSet, lock, pc, target, calls>>

\* keep_active, which both front ends set: close and start a reconnect thread,
\* whether or not an earlier one is alive.
RxClose(e) ==
    /\ RxGoes(e, "closeWait", "dead")
    /\ lock = NoOne
    /\ CloseHandle
    /\ StartRetry
    /\ UNCHANGED <<device, epoch, closeSet, lock, pc, target, calls>>

-----------------------------------------------------------------------------
(***************************************************************************)
(* The reconnect thread r: __try_to_connect                                *)
(***************************************************************************)

RtLoop(r) ==
    /\ RtGoes(r, "check", IF ~isOpen /\ ~closeSet THEN "list" ELSE "exit")
    /\ UNCHANGED <<device, port, rx, retries, retryThread, epoch,
                   closeSet, lock, pc, target, calls>>

\* Look for the device among those the OS lists; sleep when it is not there.
RtList(r) ==
    /\ RtGoes(r, "list", IF plugged /\ Listed /\ ~isOpen THEN "openWait" ELSE "check")
    /\ UNCHANGED <<device, port, rx, retries, retryThread, epoch,
                   closeSet, lock, pc, target, calls>>

\* __open(throw=True): neither _close_set nor is_open is looked at again.
RtTry(r) ==
    /\ RtGoes(r, "openWait", "opening")
    /\ Acquire(r)
    /\ SerialOpen
    /\ UNCHANGED <<device, rx, retries, retryThread, epoch, closeSet, pc, target, calls>>

RtUp(r) ==
    /\ RtGoes(r, "opening", "check")
    /\ Opened
    /\ Release(r)
    /\ UNCHANGED <<device, retries, retryThread, closeSet, pc, target, calls>>

\* Mutant: the exception leaves __open with the lock held.
RtDownKeepsLock(r) ==
    /\ ~isOpen
    /\ RtGoes(r, "opening", "check")
    /\ UNCHANGED <<device, port, rx, retries, retryThread, epoch,
                   closeSet, lock, pc, target, calls>>

\* Mutant: the exception is not caught and ends the thread.
RtDownUncaught(r) ==
    /\ ~isOpen
    /\ RtGoes(r, "opening", "exit")
    /\ Release(r)
    /\ UNCHANGED <<device, port, rx, retries, retryThread, epoch, closeSet, pc, target, calls>>

\* The open raised: the exception leaves __open, the thread sleeps and looks again.
RtDown(r) ==
    /\ ~isOpen
    /\ RtGoes(r, "opening", "check")
    /\ Release(r)
    /\ UNCHANGED <<device, port, rx, retries, retryThread, epoch, closeSet, pc, target, calls>>

RtExit(r) ==
    /\ RtGoes(r, "exit", "dead")
    /\ UNCHANGED <<device, port, rx, retries, retryThread, epoch,
                   closeSet, lock, pc, target, calls>>

-----------------------------------------------------------------------------
(***************************************************************************)
(* The device and the operating system                                     *)
(***************************************************************************)

Unplug ==
    /\ plugged
    /\ faults < MaxFaults
    /\ plugged' = FALSE
    /\ faults' = faults + 1
    /\ handle' = IF isOpen THEN "dead" ELSE handle
    /\ UNCHANGED <<isConnected, told, threads, closeSet, lock, pc, target, calls>>

Plug ==
    /\ ~plugged
    /\ plugged' = TRUE
    /\ UNCHANGED <<faults, port, threads, closeSet, lock, pc, target, calls>>

\* A read, or the callback it feeds, raises although the device is there.
RxGlitch(e) ==
    /\ faults < MaxFaults
    /\ faults' = faults + 1
    /\ RxGoes(e, "loop", "checkEpoch")
    /\ UNCHANGED <<plugged, port, rt, retries, retryThread, epoch,
                   closeSet, lock, pc, target, calls>>

-----------------------------------------------------------------------------
(***************************************************************************)
(* The specification                                                       *)
(***************************************************************************)

\* What a caller begins of its own accord, MaxCalls times.
Call(c) ==
    /\ calls[c] < MaxCalls
    /\ calls' = [calls EXCEPT ![c] = calls[c] + 1]
    /\ EnsureOpen(c) \/ CloseFlag(c) \/ SendBegin(c)

\* What follows by itself once a call has begun.
CallerStep(c) ==
    \/ OpenReset(c) \/ OpenTry(c) \/ OpenUp(c) \/ OpenDown(c) \/ RetryTest(c)
    \/ CloseBody(c) \/ RxCheck(c) \/ RxJoin(c) \/ RxWait(c)
    \/ RtCheck(c) \/ RtAliveTest(c) \/ RtJoin(c) \/ RtWait(c)
    \/ SendEnd(c)

RxStep(e) == RxStart(e) \/ RxEnd(e) \/ RxCheckEpoch(e) \/ RxCheckFlag(e) \/ RxClose(e)

RtStep(r) == RtLoop(r) \/ RtList(r) \/ RtTry(r) \/ RtUp(r) \/ RtDown(r) \/ RtExit(r)

Environment == Unplug \/ Plug \/ (\E e \in Epochs : RxStale(e) \/ RxGlitch(e))

Next ==
    \/ \E c \in Callers : Call(c) \/ CallerStep(c)
    \/ \E e \in Epochs : RxStep(e)
    \/ \E r \in Retries : RtStep(r)
    \/ Environment

Spec == Init /\ [][Next]_vars

\* Every started thread keeps running; nobody is obliged to call, to plug or to fail.
Fairness ==
    /\ \A c \in Callers : WF_vars(CallerStep(c))
    /\ \A e \in Epochs : WF_vars(RxStep(e))
    /\ \A r \in Retries : WF_vars(RtStep(r))

FairSpec == Spec /\ Fairness

-----------------------------------------------------------------------------
(***************************************************************************)
(* Properties for any number of callers                                    *)
(***************************************************************************)

\* self.lock is held exactly by a thread inside __open's or send's with block.
LockInv ==
    /\ \A c \in Callers : lock = c <=> pc[c] \in {"opening", "retryTest", "writing"}
    /\ \A r \in Retries : lock = r <=> rt[r] = "opening"

\* is_connected is never left TRUE on a port that has been closed, whichever
\* threads opened and closed it.
ConnectedIsOpen == isConnected => isOpen

\* A port that counts as connected has a receive thread of the current epoch that
\* still runs: it will notice the loss of the device.  The exceptions are a port
\* on which close() was called (the receiver may have left on _close_set) and one
\* that is just being opened again.
ConnectedIsRead ==
    isConnected =>
        \/ RxAlive(epoch)
        \/ closeSet
        \/ \E c \in Callers : pc[c] \in {"openWait", "opening"}

\* Whoever takes the connection down calls on_disconnect, and nobody calls it
\* for a connection that was not up.
DropsNotified ==
    [][/\ isConnected /\ ~isConnected' => told' = "down"
       /\ told # "down" /\ told' = "down" => isConnected]_vars

\* While a caller is inside send() the port is neither closed nor opened under it.
WriteSafe ==
    [][\A c \in Callers : pc[c] = "writing" /\ pc'[c] = "writing" => isOpen' = isOpen]_vars

-----------------------------------------------------------------------------
(***************************************************************************)
(* Properties under an assumption on the callers, the device or both       *)
(***************************************************************************)

Reading(e) == rx[e] \in {"start", "loop"} 

\* ensure_open's docstring: no duplicate receive thread.
OneReader == \A d, e \in Epochs : Reading(d) /\ Reading(e) => d = e

\* The comment on _open_epoch: a receiver that is superseded leaves the port alone.
SupersededLeaves == \A e \in Epochs : rx[e] = "closeWait" /\ rx'[e] = "dead" => e = epoch

\* Until the first fault, when close() has returned and nobody is opening, the port is
\* closed.  (After one, a reconnect thread may open it behind the back of close().)
ClosedAfterClose ==
    faults = 0 /\ (\A c \in Callers : pc[c] = "closed") => ~isOpen

\* After a loss that close() did not ask for, somebody is on the way to bring the
\* port back: a reconnect thread that will look again, the receiver that will start
\* one, or a caller that is opening.
RecoveryPending ==
    ~closeSet /\ ~isConnected /\ epoch + retries > 0 =>
        \/ \E r \in Retries : rt[r] \in {"check", "list", "openWait", "opening"}
        \/ epoch # 0 /\ RxAlive(epoch)
        \/ \E c \in Callers : pc[c] \in OpenStates

\* Every call returns (or raises).
CallsReturn == \A c \in Callers : []<>(pc[c] \in Resting)

\* The port carries data: open on the device, and its receiver is reading.
Served == isConnected /\ handle = "live" /\ epoch # 0 /\ rx[epoch] = "loop"

\* Callers that have opened the port and then leave it alone, with no close() as
\* the last word, get a port that is served once the device stays plugged.
Reconnects ==
    <>[](plugged /\ ~closeSet /\ \A c \in Callers : pc[c] = "opened") => <>[]Served
=============================================================================
