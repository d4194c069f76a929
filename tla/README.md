# Verification of serial_tcp_clients

TLA+ modules, model-checking runs and machine-checked proofs for the programs in
`serialtcp/` (a serial device shared by TCP clients) and `gui/serialtcp_gui/` (a port
manager with a desktop window and a control API). Paths below are relative to the
repository; modules and `.cfg` files are in this directory.

## 1. The system

```
TCP clients --- SerialServer/SerialClient --- PortService --- SerialPort --- device
                (accept thread, one thread     (linger timer,   (receive and reconnect
                 per client)                    terminal)        threads)
                                                   |
        user --- Tk thread: App, dialogs ----------+--- config file
        HTTP --- request threads: api.py --- queue of calls, run by App._tick
          |
        serial-tcp-ctl: cli.py, one command after the other from a script
```

| component | source | state | operations | talks to |
|---|---|---|---|---|
| serial port | `serialtcp/serial_port.py` | pyserial's object, `is_connected`, `_close_set`, `_open_epoch`, `receive_thread`, `reconnect_thread`, a lock | `ensure_open`, `open`, `close`, `send`; the loops of the receive and reconnect threads | callbacks `on_received`, `on_connect`, `on_disconnect` on its own threads |
| TCP server and clients | `serialtcp/server.py`, `serialtcp/client.py` | register of clients, `__stop`, listening socket; per client `_stop`, `err_cnt`, socket | `run`, `stop`, `send_to_all`; accept loop, client loop | callbacks on the client threads |
| port service | `serialtcp/service.py` | `_running`, `_local_client`, `_linger_timer`, counters, log, partial lines | `start`, `stop`, `connect_local`, `disconnect_local`, `send_to_serial`, `poll`, five callbacks | owns one serial port and one server; `on_event` to the GUI |
| port manager | `gui/serialtcp_gui/app.py`, `dialog.py`, `config.py` | list of services, selection, config file, queue of calls, queue of events | the user's handlers, the modal dialogs, `_tick`, `_on_close` | port services; API through `call_on_main` |
| control API | `gui/serialtcp_gui/api.py` | none of its own | create, update, delete, start, stop, start-all, stop-all; reads | hands each change to the Tk thread and waits five seconds |
| log and console | `serialtcp/service.py`, `gui/serialtcp_gui/detail.py` | `log_buffer`, partial lines, the log file, the queue of events, the console widget | the threads emit rows, the Tk thread shows them, rebuilds, clears, trims, opens and closes the file | the queue `App.events` |
| command line front end | `serialtcp/tcp_server.py` | a `stop` list, character maps | `start_service`: two callbacks, a wait for a signal, a shutdown | owns one serial port and one server, without a grace period |
| byte filters and console colours | `serialtcp/tcp_server.py`, `gui/serialtcp_gui/ansi.py` | - | Telnet filter, character maps, escape sequences | called per chunk, or per line |
| API client | `gui/serialtcp_gui/cli.py` | none between two commands | one command: one or two requests and an exit status | HTTP to the control API, ten seconds for an answer |
| views, packaging | `gui/serialtcp_gui/detail.py`, `port_card.py`, ..., `deploy/` | - | - | |

What makes each of them correct:

* **Serial port** - whoever holds `self.lock` is the only one inside it; `is_connected`
  never claims a closed port; a connected port is read by exactly one thread; a loss is
  told once; a port that is lost comes back without help; `close()` returns, and the port
  is closed then; no write is cut by an open or close; with `wait_echo` no byte goes out
  before the one before it has come back.
* **Server** - the register holds exactly the clients being served; every client that
  leaves is noticed and reported; `stop()` ends and leaves nobody it knew of.
* **Port service** - the device is open while there are consumers, is let go a grace
  period after the last one, and is closed when `stop()` has returned.
* **Log and console** - the rows are the lines of what came, however it was cut; the console
  shows what was logged, in order, whatever was built or cleared meanwhile; the log file that
  is open is the one the configuration names.
* **Command line program** - the device is let go of with the last client, and closed at the
  end.
* **Filters** - what a filter makes of a stream depends neither on its chunks nor on the
  other filters; the console keeps all text and gives it the colour that was asked for.
* **Port manager** - one mapping per TCP port; nothing runs that is not on the list; the
  file holds what the list shows; a change of a running mapping leaves it running.
* **Control API and its client** - a request is carried out whole, at most once and in its
  turn, whatever the client was told; a command that exits with 0 has done what it says.

Hard behaviours: attributes tested outside the lock (`ensure_open`, `_close_set`,
`_open_epoch`), a receiver superseded by a later open, joins with a timeout of three
seconds, timers that cannot be cancelled once they have fired, a client accepted while the
server stops, requests carried out while a modal dialog is open, requests given up while
their call is still queued, saves that fail. `PROJECT.json` lists these hazards with their
lines and the properties that speak about them.

## 2. The modules

Every step of a thread ends where the code takes or releases a lock, or where it reads or
writes an attribute another thread may change. Actions have the names of the methods they
are part of; control points (`pc`, `rx`, `rt`, `acc`, `conn`, `stopper`, `tk`, `cb`) say
where in the method a thread is.

### SerialPort (`serial_port.py`)

Callers are any threads (client threads, timers, the Tk thread). `rx[e]` is the receive
thread that the e-th successful open started, so `epoch` is both `_open_epoch` and the name
of `receive_thread`. `rt[r]` is the r-th reconnect thread; `retryThread` is
`reconnect_thread`. `handle` is pyserial's object: closed, open on a live device, or open on
one that has gone. `keep_active` is true, as in both front ends.

| code | actions |
|---|---|
| `ensure_open`, `open`, `__open` | `EnsureOpen`, `OpenReset`, `OpenTry`, `OpenUp`, `OpenDown`, `RetryTest` |
| `close` with its two joins | `CloseFlag`, `CloseBody`, `RxCheck`, `RxJoin`, `RxWait`, `RtCheck`, `RtAliveTest`, `RtJoin`, `RtWait` |
| `send` | `SendBegin`, `SendEnd` |
| `__receive_loop` | `RxStart`, `RxEnd`, `RxStale`, `RxGlitch`, `RxCheckEpoch`, `RxCheckFlag`, `RxClose` |
| `__try_to_connect` | `RtLoop`, `RtList`, `RtTry`, `RtUp`, `RtDown`, `RtExit` |
| the device | `Plug`, `Unplug` |

`reconnect_thread` is read anew for every test, and `close` stores None in it without the lock:
`RetryTest`, `RtAliveTest` and `RtJoin` may find None, and the AttributeError leaves `ensure_open` or
`close` (the caller's state "failed").

Parameters choose the environment: `Listed` (does the operating system list the device
under the configured name), `SlowThreads` (may a join give up on a thread that is leaving),
`CloseCanFail` (may `Serial.close()` raise on a dead device).

### SerialServer (`server.py`, `client.py`)

`conn[c]` follows a connection from the kernel's queue through the accept thread, the
register and its own thread to the end. Clients are equal when their peer addresses are
(`SerialClient.__eq__`), so `Equals` is what `set.add` and `set.remove` go by. `stop()` is a
thread with two snapshots of the register. An exception of `on_connect` ends a client's thread with
its socket open and its place on the register kept (`ConnectRaises`, "lost"). `peerGone` means
that the peer has left and that nothing it sent is still to be read. `Stuck` are the clients whose
callbacks may block for good: nothing obliges their threads to go on, and a join may give up on them.

### SharedPort

What both programs have in common: one serial port and one server, as instances of the two
modules above (`Port`, `Tcp`) with a state of their own, the clients' threads as callers of the
port, and the steps that a thread of either takes outside of a callback (`PortThreads`,
`TcpThreads`, `Peers`). `Own` are the callers that are no client.

### PortService (`service.py`)

Extends `SharedPort`; the timers and the Tk thread are the other callers. `on_client_connect` and
`on_client_disconnect` take the place of the single steps `ConnectDone` and
`DisconnectDone`: `ConnectCancel`, `ConnectOpen`, the port's own steps, `ConnectReturn`;
`DisconnectCount`, `DisconnectTestLocal`, `DisconnectSchedule`, `DisconnectReturn`. A linger
timer is armed, cancelled or fired, and then looks (`LingerCheck`) and closes
(`LingerClose`) in two steps, since the code releases `_linger_lock` in between. `start()` is
`StartServer`, `StartRunning`, because the server accepts before `_running` is set. One
`start()` to the end of one `stop()` is modelled.

### EchoWrite (`serial_port.py`, `__send_chars`)

The calls of `send` come one after the other under the port's lock, and are one sequence of
bytes. `Write`, then `See` and `GoOn` (the test of `lastbyte` and its reset are two steps, since
`OnReceived` of the receive thread stores between them if it likes), or `TimeUp`. `onWay` is what
the device has still to echo together with what has not been read yet, so that an echo may be
late; a read takes any part of it and keeps the last byte. `Speak` and `Swallow` are a device
that does not only echo. The port stays open meanwhile; a write that raises ends the call
between two bytes.

### MappingTable (what `api.py` promises)

The abstract specification of the control API: a set of TCP ports, those that run, those on
disk, and a queue of requests. A request is one atomic step (`Perform`, by `Do`), in its turn,
and its answer comes then or later, or not (`GiveUp`); a request that only looks is answered at
once (`Look`). The user does the same by hand (`User`). `Written` and `Raises` are the failures:
a file that is not written, or only in part, a `stop()` that raises after it has stopped.

### PortManager (`app.py`, `dialog.py`, `config.py`, `api.py`)

A mapping is a `PortService` reduced to its TCP port and to running or not. All changes
happen on the Tk thread. A handler that opens a dialog stops there (`modal`), and `_tick`
goes on running calls from the queue meanwhile; the dialog keeps the ports it was given
(`modal.taken`). A request is `Post`, `Tick`, one action for what it does, and an answer,
unless it gave up before (`GiveUp`). A failing save shows a message box, which inside a call
keeps the call from returning (`box`) and `_tick` from being scheduled again. A save that fails
after an edit has its box before the mapping is selected (`saveFailed`, `DismissSaveFailed`), and
requests are carried out in between. What a failed save leaves is the old file or any number of the
first mappings; a file that cannot be parsed loads like an empty one and counts as that. `stop()` may
raise after the service has stopped, as `SerialServer.stop` can (section 6). A TCP port in
`Foreign` is taken by another program, so that starting fails; `StartedAll` says at once what starting
one after the other leaves running. `Table` is `MappingTable` under
a refinement mapping: a mapping is its port, and a call that is queued or being run has not
happened yet. Whether there is an API at all is decided at the start (`StartApi`), and closing
the window ends it (`StopApi`). `Look` is any of the read-only requests, which run on the
request's thread; their answer is reduced to whether the mapping was there. The model assumes
that the window cannot be closed while a dialog has the grab, and that the config file names no
TCP port twice when the program starts.

### Ctl (`cli.py`, on top of `MappingTable`)

A script runs one command after the other: `Begin`, `Send`, `Hear` for each request, and `Exit`
with a status; `Fail` is any end without an answer. A request is on its way (`flight`) until the
server takes it up (`TakeUp`) or it gets lost (`Lose`), also when the client has stopped
waiting. `fate` is what came of it, whoever heard of it. `Others` are the user and the time
limits of `MappingTable`. `add --start` sends its second request for the port that the answer names
(`cli.py:284`), which is another one if the mapping was moved before the answer was built
(`api.py:246`): `Moved` follows an update between the two. One over-approximation: a mapping that
has taken over the port meanwhile is followed likewise.

### Console (`service.py`, `detail.py`, `app.py`)

What a thread passes on is cut into rows (`Feed`, which is `_buffer_lines`), each of which is
an event: into the log under its lock (`EmitLog`), then into the queue (`EmitPut`); the
partial line is stored after the last row (`EmitDone`), without a lock, as in the code.
The Tk thread takes events from the queue (`Tick`, `AppendLog`, `TickDone`), builds the panel
when its key has changed (`Refresh`, `Show`, `ShowOther`), renders the log (`CycleView`) and
clears it (`ClearConsole`). An event is the thread that made it and a number; a byte is
text, CR or LF. A console keeps `MaxShown` lines, of which `_MAX_CONSOLE_LINES` is the
code's value.

### LogFile (`service.py`, `detail.py`)

`logging_to_file` of one mapping: `handle` is `_log_fh`, reduced to the path it writes to. All
changes happen on the Tk thread; the state of interest is `asking`, the file dialog, during
which `StartService`, `StopService`, `UpdateRunning`, `RemoveMapping` go on as requests of the
API. `StopRaises` is a `stop()` that does not reach `_close_log`. A handle that is overwritten
counts as closed, as it is when its last reference goes.

### CliService (`tcp_server.py`, `start_service`)

Extends `SharedPort`; the main thread is the other caller. The callbacks take the place of
`ConnectDone` and `DisconnectDone` (`ConnectOpen`, the port's own steps, `ConnectReturn`;
`DisconnectCount`, `DisconnectClose`, `DisconnectReturn`): the count of the clients that are left and
the close that follows are two steps of one client thread.
The main thread is `StartServer`, `Leave`, `StopServer`, `ClosePort`, `End`; `RequestStop` is a
signal or a client's exit command.

### ByteFilters (`tcp_server.py`, `ansi.py`)

`OnTcpReceive` and `OnSerialReceive` send a chunk through the filters of its direction;
`stages` keeps the whole stream as it came and after each filter. `InsertEvent` shows one
line. The filters scan from left to right, as recursive functions; the properties refer to
definitions of their own that say what is found where (`Found`, `Rewritten`). Characters that
no filter tells apart are one name: "31" is a code that sets a colour, "exit" the exit
command. `EscapeAt` is the whole of `_ANSI_RE`, with the parameters ("?" included) and the
intermediate characters of a CSI sequence, of which " " and "!" stand for all. The names "31", "32"
and "39" are two characters each; an ESC just before one would take the first only, and such lines
are not shown (`Display`). `Relevant` keeps bytes that nothing in a behaviour looks for out of its
stream, but for CR and LF.

The `MC...` modules hold what TLC needs: symmetry sets, initial states with the device
plugged in, specifications with an assumption on the environment, and history variables.
`MCSerialSingle` is `SerialPort` with one caller in one of two ways, chosen in the initial state
(`kept`): it opens the port and keeps it while the device comes, goes and fails (`Kept`), or it opens
and closes as it likes a device that stays and of which one read fails at most (`Steady`).
`MCByteFilters` and `MCConsole` hold two modules each that share nothing (`EchoWrite` beside
`ByteFilters`, `LogFile` beside `Console`): a behaviour is one of one module or of the other.
`MCCtl` leaves out that the config file cannot be written, which a client cannot see.

## 3. The runs

| run | instance | what it shows |
|---|---|---|
| `serial_any` | two callers, two calls each, two opens, two reconnect threads, one fault | for callers that do what they like: lock discipline, `is_connected` implies open and read, losses told, writes not cut |
| `serial_single` | one caller that opens, writes and closes a device that stays, six calls and six opens, or four calls when a read fails; or one that keeps the port, with two faults and four reconnect threads; joins that wait | until the first fault one reader, and closed after `close()`; calls return, also when `close()` meets a reconnect thread; a port that is down is on the way back; a kept port is back for good after one fault, and its superseded receivers leave it alone |
| `server_life` | two connections with their own addresses, one of which may hang in a callback, `MAX_ERROR` 1 | register exact, leavers noticed, `stop()` returns and reaps |
| `service_life` | one connection, terminal once, two timers; a device that stays or is never there; clients come while the service runs, and none at the door when it is stopped | until a reconnect thread is started, the port is closed after `stop()` and after the last consumer; a consumer that stays is served unless somebody asked for the port while a timer was closing it |
| `manager_any` | two mappings, two ports and a foreign one, one request thread for everything and one that starts all behind it, one fault | the file follows the list; while no request changes the list under a dialog, ports are unique, nothing runs unlisted, and the application implements `MappingTable` |
| `console` | a receive thread and the terminal, three bytes and one, chunks of two, two notices; two paths for a log file | rows are lines, nothing logged is missing on the console, lines in order; the log file follows the configuration |
| `cli` | two clients, three opens, a device that stays or is never there, a signal at any time at which nobody is at the door | until a reconnect thread is started, let go with the last client and closed at the end; served unless another client was closing |
| `filters` | streams of four bytes in chunks up to three, any two maps of a direction and the bytes they look for; lines of six characters; four bytes with echo | the result of a filter does not depend on chunks that end outside of what it looks for; text and colours of a line; bytes wait for the echo of the one before |
| `ctl` | two ports, one of them foreign, two commands of up to two requests, another user, who may move a mapping | exit status 0 means done; what was given up is not overtaken by what is asked later |

Three runs show that the code does not do what the repository says of it:

| run | the repository says | the code |
|---|---|---|
| `serial_two_consumers` | `ensure_open` starts no duplicate receive thread | two callers pass the test of `is_connected` before either opens |
| `service_linger` | the port is open while there are clients | a timer that has looked closes after a client has found the port open |
| `manager_dialog` | a TCP port in use is rejected | the dialog judges by the list it got when it opened |

**Bounds.** Each bound is a CONSTANT that appears in a guard (`MaxEpoch`, `MaxRetry`,
`MaxFaults`, `MaxCalls`, `Timers`, `MaxLocal`, `Maps`, `MaxFed`, `MaxChunk`, `MaxEvents`,
`MaxStream`, `MaxMaps`, `MaxLine`, `MaxWritten`, `MaxCommands`) or the size of a set. They are chosen
so that the interesting cases happen: two opens give a superseded receiver; two reconnect
threads give one that is left over; two callers are what every race on the port needs; two
connections let one come while the other leaves; two timers give a fired timer beside an
armed one; two mappings give a duplicate, and a removed one whose place is taken; the third
port is for the program outside. A port that runs out of opens or reconnect threads stays
in `openWait`, so a run whose property says that something happens has more of both than
its faults and calls can use up. In `serial_any` the bounds can stop a behaviour early,
which is harmless to the safety properties it checks. In `console` a partial line of two
bytes is too long, the log holds four events and the widget three lines, so that each of the
limits is met; three bytes are a terminator of two that is cut, with text before or after.
In `filters` four bytes hold a command and one more, or two sources of maps; a line of six
holds an escape sequence with two codes and a character to colour. `cli` has a client that
comes back to a port another one has just closed (three opens). `cli` and `service_life` follow a
behaviour only so far (`Settled`): with a device that stays, up to the start of the first
reconnect thread, which needs a fault or two callers that meet; without a device, to the end, with
one reconnect thread. What they say of a closed port holds until one is started
(`retries = 0`), so that more would only add states it does not speak of; and for consumers that are
not hurried none is started before the first fault, which is proved (`Patient`, section 5). `MaxRetry`
is 2 there because an attempt to open is made only while there is room for what may follow. In
`serial_single`, `HeldCalls` and `SteadyCalls` bound the calls of a caller that keeps the port, and of
one whose read has failed: it would need more opens than `MaxEpoch`, and would stop at that bound
instead of returning. In
`service_life` the timers are taken in a fixed order (`InTurn`), which loses nothing since they are
alike. In `manager_any`
the second request thread (`Latecomers`, `Behind`) is there for the order of the queue: it asks
only when another request waits, and only to start all. Three requests in `ctl` let a command
give up, the next one ask, and one be left over; bytes of three kinds in `filters`, one of them 0
and two that may repeat, are all that `wait_echo` tells apart.

**Deadlock** is not checked: in all runs the system may stop, when the calls, faults,
connections or requests of the instance are used up.

## 4. Fairness

Weak fairness for each started thread, step by step: `CallerStep`, `RxStep`, `RtStep`,
`AcceptStep`, `ClientStep`, `StopStep`, `ClientCallback`, `TimerStep`, `TkStep`. The operating
system schedules every runnable thread and every loop in the code has a timeout (two seconds
for reads, three for joins, sleeps between attempts), so a thread that can go on does. Clients in
`Stuck` are excepted. A
caller that waits for the lock is enabled only while it is free: weak fairness lets others
take it every time. The liveness properties hold without a fair lock, because nobody takes
the lock for ever. `service_life` assumes less (`ModestFairness`): the accept thread and each
client's loop go on, and of the callbacks, timers, the Tk thread and the port's own threads one
goes on as long as one can; TLC checks that faster, and what holds under it holds under the
fairness above. Nothing is assumed of the user, the network, the device, or anybody's first step
of a call: no property needs them to act. `PortManager`, `MappingTable`, `Ctl`, `Console`,
`LogFile`, `CliService`, `ByteFilters` and `EchoWrite` have safety properties only, and state no
fairness.

Conditions are in the properties where the code needs them. `OneReaderFaultless` and
`ClosedAfterClose` hold until the first fault: after one, a reconnect thread may open beside the caller
or behind `close()`. `HandsOffOnce` is for a port that is kept, up to one fault: a receiver stalled
between its test of the epoch and its close can be superseded there by a `close()` and an `open()`,
or after a second fault, and then closes its successor's port (section 6). `ReconnectsOnce` speaks of
one fault and a device that is plugged for good in the end. `StopReaps` and `Goodbye` except clients
that hang, and `StopReaps` one whose `on_connect` has raised. `IdleClosed`, `EndCloses`, `StopCloses` and
`IdleCloses` hold until a reconnect thread is started: one that has passed its test of `_close_set`
and that the last `close()` does not join opens the port after it (section 6). `PatientIsServed`
excludes consumers that ask for the port while a timer is closing it, or, in `cli`, another client; in
`cli` it ends with the first fault as well. `service_linger` is what happens without.
`ChunksDoNotMatter` makes an exception of a filter for which a chunk has ended inside of what it looks
for. `TableSound` and `ImplementsTable` hold until a request changes the list under an open dialog (`overlapped`); `manager_dialog` is what
happens then. `EchoPaced` holds until a wait times out or the device does something else than
echo. `LogFollowsConfig` excepts a `stop()` that raises and a path that is given for a mapping
that has stopped meanwhile (`stray`).

## 5. The proofs

`SerialPortProofs` proves for any set of callers, any bounds, and all values of `Listed`,
`SlowThreads` and `CloseCanFail`, from `SerialPortAssumption` (bounds are natural numbers,
callers are not named like reconnect threads or like the free lock):

* `TypeCorrect`, `LockCorrect`, `ConnectedOpen`, `ConnectedRead`: invariants, all but
  `LockInv` checked by `serial_any` on its instance, all parts of one inductive invariant `IInv`;
* `DropsAreNotified`, `WritesAreSafe`: action properties that follow from it.

`IInv` adds two things. `Room`: a thread inside `__open` is below both bounds, without which
`TypeOK` is not inductive (the thread starts a receive or a reconnect thread when it
leaves). `EpochOrder`: the receive threads 1 to `epoch` have been started and no other, and a
connected port has had one; without it, `ConnectedIsRead` could not tell that the thread a
successful open starts is the one `epoch` names. `LockInv` is inductive with `TypeOK` alone
and is what makes the tests and stores inside `with self.lock` one step. `ConnectedIsRead`
carries its exceptions (a `close()` has been called; a caller is opening) because without
them it is false: a receiver leaves on `_close_set`, and it may leave after an `open()` of
another caller has been decided on. The lemmas go by actor: callers, receivers, reconnect
threads, the device.

Its second part is about `MCSerialSingle`, for any one caller and any bounds, and assumes what
the run does: `~SlowThreads` (joins wait) and `~CloseCanFail`. `SingleInv` is `IInv` with an
invariant for each of the two ways.

* `CloseCloses`, and the part of `OneReceiver` that is about a steady device, by `ReliableInv`: until a
  read fails no reconnect thread is started, `isOpen` is `isConnected` but for the last step of an open,
  and between a `close()` and the next open nobody reads. What makes that inductive is that `rxJoin`
  and `rxWait` know the receiver they wait for (`target = epoch`).
* `HandsOff`, and the part of `OneReceiver` that is about a port that is kept, by `OnceInv`: up to one
  fault, nobody is on the way to a second open before the first receiver has left. After that
  nothing fails any more: two reconnect threads may both open, but the newest receiver reads on and
  one that was superseded gets no further than its test of the epoch.
* `LossIsPending`, by `KeptInv` and `Attended`: `RecoveryPending` is inductive for a kept port once one
  knows that the caller asks once, before any thread was started, and that an open port that is not
  connected is being opened by somebody; and for a steady device because an open there succeeds.

Its third part, about `EchoWrite`, proves `Paced`, by `EchoInv`: between two bytes `lastbyte` is 0,
and while a byte is waited for, either it is the last thing on the way or it has been read. That
`lastbyte` is 0 is what makes a repeated byte wait for its own echo.

`SerialServerProofs` proves for any number of connections and bounds:

* `ServerTypeCorrect`, without a premise on the addresses;
* `RegisterExact`: with addresses of their own (`Distinct`), `ServedIsListed` is an invariant. The
  strengthening `InHand` says that a connection between `accept()` and `start()` is the one the
  accept thread holds; `EqualsSelf` is where distinct addresses are used, and `server_life` has the
  same premise;
* `Reaps`: with `Distinct` and joins that wait (`~SlowThreads`), `StopReaps`, by `Reaping`: a client of
  the first snapshot has been told to stop or is still to be told, nobody is registered once the
  accept thread is dead, and of the first snapshot only those still to be joined are on the register,
  those in `Stuck`, and those whose thread `on_connect` has ended.

`CtlProofs` begins with `MappingTable`: `RunningListed`, by `TableInv` (`RunningIsListed`, `TypeOK`,
and that the queue holds each request once, with something to do), and what a client needs to know of
the queue: which requests `Ask`, `Perform` and `Answer` add to it and take from it. From
`MappingTableAssumption`: `None` is no request, no operation and no result.

It then proves the three invariants of `ctl`, for any ports, requests and number of
commands, from `CtlAssumption` (requests are numbered from 1, `None` is no command) and the above:

* `CtlTypeCorrect`, which carries `TypeOK` of `MappingTable` along;
* `OkIsDone`, by `CtlInv`: what a status says is what came of the request (`FateOK`), a request that
  was not sent or has not arrived has left no trace (`FreshOK`), and the requests of the command
  that runs have been answered well, but for the one it waits for (`CommandOK`); that the port of the
  second one changes while the first is awaited (`Follow`) disturbs none of this. Without the last
  an `add --start` could exit on the strength of its second request alone;
* `LaterAreLater`, by `OrderInv`: every request that was taken up and not carried out yet is in the
  queue, and one whose answer was heard stands there before all that were sent after it. A request
  whose client gave up while it was in flight has not been heard, and may well be carried out after
  later ones, which is why the property is about the requests heard.

`ConsoleProofs` is for any threads, any input and all limits that `ConsoleAssumption` admits:

* `ConsoleTypeCorrect`. The limit of the log and of the partial lines is part of `TypeOK`; the
  invariant adds that a thread about to put an event into the queue has a row for it (`PutHasRow`);
* `NothingIsLost` and `ConsoleInOrder`, by `ConsoleInv`. Its core is that a console is two
  sequences one after the other: what it was built from, a part of the log as it was then, and
  what the queue has brought since (`SplitAt`). The events of a thread ascend in the log, in the
  queue and in each of the two parts; what is in the second part comes before what is in the
  queue. An event can therefore be in both parts, once in each, which is why the properties say
  "twice at most", and why the order is told by the last place at which an event stands;
* `LogFileFollows`, about `LogFile`: `LogFollowsConfig` is inductive.

`PortManagerProofs` is for any mappings, ports, foreign ports, requests and faults, and any file at the
start that names no port twice, from `PortManagerAssumption` (the mappings are finitely many; `None` is
no mapping, port, request or result):

* `ManagerTypeCorrect` and `FileFollowsList`, by `BaseInv`, for every behaviour, dialogs that have
  been overtaken included. It adds to `TypeOK` and `SavedIsCurrent` that every listed mapping has a
  port (without it a save could write something that is none), that a dialog to edit or remove has a
  subject, that a request has something to do exactly while it is queued or being run, and that
  nothing is open or being run while the window closes;
* `TableStaysSound` and `ManagerImplementsTable`, by `SoundInv`: until a request changes the list
  under an open dialog, `TableOK` (unique ports, what runs is listed and its port is free, the file
  names no port twice, the selection is on the list) and `DialogOK` (an open dialog's subject
  is on the list, and its `taken` are the ports of the others). Each needs the other: the ports are
  unique because the dialog checks against `taken`, and `taken` is true because nobody has changed
  the list.

  The refinement goes operation by operation: `AddDoes`, `UpdateDoes`, `RemoveDoes`, `StartDoes`,
  `StopDoes`, `StartAllDoes`, `StopAllDoes`, `LoadDoes` and `RaisesDoes` say that what the code does
  to the list is the operation of `MappingTable` on the ports, with the file as `Written` allows; by the user's hand it is `Table!User` (`UserDoes`), from a call it is `Table!Perform` of the
  first request that waits (`CallDoes`), and taking a call from the queue is a stutter (`QueueDoes`).

Together with `CtlProofs`, which proves about `MappingTable`, this carries what a script may rely on
down to the application, as long as no dialog has been overtaken.

`SharedPortProofs` holds what the proofs about the two programs have in common: lemmas about the steps of
the port and of the server within either, from `SharedPortAssumption`. The theorems of `SerialPort` and
`SerialServer` cannot be cited for this: they are about behaviours in which nothing else happens, and
tlapm does not know the theorems of an instance. Its parts:

* `PortInv` (`TypeOK`, `LockInv` and `ConnectedIsOpen` of `SerialPort`, with `Room` and `Started`, as in
  `IInv`) and `ServerInv` (`TypeOK` and `ServedIsListed` of `SerialServer`, with `InHand`);
* how threads move: a caller goes through an open or a close to its end (`CallersMove`), a connection
  through its states in order (`ConnectionsMove`), and as long as no reconnect thread has been
  started the device is opened by callers only (`OpenedByCaller`);
* `Reaping`: a `stop()` of a server at whose door nobody is leaves no client;
* `Patient`: as long as opens and closes do not meet and the device is there, a connected port is read,
  and the receiver of a port that is closed does not outlive the `close()`;
* the promises of the parts: each step of the server is one of `SerialServer`, and each step of the port
  keeps `ConnectedIsRead` and tells of a loss.

`CliServiceProofs` is about `CliService`, for any number of clients and all bounds:

* `CliTypeCorrect`, by `TypeInv`: where a thread is in its callback, in the port and in the server goes
  together (`Control`);
* `CliRunsServer`, `CliKeepsPort`, `CliIsTold`: the program's server is a `SerialServer`, as a refinement;
  its port keeps `ConnectedIsOpen`, `ConnectedIsRead` and `DropsNotified`;
* `IdleIsClosed`, with distinct addresses: `IdleClosed`, by `OpenIsWanted`: while the port is open there
  is a client that has still to count those that are left, or has counted nobody and not closed yet;
* `EndIsClosed`, with distinct addresses, joins that wait and nobody at the door when the program leaves
  its loop (`OrderlySpec`): `EndCloses`, by `Reaping` and `Ending`, which says that the main thread closes
  the port after the last client has gone;
* `PatienceServes`, with the same premises: `PatientIsServed`, by `Courtesy`: until the first fault, clients
  that want the port and a client that closes it are never there together, unless `hurried`.

`PortServiceProofs` is about `PortService`, for any number of clients, timers and terminals:

* `ServiceTypeCorrect`, by `TypeInv`, with `Control` and what the Tk thread has announced (`Announced`);
* `ServiceRunsServer`, `ServiceKeepsPort`, `ServiceIsTold`, as above;
* `StopIsClosed`: `StopCloses`, by `EndInv`, with the premises of `EndIsClosed`;
* `IdleIsLooked`, with distinct addresses: the safety half of `IdleCloses`. A running service that holds the
  device has somebody who uses it, or who will see that nobody does (`Looked`): the last consumer has
  yet to count, or a timer is armed, has fired or is closing. That needs no order among the timers: one
  that was cancelled too late looks as well;
* `ConsumersKeepPort`, with the premises of `PatienceServes`: the safety half of `PatientIsServed`. A client in
  its loop and a connected terminal have the device, open and read.

That addresses are distinct is what the kernel gives as long as a peer does not come back from the same
port (section 6); that joins wait and nobody is at the door is needed, since the code breaks the
statements without (section 6).

Only model-checked: everything temporal under fairness (`CallsReturn`, `ReconnectsOnce`,
`Goodbye`, `StopReturns`, `IdleCloses`, and `PatientIsServed` of `PortService`), which is out of the
prover's reach; `RowsAreLines`, which compares the rows with the lines of the whole input, and what
the functions of `ByteFilters` compute: both are defined by recursion on the data. That the specifications of `MCPortManager` and
`MCSerialSingle` restrict the behaviours of `PortManager` and `SerialPort` is by their shape: each is a
conjunct beside `Next`.

## 6. What else was found while modelling

These were seen with TLC on variants of the runs above, or in reading where the LF that is
dropped, the answers of the API and the encoding of the exit command are concerned, and are not
runs of their own:

* A receiver can take down its successor's connection, since it tests the epoch before it takes the
  lock. It needs to be stalled there while the port is closed and opened again: with joins that give
  up (`SlowThreads`); or, with joins that wait, after one failed read, when `close()` joins a newer
  receiver that a reconnect thread has started meanwhile (TLC's trace has five calls); or with a
  second fault when the port is kept. `HandsOffOnce` is what is left to promise.
* A reconnect thread that has passed its test of `_close_set` opens the port after `close()`
  has closed it; the port stays open until the next call. In `cli` and `service_life` with two
  reconnect threads (`MaxRetry` 2), TLC finds the port open although nobody is there, or the program
  has ended or `stop()` has returned, when the properties are stated without `retries = 0`: a
  `close()` that meets an open waits three seconds for a reconnect thread whose loop goes on, gives up
  and forgets it (`reconnect_thread = None`), so that the last `close()` does not wait for it at all.
  `README.md` of the repository says that the port closes when the last client disconnects.
* A failed open relies on a reconnect thread that is alive, which may have left its loop
  already; and when `Serial.close()` raises, the reconnect thread finds the port open and
  ends. In both cases nobody brings the port back. `serial_single` keeps the port only for a
  caller that opens once, and its `Serial.close()` works.
* After two faults a stale receiver that closes and a reconnect thread that opens can
  follow each other for ever, hence `ReconnectsOnce`.
* A caller of `ensure_open` and a reconnect thread can both open a port that is down: two
  receivers, even with a single caller.
* A lost device is not reconnected when the operating system lists it under another name
  than the configured one (`Listed` is FALSE): the reconnect thread compares names.
* A client that is accepted while `stop()` goes on opens the port again, in both front ends;
  and `start_service` leaves the port open when `server.stop()` raises.
* The command line program's last client counts and then closes: one that connects in between
  finds the port open and loses it.
* A peer that comes back from the same address and port before its old client has left the
  register makes one of the two client threads end with KeyError, and `on_client_disconnect`
  is not called.
* `stop()` raises AttributeError for a client that is registered and not started yet: it joins the
  accept thread first, so only when that join gives up (`SlowThreads`).
* A client that comes and goes before `start()` has set `_running` leaves the port open.
* A fired linger timer that has not looked yet judges by the consumers of a later grace
  period, and cuts it short.
* A mapping that a request deletes while the user edits it can go on as a running service
  that is on no list; a mapping that a request deletes while the user is asked whether to
  remove it makes `services.remove` raise.
* A request that was answered 503 is carried out later; but after all that were asked before it
  and before all asked after it was answered (`LaterWaits`), so that a script that goes on after a
  failure is not overtaken. A request that was still on its way when the client gave up can be.
* The answer to a change is built on the request's thread after the call has run: it may show
  what a later call has made of the mapping, and `add --start` then starts the port named there
  (`Moved` in `Ctl`).
* An exception of `on_connect` (the AttributeError of `ensure_open`, when a `close()` stores None
  between the two reads of `reconnect_thread` at `serial_port.py:77`) ends the client's thread before its
  loop: its socket stays open, it stays on the register, and `on_client_disconnect` is never called, so
  that a port which somebody else opens later is not let go of.
* A client registered after `stop()` has taken its snapshot is not told to stop: the join waits its
  three seconds for it, and it goes on being served.
* A mapping that does not start again after a change stays stopped, and neither the user nor the
  client of the API is told.
  The counts of `GET /health` read each status once per count and need not add up.
* `stop all` prints no error and exits with 0 because the API has none to tell; when one `stop()`
  raises, the request fails as a whole and the mappings after it go on running.
* With `wait_echo`, once a wait has timed out, the echo that comes late stays in `lastbyte` and is
  taken for that of the next equal byte, which is then not waited for.
* Entries of the config file without a device or a TCP port are skipped when it is loaded, and
  gone after the next save.
* Two threads that pass on bytes of the same direction (a client thread and the terminal) read
  and store the same partial line without a lock: text may be lost or come twice. `RowsAreLines`
  is for a direction that one thread feeds.
* A CR LF that is cut between two chunks ends one row with its CR, and the LF is dropped with
  the empty line it makes: the hex view does not show it.
* After the panel was built from the log, events that are still in the queue are appended as
  well: a line comes twice, and one that was cleared can come back.
* Telnet commands, exit commands and the two-byte sources of maps are looked for in each chunk;
  one that is cut between two chunks is missed. Removing a command may bring together bytes
  that look like one. `'exit\xff'.encode()` is UTF-8, so what ends the program is "exit" and the
  bytes C3 BF; what else the chunk holds is dropped.
* A log file that is chosen for a service that has been stopped or removed meanwhile is opened all
  the same (`detail.py`, `_toggle_log`), and one of a service whose `server.stop()` raises stays
  open: `stray` in `LogFile`. A removed service never closes it.
* A failed save inside a request keeps all others waiting until the user dismisses the box.

## 7. Not modelled

* `char_delay` without `wait_echo` (the time it takes), RTS/DTR, statistics, what the log file
  says, the layout of the hex view.
* In `CliService`, what the callbacks do with the bytes (`ByteFilters` is about that), the debug
  messages and the log file; `parse_args`.
* The process ending in the middle of a write of the config file: nothing in the code deals
  with it. A write that raises, before or after a part of the file is written, is modelled.
* Autostart, apart from `_load` starting any of the mappings; the other fields of a
  config; the log and API settings.
* uvicorn; the validation of bodies (422); the parsing of options in `cli.py`, the choice of the
  URL and the printing of answers; layout, colours and formatting.

## 8. Plan

Done, in this order: `SerialPort`, its proofs, `SerialServer`, its first theorem, `PortService`,
`PortManager`, `Console`, `CliService`, `ByteFilters`; `MappingTable` and the refinement,
`Ctl`, the proofs of both, `EchoWrite` and `LogFile` with theirs; then the proofs of `SerialServer`,
of the serial port with one caller, of `Console` and of `PortManager`, the refinement included; then
`SharedPort`, drawn from the two programs, and the proofs of both.

Next, models, each joined to a run that is there where its state is small:

1. Restarts: several generations of `start`/`stop` in `PortService`, as `update_port_config`
   makes them, and callbacks of a generation that has ended.
2. The answers of the API, which are read from a service that changes meanwhile.

Next, an abstract specification: `Device` (a serial port is down, up or wanted), implemented by
`SerialPort` for one caller.

Next, liveness of `CliService`: a signal ends the program.

Next, theorems: what the linger timers do to each other. A timer that has fired overwrites
`_linger_timer`, so that it does not name the only armed timer; how early a grace period can end for
that reason is worth an exact statement. And the line buffer: `RowsAreLines` for input of any length
needs an induction that the prover does not offer here.
