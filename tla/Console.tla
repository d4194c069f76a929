------------------------------- MODULE Console -------------------------------
(***************************************************************************)
(* The log of one mapping and the console that shows it: the line log of   *)
(* serialtcp/service.py, the queue App.events and the DetailPanel of       *)
(* gui/serialtcp_gui.  Receive and client threads cut what they pass on    *)
(* into rows and emit each as an event: into the service's log under its   *)
(* lock, then into the queue.  The Tk thread empties the queue into the    *)
(* console's widget, and fills the widget from the log when it builds it.  *)
(***************************************************************************)
EXTENDS Naturals, Sequences, FiniteSets, SequencesExt

CONSTANTS
    Kind,           \* the direction each thread passes on, "rx" or "tx"
    Tk,             \* the thread of the user interface, which sends and emits as well
    MaxPartial,     \* _MAX_PARTIAL_LINE
    History,        \* _LOG_HISTORY
    MaxShown,       \* lines the widget keeps, of _MAX_CONSOLE_LINES
    MaxChunk,       \* bound on the bytes passed on at a time
    MaxFed,         \* bound on the bytes passed on in each direction
    MaxEvents       \* bound on the notices of a thread, and on starts

Threads == DOMAIN Kind
Kinds   == {"rx", "tx"}
Bytes   == {"x", "CR", "LF"}

ASSUME ConsoleAssumption ==
    /\ Kind \in [Threads -> Kinds]
    /\ Tk \in Threads /\ Kind[Tk] = "tx"
    /\ MaxPartial \in Nat /\ History \in Nat /\ MaxShown \in Nat
    /\ MaxChunk \in Nat /\ MaxEvents \in Nat
    /\ MaxFed \in [Kinds -> Nat]

VARIABLES
    status,         \* PortService.status
    part,           \* _line_bufs
    at,             \* where each thread is
    job,            \* the rows it has still to emit
    rest,           \* what it will store as partial line
    into,           \* what a thread does after its last row
    count,          \* events each thread has made, which number them
    log,            \* log_buffer
    queue,          \* App.events
    selected,       \* the detail panel shows this service
    key,            \* DetailPanel._build_key: the status it was built for
    console,        \* the panel has a console widget
    shown,          \* the lines in it
    fed,            \* history: the bytes passed on since start()
    rows,           \* history: the rows emitted since start()
    notices         \* how many notices and starts there have been

bytes   == <<part, rest, fed, rows>>
threads == <<at, job, into, count, notices>>
panel   == <<selected, key, console, shown>>
vars    == <<status, bytes, threads, log, queue, panel>>

Statuses == {"stopped", "running", "reconnecting"}
Chunks(n) == UNION {[1 .. m -> Bytes] : m \in 1 .. n}
Events == [by : Threads, no : Nat]

ControlOK ==
    /\ status \in Statuses
    /\ at \in [Threads -> {"idle", "emit", "put", "stopping", "drain", "refresh"}]
    /\ into \in [Threads -> {"store", "idle", "refresh"}]
    /\ count \in [Threads -> Nat]
    /\ selected \in BOOLEAN
    /\ key \in Statuses \cup {"other"}
    /\ console \in BOOLEAN
    /\ notices \in 0 .. MaxEvents

BytesOK ==
    /\ part \in [Kinds -> Seq(Bytes)] /\ \A k \in Kinds : Len(part[k]) <= MaxPartial
    /\ job \in [Threads -> Seq(Seq(Bytes))]
    /\ rest \in [Threads -> Seq(Bytes)] /\ \A t \in Threads : Len(rest[t]) <= MaxPartial
    /\ fed \in [Kinds -> Seq(Bytes)]
    /\ rows \in [Kinds -> Seq(Seq(Bytes))]

EventsOK ==
    /\ log \in Seq(Events) /\ Len(log) <= History
    /\ queue \in Seq(Events)
    /\ shown \in Seq(Events) /\ (Len(shown) <= History \/ Len(shown) <= MaxShown)

TypeOK == ControlOK /\ BytesOK /\ EventsOK

Init ==
    /\ status = "stopped"
    /\ part = [k \in Kinds |-> << >>]
    /\ at = [t \in Threads |-> "idle"]
    /\ job = [t \in Threads |-> << >>]
    /\ rest = [t \in Threads |-> << >>]
    /\ into = [t \in Threads |-> "idle"]
    /\ count = [t \in Threads |-> 0]
    /\ log = << >>
    /\ queue = << >>
    /\ selected \in BOOLEAN
    /\ key = IF selected THEN "stopped" ELSE "other"
    /\ console = FALSE
    /\ shown = << >>
    /\ fed = [k \in Kinds |-> << >>]
    /\ rows = [k \in Kinds |-> << >>]
    /\ notices = 0

-----------------------------------------------------------------------------
(***************************************************************************)
(* Lines                                                                   *)
(***************************************************************************)

IsText(b) == b = "x"

Text(row) == SelectSeq(row, IsText)

\* Where the terminators CR LF, CR and LF end in a buffer.
Ends(buf) == {i \in DOMAIN buf :
    \/ buf[i] = "LF"
    \/ buf[i] = "CR" /\ ~(i < Len(buf) /\ buf[i + 1] = "LF")}

\* A set of numbers in order.
Ascending(S) ==
    CHOOSE f \in [1 .. Cardinality(S) -> S] : \A i, j \in DOMAIN f : i < j => f[i] < f[j]

\* _buffer_lines: the lines of a buffer with their terminators, without the empty ones.
Split(buf) ==
    LET ends == Ascending(Ends(buf))
        From(i) == IF i = 1 THEN 1 ELSE ends[i - 1] + 1
        full == Ascending({i \in DOMAIN ends : \E n \in From(i) .. ends[i] : IsText(buf[n])})
    IN  [n \in DOMAIN full |-> SubSeq(buf, From(full[n]), ends[full[n]])]

Remainder(buf) ==
    LET ends == Ascending(Ends(buf))
    IN  IF ends = << >> THEN buf ELSE SubSeq(buf, Last(ends) + 1, Len(buf))

-----------------------------------------------------------------------------
(***************************************************************************)
(* Emitting                                                                *)
(***************************************************************************)

\* Mutant: a partial line has no limit.
BufferLinesUnbounded(t, buf) ==
    /\ job' = [job EXCEPT ![t] = Split(buf)]
    /\ rest' = [rest EXCEPT ![t] = Remainder(buf)]

\* A thread passes bytes on; a partial line that is too long becomes a row of its own.
BufferLines(t, buf) ==
    LET long == Len(Remainder(buf)) > MaxPartial
    IN  /\ job' = [job EXCEPT ![t] =
                    IF long THEN Append(Split(buf), Remainder(buf)) ELSE Split(buf)]
        /\ rest' = [rest EXCEPT ![t] = IF long THEN << >> ELSE Remainder(buf)]

CanFeed(t) ==
    /\ at[t] = "idle"
    /\ \/ status # "stopped"
       \/ t # Tk /\ at[Tk] = "stopping"

\* Mutant: the partial line is left out.
FeedForgets(t, chunk) ==
    /\ CanFeed(t)
    /\ Len(fed[Kind[t]]) + Len(chunk) <= MaxFed[Kind[t]]
    /\ BufferLines(t, chunk)
    /\ fed' = [fed EXCEPT ![Kind[t]] = @ \o chunk]
    /\ at' = [at EXCEPT ![t] = "emit"] /\ into' = [into EXCEPT ![t] = "store"]
    /\ UNCHANGED <<status, part, rows, count, notices, log, queue, panel>>

\* _on_serial_receive, _on_tcp_receive, send_to_serial: _buffer_lines up to its first row.
Feed(t, chunk) ==
    /\ CanFeed(t)
    /\ Len(fed[Kind[t]]) + Len(chunk) <= MaxFed[Kind[t]]
    /\ BufferLines(t, part[Kind[t]] \o chunk)
    /\ fed' = [fed EXCEPT ![Kind[t]] = @ \o chunk]
    /\ at' = [at EXCEPT ![t] = "emit"] /\ into' = [into EXCEPT ![t] = "store"]
    /\ UNCHANGED <<status, part, rows, count, notices, log, queue, panel>>

Emits(t, then) ==
    /\ notices < MaxEvents /\ notices' = notices + 1
    /\ at' = [at EXCEPT ![t] = "emit"]
    /\ job' = [job EXCEPT ![t] = << << >> >>]
    /\ into' = [into EXCEPT ![t] = then]

\* A callback or the terminal reports a connection, a retry or a change of state.
Notice(t) ==
    /\ CanFeed(t)
    /\ Emits(t, "idle")
    /\ UNCHANGED <<status, bytes, count, log, queue, panel>>

\* The event a thread is emitting.
Made(t) == [by |-> t, no |-> count[t] + 1]

\* _emit under _log_lock: the deque drops its oldest entry when it is full.
EmitLog(t) ==
    /\ at[t] = "emit" /\ job[t] # << >>
    /\ at' = [at EXCEPT ![t] = "put"]
    /\ log' = LET all == Append(log, Made(t))
              IN  IF Len(all) > History THEN Tail(all) ELSE all
    /\ rows' = IF into[t] = "store"
               THEN [rows EXCEPT ![Kind[t]] = Append(@, Head(job[t]))] ELSE rows
    /\ UNCHANGED <<status, part, rest, fed, job, into, count, notices, queue, panel>>

\* _on_event
EmitPut(t) ==
    /\ at[t] = "put"
    /\ at' = [at EXCEPT ![t] = "emit"]
    /\ queue' = Append(queue, Made(t))
    /\ job' = [job EXCEPT ![t] = Tail(@)]
    /\ count' = [count EXCEPT ![t] = @ + 1]
    /\ UNCHANGED <<status, bytes, into, notices, log, panel>>

\* After the last row: _buffer_lines stores the partial line, without a lock.
EmitDone(t) ==
    /\ at[t] = "emit" /\ job[t] = << >>
    /\ part' = IF into[t] = "store" THEN [part EXCEPT ![Kind[t]] = rest[t]] ELSE part
    /\ rest' = [rest EXCEPT ![t] = << >>]
    /\ at' = [at EXCEPT ![t] = IF into[t] = "refresh" THEN "refresh" ELSE "idle"]
    /\ into' = [into EXCEPT ![t] = "idle"]
    /\ UNCHANGED <<status, fed, rows, job, count, notices, log, queue, panel>>

-----------------------------------------------------------------------------
(***************************************************************************)
(* The Tk thread                                                           *)
(***************************************************************************)

TkIdle == at[Tk] = "idle"

\* start() and stop(), as far as the log is concerned, each followed by a refresh.
Start ==
    /\ TkIdle /\ status = "stopped"
    /\ status' = "running"
    /\ part' = [k \in Kinds |-> << >>]
    /\ fed' = [k \in Kinds |-> << >>] /\ rows' = [k \in Kinds |-> << >>]
    /\ Emits(Tk, "refresh")
    /\ UNCHANGED <<rest, count, log, queue, panel>>

Stop ==
    /\ TkIdle /\ status # "stopped"
    /\ status' = "stopped"
    /\ at' = [at EXCEPT ![Tk] = "stopping"]
    /\ UNCHANGED <<bytes, job, into, count, notices, log, queue, panel>>

\* The threads have been joined.
StopJoined ==
    /\ at[Tk] = "stopping"
    /\ \A t \in Threads \ {Tk} : at[t] = "idle"
    /\ Emits(Tk, "refresh")
    /\ UNCHANGED <<status, bytes, count, log, queue, panel>>

\* The device is lost or comes back, consumers come and go.
StatusFlips ==
    /\ status # "stopped"
    /\ status' = IF status = "running" THEN "reconnecting" ELSE "running"
    /\ UNCHANGED <<bytes, threads, log, queue, panel>>

\* Mutant: the widget is not emptied first.
RenderAppends == shown' = IF console' THEN shown \o log ELSE << >>

\* _render_buffer
Render == shown' = IF console' THEN log ELSE << >>

\* Mutant: the new widget is left empty.
BuildEmpty ==
    /\ key' = status
    /\ console' = (status # "stopped")
    /\ shown' = << >>

\* DetailPanel.refresh for a build key that has changed: only a port that is not stopped
\* has a console.
Build ==
    /\ key' = status
    /\ console' = (status # "stopped")
    /\ Render

\* App._refresh.
Refresh ==
    /\ at[Tk] = "refresh"
    /\ at' = [at EXCEPT ![Tk] = "idle"]
    /\ IF selected /\ key # status THEN Build ELSE UNCHANGED <<key, console, shown>>
    /\ UNCHANGED <<status, bytes, job, into, count, notices, log, queue, selected>>

\* DetailPanel.show: of this service, also when it is shown already, or of another.
Show ==
    /\ TkIdle
    /\ selected' = TRUE
    /\ Build
    /\ UNCHANGED <<status, bytes, threads, log, queue>>

ShowOther ==
    /\ TkIdle /\ selected
    /\ selected' = FALSE /\ key' = "other" /\ console' = FALSE /\ shown' = << >>
    /\ UNCHANGED <<status, bytes, threads, log, queue>>

\* _cycle_view renders the log in another form.
CycleView ==
    /\ TkIdle /\ console
    /\ UNCHANGED <<selected, key, console>>
    /\ Render
    /\ UNCHANGED <<status, bytes, threads, log, queue>>

\* _clear_console
ClearConsole ==
    /\ TkIdle /\ console
    /\ log' = << >> /\ shown' = << >>
    /\ UNCHANGED <<status, bytes, threads, queue, selected, key, console>>

\* _tick takes events until there is none, then may refresh.
Tick ==
    /\ TkIdle
    /\ at' = [at EXCEPT ![Tk] = "drain"]
    /\ UNCHANGED <<status, bytes, job, into, count, notices, log, queue, panel>>

\* append_log: shown if there is a console for it; the widget is trimmed.
AppendLog ==
    /\ at[Tk] = "drain" /\ queue # << >>
    /\ queue' = Tail(queue)
    /\ shown' = LET all == Append(shown, Head(queue))
                IN  IF ~(selected /\ console) THEN shown
                    ELSE IF Len(all) <= MaxShown THEN all
                    ELSE SubSeq(all, Len(all) - MaxShown + 1, Len(all))
    /\ UNCHANGED <<status, bytes, threads, log, selected, key, console>>

TickDone ==
    /\ at[Tk] = "drain" /\ queue = << >>
    /\ \E next \in {"idle", "refresh"} : at' = [at EXCEPT ![Tk] = next]
    /\ UNCHANGED <<status, bytes, job, into, count, notices, log, queue, panel>>

\* poll(), between the two: an attempt to reconnect is reported.
Poll ==
    /\ at[Tk] = "drain" /\ queue = << >>
    /\ status = "reconnecting"
    /\ Emits(Tk, "refresh")
    /\ UNCHANGED <<status, bytes, count, log, queue, panel>>

-----------------------------------------------------------------------------
ThreadStep(t) ==
    \/ \E chunk \in Chunks(MaxChunk) : Feed(t, chunk)
    \/ Notice(t)
    \/ EmitLog(t) \/ EmitPut(t) \/ EmitDone(t)

TkStep ==
    \/ Start \/ Stop \/ StopJoined
    \/ Refresh \/ Show \/ ShowOther \/ CycleView \/ ClearConsole
    \/ Tick \/ AppendLog \/ TickDone \/ Poll

Next == (\E t \in Threads : ThreadStep(t)) \/ TkStep \/ StatusFlips

Spec == Init /\ [][Next]_vars

-----------------------------------------------------------------------------
(***************************************************************************)
(* Properties                                                              *)
(***************************************************************************)

\* The lines of a text: its longest pieces without a terminator that one follows.
Lines(seq) ==
    LET first == {i \in DOMAIN seq : IsText(seq[i]) /\ (i = 1 \/ ~IsText(seq[i - 1]))}
        StopsAt(i) == {j \in i .. Len(seq) : ~IsText(seq[j])}
        ended == SetToSortSeq({i \in first : StopsAt(i) # {}}, <)
        Piece(i) == SubSeq(seq, i, (CHOOSE j \in StopsAt(i) : \A l \in StopsAt(i) : j <= l) - 1)
    IN  [n \in DOMAIN ended |-> Piece(ended[n])]

\* The rows of a direction that one thread feeds are the lines of all that has come,
\* however it was cut into chunks; when too long a line was cut, no text is lost or moved.
RowsAreLines ==
    \A t \in Threads :
        /\ at[t] = "idle"
        /\ \A u \in Threads : Kind[u] = Kind[t] => u = t
        =>  LET k == Kind[t]
                texts == [i \in DOMAIN rows[k] |-> Text(rows[k][i])]
                cut == \E i \in DOMAIN rows[k] : IsText(Last(rows[k][i]))
            IN  /\ FlattenSeq(texts) \o part[k] = Text(fed[k])
                /\ ~cut => texts = Lines(fed[k])

\* Events on the way from the log to the Tk thread.
Pending == Range(queue) \cup {Made(t) : t \in {u \in Threads : at[u] = "put"}}

\* A console shows all of the log but what is on the way, or has been trimmed.
NothingLost ==
    console /\ Len(shown) < MaxShown => Range(log) \subseteq Range(shown) \cup Pending

LastAt(e) == CHOOSE i \in DOMAIN shown :
                shown[i] = e /\ \A j \in i + 1 .. Len(shown) : shown[j] # e

\* What one thread has emitted stands on the console in that order once it has arrived,
\* whatever was built, cleared, trimmed or shown again meanwhile.  A line may come twice,
\* from the log and from the queue, never three times.
ShownInOrder ==
    \A d, e \in Range(shown) :
        /\ d.by = e.by /\ d.no < e.no /\ {d, e} \cap Pending = {} => LastAt(d) < LastAt(e)
        /\ Cardinality({i \in DOMAIN shown : shown[i] = e}) <= 2
=============================================================================
