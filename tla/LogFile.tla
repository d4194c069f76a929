------------------------------- MODULE LogFile -------------------------------
(***************************************************************************)
(* The log file of one mapping, serialtcp/service.py and the log button of *)
(* the DetailPanel.  All of it runs on the Tk thread; but while the user   *)
(* is asked for a path, _tick goes on running requests of the control API, *)
(* which start, stop, change and remove the mapping.                       *)
(***************************************************************************)
EXTENDS Naturals

CONSTANTS
    Paths,          \* of log files
    Off             \* no log file

ASSUME LogFileAssumption == Off \notin Paths

VARIABLES
    listed,         \* the mapping is in App.services
    running,        \* PortService._running
    logFile,        \* config.log_file
    handle,         \* _log_fh: the path it writes to
    button,         \* the mapping's console is shown, with the log button
    asking,         \* the file dialog is open
    openFailed,     \* history: the last attempt to open a log file failed
    stray           \* history: the handle was left by a stop() that raised, or opened after one

logVars == <<listed, running, logFile, handle, button, asking, openFailed, stray>>

LogInit ==
    /\ listed = TRUE
    /\ running = FALSE
    /\ logFile \in Paths \cup {Off}
    /\ handle = Off
    /\ button = FALSE
    /\ asking = FALSE
    /\ openFailed = FALSE
    /\ stray = FALSE

\* _open_log
Opened(path) ==
    /\ handle' \in {path, Off}
    /\ openFailed' = (handle' = Off)

\* _close_log
Closed == handle' = Off /\ stray' = FALSE

\* What start() does once the server runs.
StartLogs(path) ==
    IF path # Off
    THEN Opened(path) /\ stray' = FALSE
    ELSE UNCHANGED <<handle, openFailed, stray>>

StartService ==
    /\ listed /\ ~running
    /\ running' = TRUE /\ button' = TRUE
    /\ StartLogs(logFile)
    /\ UNCHANGED <<listed, logFile, asking>>

\* Mutant: the log file stays open.
StopsOpen == running' = FALSE /\ button' = FALSE /\ UNCHANGED <<handle, stray>>

\* stop() to its end, and the refresh.
Stops == running' = FALSE /\ button' = FALSE /\ Closed

\* stop() is broken off by the server or the serial port: _close_log is not reached, and
\* what was to come after stop() is not either, nor the refresh.
StopRaises ==
    /\ running
    /\ running' = FALSE
    /\ stray' = (handle # Off)
    /\ UNCHANGED <<listed, logFile, handle, button, asking, openFailed>>

StopService ==
    /\ running
    /\ Stops
    /\ UNCHANGED <<listed, logFile, asking, openFailed>>

\* update_port_config: the mapping is stopped, changed and started again, if it can be.
UpdateStopped(path) ==
    /\ listed /\ ~running
    /\ logFile' = path
    /\ UNCHANGED <<listed, running, handle, button, asking, openFailed, stray>>

UpdateRunning(path) ==
    /\ listed /\ running
    /\ logFile' = path
    /\ \/ Stops /\ UNCHANGED openFailed
       \/ /\ UNCHANGED <<running, button>> /\ stray' = FALSE
          /\ IF path # Off THEN Opened(path) ELSE handle' = Off /\ UNCHANGED openFailed
    /\ UNCHANGED <<listed, asking>>

\* remove_port_config
RemoveMapping ==
    /\ listed
    /\ listed' = FALSE
    /\ IF running THEN Stops ELSE button' = FALSE /\ UNCHANGED <<running, handle, stray>>
    /\ UNCHANGED <<logFile, asking, openFailed>>

\* App._refresh, every second at the latest.
RefreshPanel ==
    /\ button' = running
    /\ UNCHANGED <<listed, running, logFile, handle, asking, openFailed, stray>>

-----------------------------------------------------------------------------
(***************************************************************************)
(* The log button                                                          *)
(***************************************************************************)

CanToggle == button /\ ~asking

StopLogging ==
    /\ CanToggle /\ handle # Off
    /\ logFile' = Off /\ Closed
    /\ UNCHANGED <<listed, running, button, asking, openFailed>>

AskPath ==
    /\ CanToggle /\ handle = Off
    /\ asking' = TRUE
    /\ UNCHANGED <<listed, running, button, logFile, handle, openFailed, stray>>

Cancel ==
    /\ asking /\ asking' = FALSE
    /\ UNCHANGED <<listed, running, button, logFile, handle, openFailed, stray>>

\* Mutant: the new path is not kept.
StartLoggingForgets(path) ==
    /\ asking /\ asking' = FALSE
    /\ Opened(path)
    /\ stray' = (handle' # Off /\ ~running)
    /\ UNCHANGED <<listed, running, button, logFile>>

\* start_logging: what has become of the mapping meanwhile does not matter to it.
StartLogging(path) ==
    /\ asking /\ asking' = FALSE
    /\ Opened(path)
    /\ logFile' = IF handle' = Off THEN logFile ELSE path
    /\ stray' = (handle' # Off /\ ~running)
    /\ UNCHANGED <<listed, running, button>>

-----------------------------------------------------------------------------
LogNext ==
    \/ StartService \/ StopService \/ StopRaises \/ RemoveMapping \/ RefreshPanel
    \/ \E path \in Paths \cup {Off} : UpdateStopped(path) \/ UpdateRunning(path)
    \/ StopLogging \/ AskPath \/ Cancel
    \/ \E path \in Paths : StartLogging(path)

LogSpec == LogInit /\ [][LogNext]_logVars

\* A mapping that runs writes to the file its configuration names, or to none when that
\* could not be opened, and one that is stopped or removed has no file open; whatever
\* requests come while the user is asked for a path.  The exceptions are a stop() that
\* raised, and a path given for a mapping that had been stopped meanwhile: that file stays
\* open until the mapping runs with a log file again, or is stopped again.
LogFollowsConfig ==
    ~stray =>
        /\ running =>
            \/ handle = logFile
            \/ handle = Off /\ openFailed
        /\ ~running => handle = Off
=============================================================================
