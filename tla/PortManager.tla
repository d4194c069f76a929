----------------------------- MODULE PortManager -----------------------------
(***************************************************************************)
(* The port manager: gui/serialtcp_gui/app.py with its dialogs, its config *)
(* file and the requests of the control API.  Everything that changes the  *)
(* list of mappings runs on the Tk thread, in one of two ways: a handler   *)
(* of the user, which may stand in a modal dialog, or _tick, which runs    *)
(* what request threads have put into the queue `calls` and goes on while  *)
(* a dialog is open.  A request thread waits five seconds for its call.    *)
(* A mapping is a PortService: the TCP port of its config, and running or  *)
(* not.  Message boxes that a handler shows as its last act are left out.  *)
(***************************************************************************)
EXTENDS Naturals, Sequences, SequencesExt, FiniteSets

CONSTANTS
    Ports,          \* TCP ports
    Foreign,        \* those another program listens on
    Maps,           \* bound on the PortService objects in use at a time, and their names
    None,
    Requests,       \* threads of the API server that change something
    MaxFaults       \* bound on saves that fail and stop() calls that raise

ASSUME PortManagerAssumption ==
    /\ Foreign \subseteq Ports
    /\ IsFiniteSet(Maps)
    /\ None \notin Maps \cup Ports \cup Requests \cup {"ok", "errors", "refused"}
    /\ MaxFaults \in Nat

VARIABLES
    services,       \* App.services
    port,           \* config.tcp_port of each mapping
    running,        \* the mappings whose service is running
    selected,       \* App.selected, which the detail panel shows
    disk,           \* the TCP ports in the config file
    unsaved,        \* the last save failed and the user has been told
    modal,          \* the dialog the user has open, or the box of an edit's failed save
    calls,          \* App.calls
    current,        \* the request whose call _tick is running
    box,            \* its result while a message box keeps the call from returning
    op,             \* what each request asks for
    status,         \* where each request thread is
    app,            \* "open", "closing" or "closed"
    api,            \* the API server takes requests
    faults          \* how many faults have been spent

table   == <<services, port, running, selected>>
file    == <<disk, unsaved>>
loop    == <<calls, current, box>>
request == <<op, status>>
life    == <<app, api>>
vars    == <<table, file, modal, loop, request, life, faults>>

Listed  == Range(services)
NoModal == [kind |-> "none", subject |-> None, taken |-> {}]
Modals  == [kind : {"none", "add", "edit", "remove", "reload", "saveFailed"},
            subject : Maps \cup {None}, taken : SUBSET Ports]

\* The control API in the terms of its promise: a mapping is its port, and a call that waits
\* for the Tk thread or is being run has not happened yet.
Table == INSTANCE MappingTable WITH
            table   <- {port[m] : m \in Listed},
            on      <- {port[m] : m \in running},
            disk    <- Range(disk),
            queue   <- IF current # None /\ box = None THEN <<current>> \o calls ELSE calls,
            current <- IF box # None THEN current ELSE None

TypeOK ==
    /\ services \in Seq(Maps) /\ IsInjective(services)
    /\ port \in [Maps -> Ports \cup {None}]
    /\ running \subseteq Maps
    /\ selected \in Maps \cup {None}
    /\ disk \in Seq(Ports)
    /\ unsaved \in BOOLEAN
    /\ modal \in Modals
    /\ calls \in Seq(Requests) /\ IsInjective(calls)
    /\ current \in Requests \cup {None}
    /\ box \in Table!Results \cup {None}
    /\ op \in [Requests -> Table!Ops \cup {None}]
    /\ status \in [Requests -> {"idle", "waiting", "gaveUp"} \cup Table!Results]
    /\ app \in {"open", "closing", "closed"}
    /\ api \in BOOLEAN
    /\ faults \in 0 .. MaxFaults

-----------------------------------------------------------------------------
(***************************************************************************)
(* Mappings                                                                *)
(***************************************************************************)

\* GuiController._lookup: the first mapping on the list with that port.
Lookup(p) ==
    IF \E m \in Listed : port[m] = p
    THEN services[CHOOSE i \in DOMAIN services :
            /\ port[services[i]] = p
            /\ \A j \in 1 .. i - 1 : port[services[j]] # p]
    ELSE None

\* A PortService object nobody refers to: the place of a new one.
Unused == Maps \ (Listed \cup running \cup {selected, modal.subject})

\* PortService.start with the configs f while `on` are running: nothing when it is
\* running, and nothing but an error when somebody listens on its port.
Started(f, on, m) ==
    IF f[m] \in Foreign \/ \E n \in on : f[n] = f[m] THEN on ELSE on \cup {m}

\* One after the other those of a list that are in S: of several with one port, the first.
StartedAll(f, on, list, S) ==
    LET Starts(i) ==
            /\ list[i] \in S
            /\ f[list[i]] \notin Foreign
            /\ \A n \in on : f[n] # f[list[i]]
            /\ \A j \in 1 .. i - 1 : list[j] \in S => f[list[j]] # f[list[i]]
    IN  on \cup {list[i] : i \in {j \in DOMAIN list : Starts(j)}}

\* PortService.stop for the listed mappings one after the other; it may raise, after the
\* service has stopped, and the rest are left as they are.
StopRaises(k) ==
    /\ faults < MaxFaults /\ faults' = faults + 1
    /\ k \in DOMAIN services /\ services[k] \in running
    /\ running' = running \ {services[i] : i \in 1 .. k}

StopAllDone == running' = running \ Listed /\ UNCHANGED faults

\* save_configs writes every listed mapping.  It may fail before it has emptied the file, or
\* after it has written some of them; a file that cannot be parsed loads like an empty one.
SaveDone == disk' = [i \in DOMAIN services' |-> port'[services'[i]]] /\ unsaved' = FALSE

SaveFails ==
    /\ faults < MaxFaults /\ faults' = faults + 1
    /\ \/ UNCHANGED disk
       \/ \E n \in 0 .. Len(services') : disk' = [i \in 1 .. n |-> port'[services'[i]]]
    /\ unsaved' = TRUE

Save == (SaveDone /\ UNCHANGED faults) \/ SaveFails

\* _load: a mapping for every port in the file; those with autostart, which the file may
\* say of any, are started; the first is selected.
Load(on) ==
    \E new \in [DOMAIN disk -> Maps \ on] : \E auto \in SUBSET DOMAIN disk :
        /\ IsInjective(new)
        /\ services' = new
        /\ port' = [m \in Maps |-> IF m \in on THEN port[m]
                    ELSE IF m \in Range(new)
                         THEN disk[CHOOSE i \in DOMAIN disk : new[i] = m] ELSE None]
        /\ running' = StartedAll(port', on, new, {new[i] : i \in auto})
        /\ selected' = IF new = << >> THEN None ELSE new[1]

\* _start_api: the server may be disabled or not installed, or its port taken.
StartApi == api \in BOOLEAN

\* ApiServer.stop: no request comes in any more; those that wait go on waiting.
StopApi == api' = FALSE

Init ==
    /\ disk \in {f \in SeqOf(Ports, Cardinality(Maps)) : IsInjective(f)}
    /\ services \in {f \in [DOMAIN disk -> Maps] : IsInjective(f)}
    /\ port = [m \in Maps |-> IF m \in Listed
                              THEN disk[CHOOSE i \in DOMAIN disk : services[i] = m] ELSE None]
    /\ \E auto \in SUBSET Listed : running = StartedAll(port, {}, services, auto)
    /\ selected = IF services = << >> THEN None ELSE services[1]
    /\ unsaved = FALSE
    /\ modal = NoModal
    /\ calls = << >> /\ current = None /\ box = None
    /\ op = [r \in Requests |-> None] /\ status = [r \in Requests |-> "idle"]
    /\ app = "open" /\ StartApi
    /\ faults = 0

-----------------------------------------------------------------------------
(***************************************************************************)
(* What a handler does to the list, up to its _save                        *)
(***************************************************************************)

\* add_port_config, as a new mapping m.
AddPortConfig(m, p) ==
    /\ m \in Unused
    /\ services' = Append(services, m)
    /\ port' = [port EXCEPT ![m] = p]
    /\ UNCHANGED running

\* Mutant: the changed mapping is put on the list again, as its card is.
UpdatePortConfigReappends(m, p) ==
    /\ port' = [port EXCEPT ![m] = p]
    /\ running' = IF m \in running THEN Started(port', running \ {m}, m) ELSE running
    /\ services' = Append(services, m)

\* update_port_config: a running mapping is stopped, changed and started again; that
\* the start fails is not told.
UpdatePortConfig(m, p) ==
    /\ port' = [port EXCEPT ![m] = p]
    /\ running' = IF m \in running THEN Started(port', running \ {m}, m) ELSE running
    /\ UNCHANGED services

\* The config of a removed mapping is of no use any more, unless the panel is to show it.
Forgotten(m) ==
    IF modal.kind = "saveFailed" /\ modal.subject = m THEN port[m] ELSE None

\* Mutant: the mapping is removed without being stopped.
RemovePortConfigRunning(m) ==
    /\ m \in Listed
    /\ services' = RemoveFirst(services, m)
    /\ port' = [port EXCEPT ![m] = Forgotten(m)]
    /\ selected' = IF selected # m THEN selected
                   ELSE IF services' = << >> THEN None ELSE services'[1]
    /\ UNCHANGED running

\* remove_port_config of a mapping that is on the list.
RemovePortConfig(m) ==
    /\ m \in Listed
    /\ services' = RemoveFirst(services, m)
    /\ running' = running \ {m}
    /\ port' = [port EXCEPT ![m] = Forgotten(m)]
    /\ selected' = IF selected # m THEN selected
                   ELSE IF services' = << >> THEN None ELSE services'[1]

\* stop() of one mapping raises, and with it the handler.
StopOneRaises(m) ==
    /\ faults < MaxFaults /\ faults' = faults + 1
    /\ m \in running
    /\ running' = running \ {m}
    /\ UNCHANGED <<services, port, selected, file>>

-----------------------------------------------------------------------------
(***************************************************************************)
(* The user.  The detail panel acts on the selected mapping.               *)
(***************************************************************************)

UiFree == app = "open" /\ current = None

UiIdle == UiFree /\ modal = NoModal

Rest == UNCHANGED <<loop, request, life>>

Select(m) ==
    /\ UiIdle
    /\ m \in Listed
    /\ selected' = m
    /\ UNCHANGED <<services, port, running, file, modal, faults>> /\ Rest

\* The dialog is given the configs there are when it opens.
OpenAdd ==
    /\ UiIdle
    /\ modal' = [kind |-> "add", subject |-> None, taken |-> {port[m] : m \in Listed}]
    /\ UNCHANGED <<table, file, faults>> /\ Rest

OpenEdit ==
    /\ UiIdle
    /\ selected # None
    /\ modal' = [kind |-> "edit", subject |-> selected,
                 taken |-> {port[m] : m \in Listed \ {selected}}]
    /\ UNCHANGED <<table, file, faults>> /\ Rest

AskRemove ==
    /\ UiIdle
    /\ selected # None
    /\ modal' = [NoModal EXCEPT !.kind = "remove", !.subject = selected]
    /\ UNCHANGED <<table, file, faults>> /\ Rest

AskReload ==
    /\ UiIdle
    /\ modal' = [NoModal EXCEPT !.kind = "reload"]
    /\ UNCHANGED <<table, file, faults>> /\ Rest

Cancel ==
    /\ UiFree
    /\ modal.kind \notin {"none", "saveFailed"}
    /\ modal' = NoModal
    /\ UNCHANGED <<table, file, faults>> /\ Rest

\* The dialog's Save, then the rest of _add_port.
SaveAdd(p) ==
    /\ UiFree
    /\ modal.kind = "add" /\ p \notin modal.taken
    /\ modal' = NoModal
    /\ \E m \in Maps : AddPortConfig(m, p) /\ selected' = m
    /\ Save
    /\ Rest

\* The dialog's Save, then the rest of _edit_port, which a failed save interrupts with its
\* message box.
SaveEdit(p) ==
    /\ UiFree
    /\ modal.kind = "edit" /\ p \notin modal.taken
    /\ \/ StopOneRaises(modal.subject) /\ modal' = NoModal
       \/ /\ UpdatePortConfig(modal.subject, p)
          /\ \/ /\ SaveDone /\ UNCHANGED faults
                /\ modal' = NoModal /\ selected' = modal.subject
             \/ /\ SaveFails /\ UNCHANGED selected
                /\ modal' = [NoModal EXCEPT !.kind = "saveFailed", !.subject = modal.subject]
    /\ Rest

\* The edited mapping is selected, whatever requests have made of it meanwhile.
DismissSaveFailed ==
    /\ UiFree
    /\ modal.kind = "saveFailed"
    /\ selected' = modal.subject
    /\ modal' = NoModal
    /\ UNCHANGED <<services, port, running, file, faults>> /\ Rest

\* Mutant: the file is not written.
ConfirmRemoveUnsaved ==
    /\ UiFree
    /\ modal.kind = "remove"
    /\ modal' = NoModal
    /\ RemovePortConfig(modal.subject)
    /\ UNCHANGED <<file, faults>>
    /\ Rest

\* Yes: services.remove raises ValueError when the mapping has been removed meanwhile.
ConfirmRemove ==
    /\ UiFree
    /\ modal.kind = "remove"
    /\ modal' = NoModal
    /\ \/ StopOneRaises(modal.subject)
       \/ RemovePortConfig(modal.subject) /\ Save
       \/ /\ modal.subject \notin Listed
          /\ running' = running \ {modal.subject}
          /\ UNCHANGED <<services, port, selected, file, faults>>
    /\ Rest

ConfirmReload ==
    /\ UiFree
    /\ modal.kind = "reload"
    /\ modal' = NoModal
    /\ \/ Load(running \ Listed) /\ UNCHANGED faults
       \/ \E k \in DOMAIN services : StopRaises(k) /\ UNCHANGED <<services, port, selected>>
    /\ UNCHANGED file /\ Rest

StartSelected ==
    /\ UiIdle
    /\ selected # None
    /\ running' = Started(port, running, selected)
    /\ UNCHANGED <<services, port, selected, file, modal, faults>> /\ Rest

StopSelected ==
    /\ UiIdle
    /\ running' = running \ {selected}
    /\ UNCHANGED <<services, port, selected, file, modal, faults>> /\ Rest

StartAll ==
    /\ UiIdle
    /\ running' = StartedAll(port, running, services, Listed)
    /\ UNCHANGED <<services, port, selected, file, modal, faults>> /\ Rest

StopAll ==
    /\ UiIdle
    /\ StopAllDone \/ \E k \in DOMAIN services : StopRaises(k)
    /\ UNCHANGED <<services, port, selected, file, modal>> /\ Rest

\* "Save configuration" of the menu.
SaveConfiguration ==
    /\ UiIdle
    /\ UNCHANGED <<table, modal>>
    /\ Save
    /\ Rest

\* _on_close: the API server is stopped first, with the Tk thread waiting.
Close ==
    /\ UiIdle
    /\ app' = "closing" /\ StopApi
    /\ UNCHANGED <<table, file, modal, loop, request, faults>>

CloseDone ==
    /\ app = "closing"
    /\ \/ /\ app' = "closed"
          /\ running' = running \ Listed
          /\ UNCHANGED <<services, port>>
          /\ Save
       \/ /\ app' = "open"
          /\ \E k \in DOMAIN services : StopRaises(k)
          /\ UNCHANGED <<services, port, file>>
    /\ UNCHANGED <<selected, modal, loop, request, api>>

-----------------------------------------------------------------------------
(***************************************************************************)
(* Requests: App.call_on_main and _tick                                    *)
(***************************************************************************)

\* A request thread puts its call into the queue and waits.
Post(r, o) ==
    /\ api
    /\ status[r] # "waiting" /\ r # current /\ r \notin Range(calls)
    /\ calls' = Append(calls, r)
    /\ op' = [op EXCEPT ![r] = o]
    /\ status' = [status EXCEPT ![r] = "waiting"]
    /\ UNCHANGED <<table, file, modal, current, box, life, faults>>

\* Five seconds have passed: 503, whatever becomes of the call.
GiveUp(r) ==
    /\ status[r] = "waiting"
    /\ status' = [status EXCEPT ![r] = "gaveUp"]
    /\ UNCHANGED <<table, file, modal, loop, op, life, faults>>

\* The requests that only look, at the mapping on port p or at all, are answered by the
\* request thread itself.
Look(r, p) ==
    /\ api
    /\ status[r] # "waiting" /\ r # current /\ r \notin Range(calls)
    /\ status' = [status EXCEPT ![r] = IF p = None \/ Lookup(p) # None
                                      THEN "ok" ELSE "refused"]
    /\ UNCHANGED <<table, file, modal, loop, op, life, faults>>

\* Mutant: the call that was put into the queue last is run first.
TickLast ==
    /\ UiFree
    /\ calls # << >>
    /\ current' = Last(calls) /\ calls' = Front(calls)
    /\ UNCHANGED <<table, file, modal, box, request, life, faults>>

\* _tick runs from the event loop, also from that of a dialog.
Tick ==
    /\ UiFree
    /\ calls # << >>
    /\ current' = Head(calls) /\ calls' = Tail(calls)
    /\ UNCHANGED <<table, file, modal, box, request, life, faults>>

Answer(res) ==
    /\ current' = None /\ box' = None
    /\ status' = [status EXCEPT ![current] = IF @ = "waiting" THEN res ELSE @]
    /\ op' = [op EXCEPT ![current] = None]

\* Inside the call, _save shows the message box that it failed.
SaveAndAnswer ==
    \/ SaveDone /\ UNCHANGED faults /\ Answer("ok")
    \/ SaveFails /\ box' = "ok" /\ UNCHANGED <<current, request>>

DismissBox ==
    /\ box # None
    /\ Answer(box)
    /\ UNCHANGED <<table, file, modal, calls, life, faults>>

Refuse == Answer("refused") /\ UNCHANGED <<table, file, faults>>

Running(kind) == current # None /\ box = None /\ op[current].kind = kind

Subject == Lookup(op[current].tcp)

CreatePort ==
    /\ Running("create")
    /\ IF Subject # None THEN Refuse
       ELSE /\ \E m \in Maps : AddPortConfig(m, op[current].tcp)
            /\ UNCHANGED selected
            /\ SaveAndAnswer
    /\ UNCHANGED <<modal, calls, life>>

\* Mutant: the new port is not looked up.
UpdatePortUnchecked ==
    /\ Running("update")
    /\ IF Subject = None THEN Refuse
       ELSE /\ UpdatePortConfig(Subject, op[current].to)
            /\ UNCHANGED selected
            /\ SaveAndAnswer
    /\ UNCHANGED <<modal, calls, life>>

UpdatePort ==
    /\ Running("update")
    /\ IF Subject = None \/ Lookup(op[current].to) \notin {None, Subject} THEN Refuse
       ELSE \/ StopOneRaises(Subject) /\ Answer("refused")
            \/ /\ UpdatePortConfig(Subject, op[current].to)
               /\ UNCHANGED selected
               /\ SaveAndAnswer
    /\ UNCHANGED <<modal, calls, life>>

DeletePort ==
    /\ Running("delete")
    /\ IF Subject = None THEN Refuse
       ELSE \/ StopOneRaises(Subject) /\ Answer("refused")
            \/ RemovePortConfig(Subject) /\ SaveAndAnswer
    /\ UNCHANGED <<modal, calls, life>>

StartPort ==
    /\ Running("start")
    /\ IF Subject = None THEN Refuse
       ELSE /\ running' = Started(port, running, Subject)
            /\ Answer(IF Subject \in running' THEN "ok" ELSE "refused")
            /\ UNCHANGED <<services, port, selected, file, faults>>
    /\ UNCHANGED <<modal, calls, life>>

StopPort ==
    /\ Running("stop")
    /\ IF Subject = None THEN Refuse
       ELSE \/ StopOneRaises(Subject) /\ Answer("refused")
            \/ /\ running' = running \ {Subject}
               /\ Answer("ok")
               /\ UNCHANGED <<services, port, selected, file, faults>>
    /\ UNCHANGED <<modal, calls, life>>

\* What could not be started is told in the body of the answer.
StartAllPorts ==
    /\ Running("startAll")
    /\ running' = StartedAll(port, running, services, Listed)
    /\ Answer(IF Listed \subseteq running' THEN "ok" ELSE "errors")
    /\ UNCHANGED <<services, port, selected, file, modal, calls, life, faults>>

StopAllPorts ==
    /\ Running("stopAll")
    /\ \/ StopAllDone /\ Answer("ok")
       \/ (\E k \in DOMAIN services : StopRaises(k)) /\ Answer("refused")
    /\ UNCHANGED <<services, port, selected, file, modal, calls, life>>

-----------------------------------------------------------------------------
User ==
    \/ \E m \in Maps : Select(m)
    \/ OpenAdd \/ OpenEdit \/ AskRemove \/ AskReload \/ Cancel
    \/ \E p \in Ports : SaveAdd(p) \/ SaveEdit(p)
    \/ DismissSaveFailed \/ ConfirmRemove \/ ConfirmReload
    \/ StartSelected \/ StopSelected \/ StartAll \/ StopAll
    \/ SaveConfiguration \/ Close \/ CloseDone \/ DismissBox

Api ==
    \/ \E r \in Requests :
          \/ GiveUp(r)
          \/ \E o \in Table!Ops : Post(r, o)
          \/ \E p \in Ports \cup {None} : Look(r, p)
    \/ Tick
    \/ CreatePort \/ UpdatePort \/ DeletePort \/ StartPort \/ StopPort
    \/ StartAllPorts \/ StopAllPorts

Next == User \/ Api

Spec == Init /\ [][Next]_vars

-----------------------------------------------------------------------------
(***************************************************************************)
(* Properties                                                              *)
(***************************************************************************)

\* No two mappings have one TCP port.
UniquePorts == \A i, j \in DOMAIN services : port[services[i]] = port[services[j]] => i = j

\* Whatever runs is on the list, where it can be stopped.
RunningIsListed == running \subseteq Listed

\* The file holds the list, in its order, unless the user has been told otherwise.
SavedIsCurrent == ~unsaved => disk = [i \in DOMAIN services |-> port[services[i]]]
=============================================================================
