---------------------------- MODULE MappingTable ----------------------------
(***************************************************************************)
(* What the port manager promises to those who use its control API: a set  *)
(* of mappings, each named by its TCP port, some of them running, and a    *)
(* copy of the set on disk.  A request that changes something is carried   *)
(* out in one step, at most once, and after those asked before it; its     *)
(* answer comes when it has been carried out, or after five seconds        *)
(* whatever becomes of it.  The user does the same things by hand.         *)
(* PortManager implements this; Ctl is a client of it.                     *)
(***************************************************************************)
EXTENDS Naturals, Sequences

CONSTANTS
    Ports,          \* TCP ports
    Foreign,        \* those another program listens on
    Requests,       \* threads of the API server
    None

VARIABLES
    table,          \* the TCP ports of the mappings
    on,             \* those of the running ones
    disk,           \* those in the config file
    queue,          \* the requests not carried out yet, in the order they were asked
    current,        \* the request that has been carried out and not answered
    box,            \* and its result
    op,             \* what each request asks for
    status          \* where each request thread is

ports == <<table, on, disk>>
asked == <<queue, current, box, op, status>>
vars  == <<ports, asked>>

\* The requests that change something, with the port in the path or the body and the one
\* an update asks for.
Ops == [kind : {"create", "delete", "start", "stop"}, tcp : Ports, to : {None}]
       \cup [kind : {"update"}, tcp : Ports, to : Ports]
       \cup [kind : {"startAll", "stopAll"}, tcp : {None}, to : {None}]

\* "errors": carried out, with errors in the body of the answer.
Results == {"ok", "errors", "refused"}

ASSUME MappingTableAssumption == None \notin Requests \cup Ops \cup Results

TypeOK ==
    /\ table \subseteq Ports /\ on \subseteq Ports /\ disk \subseteq Ports
    /\ queue \in Seq(Requests)
    /\ current \in Requests \cup {None}
    /\ box \in Results \cup {None}
    /\ op \in [Requests -> Ops \cup {None}]
    /\ status \in [Requests -> {"idle", "waiting", "gaveUp"} \cup Results]

-----------------------------------------------------------------------------
(***************************************************************************)
(* What each request does and what comes of it                             *)
(***************************************************************************)

Unchanged == UNCHANGED ports

\* Every change of the table is written to the file, which may fail before the file has been
\* emptied or after some of the table has been written.
Written == disk' = disk \/ disk' \in SUBSET table'

Create(p, res) ==
    \/ /\ res = "refused" /\ p \in table
       /\ Unchanged
    \/ /\ res = "ok" /\ p \notin table
       /\ table' = table \cup {p} /\ UNCHANGED on /\ Written

\* stop() may raise when the mapping has stopped: nothing more is done.
Raises(p, res) ==
    /\ res = "refused" /\ p \in on
    /\ on' = on \ {p} /\ UNCHANGED <<table, disk>>

\* Unless q is taken the mapping moves to it and is running if it was, and if it can.
Update(p, q, res) ==
    \/ /\ res = "refused" /\ (p \notin table \/ q \in table \ {p})
       /\ Unchanged
    \/ /\ q \notin table \ {p}
       /\ Raises(p, res)
    \/ /\ res = "ok" /\ p \in table /\ q \notin table \ {p}
       /\ table' = (table \ {p}) \cup {q}
       /\ on' = (on \ {p}) \cup (IF p \in on THEN {q} \ Foreign ELSE {})
       /\ Written

Delete(p, res) ==
    \/ /\ res = "refused" /\ p \notin table
       /\ Unchanged
    \/ Raises(p, res)
    \/ /\ res = "ok" /\ p \in table
       /\ table' = table \ {p} /\ on' = on \ {p} /\ Written

Start(p, res) ==
    \/ /\ res = "refused" /\ p \notin table \ Foreign
       /\ Unchanged
    \/ /\ res = "ok" /\ p \in table \ Foreign
       /\ on' = on \cup {p} /\ UNCHANGED <<table, disk>>

Stop(p, res) ==
    \/ /\ res = "refused" /\ p \notin table
       /\ Unchanged
    \/ Raises(p, res)
    \/ /\ res = "ok" /\ p \in table
       /\ on' = on \ {p} /\ UNCHANGED <<table, disk>>

\* The ports nobody else listens on are started, the others are told in the answer.
StartAll(res) ==
    /\ res = IF table \cap Foreign = {} THEN "ok" ELSE "errors"
    /\ on' = on \cup (table \ Foreign) /\ UNCHANGED <<table, disk>>

\* When a stop() raises, the mappings after it are left as they are.
StopAll(res) ==
    /\ \/ res = "ok" /\ on' = {}
       \/ res = "refused" /\ on' \in (SUBSET on) \ {on}
    /\ UNCHANGED <<table, disk>>

Do(o, res) ==
    \/ o.kind = "create" /\ Create(o.tcp, res)
    \/ o.kind = "update" /\ Update(o.tcp, o.to, res)
    \/ o.kind = "delete" /\ Delete(o.tcp, res)
    \/ o.kind = "start" /\ Start(o.tcp, res)
    \/ o.kind = "stop" /\ Stop(o.tcp, res)
    \/ o.kind = "startAll" /\ StartAll(res)
    \/ o.kind = "stopAll" /\ StopAll(res)

-----------------------------------------------------------------------------
(***************************************************************************)
(* Requests                                                                *)
(***************************************************************************)

\* Mutant: the request is carried out before those that wait.
AskFirst(r, o) ==
    /\ status[r] # "waiting" /\ op[r] = None
    /\ queue' = <<r>> \o queue
    /\ op' = [op EXCEPT ![r] = o]
    /\ status' = [status EXCEPT ![r] = "waiting"]
    /\ UNCHANGED <<ports, current, box>>

Ask(r, o) ==
    /\ status[r] # "waiting" /\ op[r] = None
    /\ queue' = Append(queue, r)
    /\ op' = [op EXCEPT ![r] = o]
    /\ status' = [status EXCEPT ![r] = "waiting"]
    /\ UNCHANGED <<ports, current, box>>

GiveUp(r) ==
    /\ status[r] = "waiting"
    /\ status' = [status EXCEPT ![r] = "gaveUp"]
    /\ UNCHANGED <<ports, queue, current, box, op>>

Answered(r, res) ==
    /\ status' = [status EXCEPT ![r] = IF @ = "waiting" THEN res ELSE @]
    /\ op' = [op EXCEPT ![r] = None]

\* The first request is carried out and answered; the answer may have to wait for the user.
Perform(res) ==
    /\ queue # << >> /\ current = None
    /\ queue' = Tail(queue)
    /\ Do(op[Head(queue)], res)
    /\ \/ Answered(Head(queue), res) /\ UNCHANGED <<current, box>>
       \/ /\ current' = Head(queue) /\ box' = res
          /\ UNCHANGED <<op, status>>

Answer ==
    /\ current # None
    /\ Answered(current, box)
    /\ current' = None /\ box' = None
    /\ UNCHANGED <<ports, queue>>

\* A request that only looks, at one mapping or (None) at all, is answered at once.
Look(r, p) ==
    /\ status[r] # "waiting" /\ op[r] = None
    /\ status' = [status EXCEPT ![r] = IF p \in table \cup {None} THEN "ok" ELSE "refused"]
    /\ UNCHANGED <<ports, queue, current, box, op>>

-----------------------------------------------------------------------------
(***************************************************************************)
(* The user                                                                *)
(***************************************************************************)

\* By hand, what a request would do.
Operate == \E o \in Ops : \E res \in Results : Do(o, res)

SaveAgain == UNCHANGED <<table, on>> /\ Written

\* What the file says replaces the table; the mappings marked for it are started.
Reload ==
    /\ table' = disk /\ UNCHANGED disk
    /\ on' \in SUBSET (disk \ Foreign)

Close == on' = {} /\ UNCHANGED table /\ Written

User ==
    /\ current = None
    /\ Operate \/ SaveAgain \/ Reload \/ Close
    /\ UNCHANGED asked

-----------------------------------------------------------------------------
Init ==
    /\ table \in SUBSET Ports /\ disk = table
    /\ on \in SUBSET (table \ Foreign)
    /\ queue = << >> /\ current = None /\ box = None
    /\ op = [r \in Requests |-> None] /\ status = [r \in Requests |-> "idle"]

Next ==
    \/ \E r \in Requests :
          \/ GiveUp(r)
          \/ \E o \in Ops : Ask(r, o)
          \/ \E p \in Ports \cup {None} : Look(r, p)
    \/ \E res \in Results : Perform(res)
    \/ Answer
    \/ User

Spec == Init /\ [][Next]_vars

-----------------------------------------------------------------------------
(***************************************************************************)
(* Properties                                                              *)
(***************************************************************************)

\* What runs is a mapping of the table, where it can be stopped, on a port that is free.
RunningIsListed == on \subseteq table \ Foreign
=============================================================================
