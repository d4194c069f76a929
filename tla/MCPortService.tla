---------------------------- MODULE MCPortService ----------------------------
(***************************************************************************)
(* PortService on small instances.                                         *)
(***************************************************************************)
EXTENDS PortService, TLC

OwnAddress == [c \in Conns |-> c]

\* Clients come only while the service is running, and when stop() is called the accept
\* thread is at accept() with nobody in its queue.
Orderly ==
    /\ ~running => \A c \in Conns : ~(conn[c] = "new" /\ conn'[c] = "backlog")
    /\ tk = "idle" /\ tk' = "stCancel" =>
          acc = "accept" /\ \A c \in Conns : conn[c] # "backlog"

\* The service is never stopped.
Kept == tk' # "stCancel"

\* Somebody has asked for the port between the look of a linger timer and the end of its
\* close(), or before the device was there.
VARIABLE hurried

Asks ==
    /\ \E t \in Timers : timer[t] = "closing" \/ pc[t] \notin Port!Resting
    /\ \/ tk = "lcOpen" /\ tk' # "lcOpen"
       \/ \E c \in Conns : cb[c] = "open" /\ cb'[c] # "open"

OrderlyInit == Init /\ hurried = ~plugged
OrderlyNext == Next /\ Orderly /\ hurried' = (hurried \/ Asks)

\* The timers are taken in a fixed order, which no step can tell from another.
InTurn ==
    \A t \in Timers : timer[t] = "none" /\ timer'[t] # "none"
                       => t = CHOOSE u \in Timers : timer[u] = "none"

\* The threads whose own steps come to an end.
StraightStep ==
    \/ PortStep
    \/ Tcp!StopStep /\ UNCHANGED <<portVars, service>>
    \/ \E c \in Conns : ClientCallback(c)
    \/ \E t \in Timers : TimerStep(t)
    \/ TkStep

\* Less than Fairness asks for, and quicker to check: among those threads one goes on.
ModestFairness ==
    /\ WF_vars(StraightStep)
    /\ WF_vars(Tcp!AcceptStep /\ UNCHANGED <<portVars, service>>)
    /\ \A c \in Conns : WF_vars(ClientStep(c) /\ UNCHANGED <<portVars, service>>)

LifeSpec == OrderlyInit /\ [][OrderlyNext /\ InTurn]_<<vars, hurried>> /\ ModestFairness

\* How far a run follows it.  Either the device is there all the time, up to the start of a
\* reconnect thread, after which the properties promise nothing, or it is never there, and
\* the first reconnect thread is the only one.
Settled == plugged' = plugged /\ retries' <= IF plugged THEN 0 ELSE 1

SettledSpec ==
    /\ OrderlyInit
    /\ [][OrderlyNext /\ InTurn /\ Settled]_<<vars, hurried>>
    /\ ModestFairness

\* A service that is kept and whose device is there.
KeptInit == OrderlyInit /\ plugged
KeptSpec == KeptInit /\ [][OrderlyNext /\ Kept]_<<vars, hurried>> /\ Fairness

\* A client that stays ends up served, unless somebody asked for the port while a linger
\* timer was about to close it or closing it, or the device was missing at the start.
PatientIsServed == []~hurried => ConsumerIsServed
=============================================================================
