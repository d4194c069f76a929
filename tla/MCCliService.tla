---------------------------- MODULE MCCliService ----------------------------
(***************************************************************************)
(* CliService on small instances.                                          *)
(***************************************************************************)
EXTENDS CliService, TLC

Symmetric == Permutations(Conns)

OwnAddress == [c \in Conns |-> c]

\* When the program leaves its loop the accept thread is at accept() with nobody in its
\* queue, and nobody comes from then on.
Orderly ==
    /\ main # "waiting" => \A c \in Conns : ~(conn[c] = "new" /\ conn'[c] = "backlog")
    /\ main = "waiting" /\ main' = "leaving" =>
          acc = "accept" /\ \A c \in Conns : conn[c] # "backlog"

\* Somebody has asked for the port between the count of a leaving client and the end of
\* its close(), or before the device was there.
VARIABLE hurried

Asks ==
    /\ \E c \in Conns : \/ cb[c] = "closing"
                        \/ cb[c] = "return" /\ pc[c] \notin Port!Resting
    /\ \E c \in Conns : conn[c] = "connecting" /\ cb[c] = "none" /\ cb'[c] = "opening"

OrderlyInit == Init /\ hurried = ~plugged
OrderlyNext == Next /\ Orderly /\ hurried' = (hurried \/ Asks)
OrderlySpec == OrderlyInit /\ [][OrderlyNext]_<<vars, hurried>>

\* How far a run follows it.  Either the device is there all the time, up to the start of a
\* reconnect thread, after which the properties promise nothing, or it is never there, and
\* the first reconnect thread is the only one.
Settled == plugged' = plugged /\ retries' <= IF plugged THEN 0 ELSE 1

SettledSpec == OrderlyInit /\ [][OrderlyNext /\ Settled]_<<vars, hurried>>

\* A client has the device, unless somebody asked for the port while a leaving client was
\* about to close it or closing it, or the device was missing when the program started.
PatientIsServed == ~hurried /\ faults = 0 => ClientIsServed
=============================================================================
