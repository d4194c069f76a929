---------------------------- MODULE MCPortManager ----------------------------
(***************************************************************************)
(* PortManager on small instances.                                         *)
(***************************************************************************)
EXTENDS PortManager

Symmetric == Permutations(Maps) \cup Permutations(Ports \ Foreign)

\* The list has changed while a dialog, or the box of an edit's failed save, was open.
VARIABLE overlapped

Overlaps == modal # NoModal /\ modal' = modal /\ <<services, port>>' # <<services, port>>

\* A request that only ever asks for everything to be started, and only behind another in
\* the queue and with no dialog open; the behaviour ends with its answer.
CONSTANT Latecomers

Behind ==
    \A r \in Latecomers :
        /\ status[r] \in {"idle", "waiting"}
        /\ op[r] = None /\ op'[r] # None => calls # << >> /\ op'[r].kind = "startAll"
        /\ op'[r] # None => modal' = NoModal
        /\ status'[r] # status[r] => op'[r] # op[r]

HistoryInit == Init /\ overlapped = FALSE

HistorySpec ==
    HistoryInit /\ [][/\ Next /\ Behind
                      /\ overlapped' = (overlapped \/ Overlaps)]_<<vars, overlapped>>

\* As long as no request changes the list under an open dialog, the mappings have ports of
\* their own and whatever runs is on the list.
TableSound == ~overlapped => UniquePorts /\ RunningIsListed

\* As long as that holds, everything the user and the requests do is a step of
\* MappingTable.
ImplementsTable ==
    Table!Init /\ [][overlapped' \/ Table!Next]_<<Table!vars>>
=============================================================================
