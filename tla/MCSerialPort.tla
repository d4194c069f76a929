---------------------------- MODULE MCSerialPort ----------------------------
(***************************************************************************)
(* SerialPort on small instances.                                          *)
(***************************************************************************)
EXTENDS SerialPort, TLC

Symmetric == Permutations(Callers)

\* The device is there when the program starts.
PluggedInit == Init /\ plugged = TRUE

PluggedSpec == PluggedInit /\ [][Next]_vars
=============================================================================
