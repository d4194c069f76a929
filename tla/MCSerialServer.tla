--------------------------- MODULE MCSerialServer ---------------------------
(***************************************************************************)
(* SerialServer on small instances.                                        *)
(***************************************************************************)
EXTENDS SerialServer

\* Every connection comes from an address of its own.
OwnAddress == [c \in Conns |-> c]
=============================================================================
