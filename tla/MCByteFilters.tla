--------------------------- MODULE MCByteFilters ---------------------------
(***************************************************************************)
(* ByteFilters on bounded inputs, and beside it EchoWrite.                 *)
(***************************************************************************)
EXTENDS ByteFilters, EchoWrite, TLC

\* Streams, lines and echoes have nothing in common: a behaviour is about one of them.
NoStream == stages[1] = << >> /\ ~asksStop /\ way = "input" /\ maps = << >>
NoLine   == line = << >>
NoEcho   == written = 0 /\ ~strange

Apart ==
    \/ NoLine /\ NoEcho /\ Transfer /\ UNCHANGED echoVars
    \/ NoStream /\ NoEcho /\ Display /\ UNCHANGED echoVars
    \/ NoStream /\ NoLine /\ EchoNext /\ UNCHANGED vars

ApartInit == Init /\ EchoInit

ApartSpec == ApartInit /\ [][Apart]_<<vars, echoVars>>
=============================================================================
