-------------------------------- MODULE Ctl --------------------------------
(***************************************************************************)
(* serial-tcp-ctl, gui/serialtcp_gui/cli.py: a script runs one command     *)
(* after the other against the control API and looks at their exit         *)
(* statuses.  A command is the list of the requests it sends, each when    *)
(* the one before has been answered.  A request may get lost, or its       *)
(* answer, and the client stops waiting for it after ten seconds or when   *)
(* the user says so; what has been sent is carried out all the same.  The  *)
(* other users of the table, with or without the API, are User of          *)
(* MappingTable.  Values the API would refuse and the output are left out. *)
(***************************************************************************)
EXTENDS MappingTable

CONSTANT MaxCommands    \* bound on the commands of the script

VARIABLES
    cmd,        \* the command that runs, with the ports its requests are for; None between two
    first,      \* the number of its first request
    sent,       \* all requests the script has sent
    waiting,    \* the command waits for the answer to the last of them
    flight,     \* the requests the API server has not taken up yet
    heard,      \* those whose answer the command got
    fate,       \* what came of each when it was carried out
    exits       \* the commands that have ended, with their requests and exit statuses

past    == <<first, sent, waiting, heard, exits>>
client  == <<cmd, past>>
ctlVars == <<vars, client, flight, fate>>

Contents == Ops \cup [kind : {"look"}, tcp : Ports \cup {None}, to : {None}]

\* Nothing to send: `set` without an option and `start` or `stop` of what is no port.
\* cmd_add with --start sends two requests, every other command one.
Commands ==
    {<< >>} \cup {<<o>> : o \in Contents}
    \cup {<<[kind |-> "create", tcp |-> p, to |-> None],
            [kind |-> "start", tcp |-> q, to |-> None]>> : p, q \in Ports}

\* Requests are numbered in the order they are sent.
ASSUME CtlAssumption ==
    /\ Requests \subseteq Nat \ {0}
    /\ MaxCommands \in Nat
    /\ None \notin Commands

Endings == [cmd : Commands, first : Nat \ {0}, last : Nat, code : {0, 1}]

CtlTypeOK ==
    /\ TypeOK
    /\ cmd \in Commands \cup {None}
    /\ first \in Nat \ {0}
    /\ sent \in Seq(Contents) /\ DOMAIN sent \subseteq Requests
    /\ waiting \in BOOLEAN /\ (waiting => cmd # None /\ first <= Len(sent))
    /\ flight \subseteq DOMAIN sent /\ heard \subseteq DOMAIN sent
    /\ fate \in [Requests -> Results \cup {None}]
    /\ exits \in Seq(Endings)

CtlInit ==
    /\ Init
    /\ cmd = None /\ first = 1
    /\ sent = << >> /\ waiting = FALSE
    /\ flight = {} /\ heard = {}
    /\ fate = [r \in Requests |-> None]
    /\ exits = << >>

-----------------------------------------------------------------------------
(***************************************************************************)
(* The client                                                              *)
(***************************************************************************)

Begin(c) ==
    /\ cmd = None
    /\ Len(exits) < MaxCommands
    /\ Len(c) = 2 => c[1].tcp = c[2].tcp
    /\ cmd' = c
    /\ first' = Len(sent) + 1
    /\ UNCHANGED <<vars, sent, waiting, heard, exits, flight, fate>>

\* How many of its requests the command has sent.
Progress == Len(sent) - first + 1

\* The start of `add --start` is for the port that the answer to the create names: the API
\* server puts it together when the call has been run, and others may have moved the mapping
\* by then.  (One that has taken over its port is followed likewise.)
Moved(q) ==
    /\ cmd # None /\ waiting /\ Len(cmd) = 2 /\ Progress = 1
    /\ fate[first] = "ok"
    /\ Update(cmd[2].tcp, q, "ok")
    /\ cmd' = [cmd EXCEPT ![2].tcp = q]

Follow == UNCHANGED cmd \/ \E q \in Ports : Moved(q)

\* Bound: there is a number left.
Send ==
    /\ cmd # None /\ ~waiting
    /\ Progress < Len(cmd) /\ Len(sent) + 1 \in Requests
    /\ sent' = Append(sent, cmd[Progress + 1])
    /\ flight' = flight \cup {Len(sent) + 1}
    /\ waiting' = TRUE
    /\ UNCHANGED <<vars, cmd, first, heard, exits, fate>>

Exit(code) ==
    /\ exits' = Append(exits, [cmd |-> cmd, first |-> first, last |-> Len(sent), code |-> code])
    /\ cmd' = None

\* Mutant: an error status of HTTP is taken for an answer like any other.
HearAnything ==
    /\ waiting /\ status[Len(sent)] \notin {"idle", "waiting"}
    /\ waiting' = FALSE
    /\ heard' = heard \cup {Len(sent)}
    /\ IF Progress < Len(cmd) THEN UNCHANGED <<cmd, exits>> ELSE Exit(0)
    /\ UNCHANGED <<vars, first, sent, flight, fate>>

\* The answer comes: the next request, or the end.
Hear ==
    /\ waiting /\ status[Len(sent)] \notin {"idle", "waiting"}
    /\ waiting' = FALSE
    /\ heard' = heard \cup {Len(sent)}
    /\ \/ status[Len(sent)] \in {"gaveUp", "refused"} /\ Exit(1)
       \/ status[Len(sent)] \in {"ok", "errors"} /\ Progress < Len(cmd) /\ UNCHANGED <<cmd, exits>>
       \/ status[Len(sent)] = "errors" /\ Progress = Len(cmd) /\ Exit(1)
       \/ status[Len(sent)] = "ok" /\ Progress = Len(cmd) /\ Exit(0)
    /\ UNCHANGED <<vars, first, sent, flight, fate>>

\* Mutant: the next command finds the answer to this one's request still awaited.
FailWaiting ==
    /\ cmd # None
    /\ Exit(1)
    /\ UNCHANGED <<vars, first, sent, waiting, heard, flight, fate>>

\* Nothing to send, no connection, no answer in time, one that cannot be read, or the user
\* interrupts.
Fail ==
    /\ cmd # None
    /\ waiting' = FALSE
    /\ Exit(1)
    /\ UNCHANGED <<vars, first, sent, heard, flight, fate>>

-----------------------------------------------------------------------------
(***************************************************************************)
(* The network and the server                                              *)
(***************************************************************************)

Lose(r) ==
    /\ r \in flight
    /\ flight' = flight \ {r}
    /\ UNCHANGED <<vars, client, fate>>

TakeUp(r) ==
    /\ r \in flight
    /\ flight' = flight \ {r}
    /\ IF sent[r].kind = "look"
       THEN /\ Look(r, sent[r].tcp)
            /\ fate' = [fate EXCEPT ![r] = status'[r]]
       ELSE Ask(r, sent[r]) /\ UNCHANGED fate
    /\ UNCHANGED client

CarryOut ==
    /\ \E res \in Results :
          Perform(res) /\ fate' = [fate EXCEPT ![Head(queue)] = res]
    /\ Follow
    /\ UNCHANGED <<past, flight>>

Others ==
    /\ Answer \/ User \/ \E r \in Requests : GiveUp(r)
    /\ Follow
    /\ UNCHANGED <<past, flight, fate>>

-----------------------------------------------------------------------------
CtlNext ==
    \/ \E c \in Commands : Begin(c)
    \/ Send \/ Hear \/ Fail
    \/ \E r \in Requests : Lose(r) \/ TakeUp(r)
    \/ CarryOut \/ Others

CtlSpec == CtlInit /\ [][CtlNext]_ctlVars

-----------------------------------------------------------------------------
(***************************************************************************)
(* Properties                                                              *)
(***************************************************************************)

\* A command that exits with 0 has sent its requests in order and each has been carried out
\* with success.
OkMeansDone ==
    \A n \in DOMAIN exits : exits[n].code = 0 =>
        /\ exits[n].last = exits[n].first + Len(exits[n].cmd) - 1
        /\ \A k \in DOMAIN exits[n].cmd :
              /\ sent[exits[n].first + k - 1] = exits[n].cmd[k]
              /\ fate[exits[n].first + k - 1] = "ok"

Changes(r) == sent[r].kind # "look"

\* A change that the script has got an answer to, be it that the application does not
\* respond, is not carried out after one the script has asked for later.
LaterWaits ==
    \A r \in heard : \A s \in DOMAIN sent :
        r < s /\ Changes(r) /\ Changes(s) /\ fate[s] # None => fate[r] # None
=============================================================================
