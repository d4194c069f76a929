----------------------------- MODULE CtlProofs -----------------------------
(***************************************************************************)
(* What MappingTable keeps, for any ports and any number of requests; and  *)
(* what an exit status of the client says, for scripts of any length.      *)
(***************************************************************************)
EXTENDS Ctl, TLAPS

-----------------------------------------------------------------------------
(***************************************************************************)
(* The table of mappings and the queue of requests                         *)
(***************************************************************************)

\* The requests that wait in the queue are different ones; they and the one in the box have
\* something to do.
QueueOK ==
    /\ \A i, j \in DOMAIN queue : queue[i] = queue[j] => i = j
    /\ \A i \in DOMAIN queue : op[queue[i]] # None /\ queue[i] # current
    /\ current # None => op[current] # None /\ box # None

TableInv == TypeOK /\ RunningIsListed /\ QueueOK

\* Whatever is done with a request, by hand or not, leaves the ports as they should be.
LEMMA DoKeeps ==
    ASSUME TypeOK, RunningIsListed, NEW o \in Ops, NEW res, Do(o, res)
    PROVE  /\ table' \subseteq Ports /\ on' \subseteq Ports /\ disk' \subseteq Ports
           /\ RunningIsListed'
<1> USE DEF TypeOK, RunningIsListed, Ops, Written, Unchanged, ports, Raises
<1>1. CASE o.kind = "create" /\ Create(o.tcp, res)   BY <1>1 DEF Create
<1>2. CASE o.kind = "update" /\ Update(o.tcp, o.to, res)   BY <1>2 DEF Update
<1>3. CASE o.kind = "delete" /\ Delete(o.tcp, res)   BY <1>3 DEF Delete
<1>4. CASE o.kind = "start" /\ Start(o.tcp, res)   BY <1>4 DEF Start
<1>5. CASE o.kind = "stop" /\ Stop(o.tcp, res)   BY <1>5 DEF Stop
<1>6. CASE o.kind = "startAll" /\ StartAll(res)   BY <1>6 DEF StartAll
<1>7. CASE o.kind = "stopAll" /\ StopAll(res)   BY <1>7 DEF StopAll
<1> QED BY <1>1, <1>2, <1>3, <1>4, <1>5, <1>6, <1>7 DEF Do

\* The first request of the queue has something to do.
LEMMA HeadAsks ==
    ASSUME TableInv, queue # << >>
    PROVE  Head(queue) \in Requests /\ op[Head(queue)] \in Ops
BY DEF TableInv, TypeOK, QueueOK

LEMMA InitTable == Init => TableInv
BY MappingTableAssumption DEF Init, TableInv, TypeOK, RunningIsListed, QueueOK

LEMMA AskKeeps ==
    ASSUME TableInv, NEW r \in Requests, NEW o \in Ops, Ask(r, o) PROVE TableInv'
<1> USE MappingTableAssumption DEF TableInv, TypeOK, Ask, ports
<1>1. TypeOK' /\ RunningIsListed'   BY DEF RunningIsListed
<1>2. o # None   BY DEF Ops
<1>3. QueueOK'   BY <1>2 DEF QueueOK
<1> QED BY <1>1, <1>3

LEMMA PerformKeeps ==
    ASSUME TableInv, NEW res \in Results, Perform(res) PROVE TableInv'
<1> DEFINE h == Head(queue)
<1>1. h \in Requests /\ op[h] \in Ops   BY HeadAsks DEF Perform
<1>2. /\ table' \subseteq Ports /\ on' \subseteq Ports /\ disk' \subseteq Ports
      /\ RunningIsListed'
  BY <1>1, DoKeeps DEF Perform, TableInv
<1>3. TypeOK'
  BY <1>1, <1>2 DEF TableInv, TypeOK, Perform, Answered
<1>4. /\ queue' \in Seq(Requests) /\ Len(queue') = Len(queue) - 1
      /\ \A i \in DOMAIN queue' : i + 1 \in DOMAIN queue /\ queue'[i] = queue[i + 1]
      /\ \A i \in DOMAIN queue' : queue'[i] # h
  BY DEF TableInv, TypeOK, QueueOK, Perform
<1>5. QueueOK'
  <2>1. \A i, j \in DOMAIN queue' : queue'[i] = queue'[j] => i = j
    BY <1>4 DEF TableInv, TypeOK, QueueOK
  <2>2. \A i \in DOMAIN queue' : op'[queue'[i]] # None /\ queue'[i] # current'
    BY <1>1, <1>4, MappingTableAssumption DEF TableInv, TypeOK, QueueOK, Perform, Answered
  <2>3. current' # None => op'[current'] # None /\ box' # None
    BY <1>1, MappingTableAssumption
    DEF TableInv, TypeOK, QueueOK, Perform, Answered, Results, Ops
  <2> QED BY <2>1, <2>2, <2>3 DEF QueueOK
<1> QED BY <1>2, <1>3, <1>5 DEF TableInv

LEMMA AnswerKeeps == ASSUME TableInv, Answer PROVE TableInv'
BY MappingTableAssumption
DEF TableInv, TypeOK, RunningIsListed, QueueOK, Answer, Answered, ports

\* Giving up and looking change nothing but where the request's thread is.
LEMMA StatusKeeps ==
    ASSUME TableInv, NEW r \in Requests, GiveUp(r) \/ \E p \in Ports \cup {None} : Look(r, p)
    PROVE  TableInv'
BY DEF TableInv, TypeOK, RunningIsListed, QueueOK, GiveUp, Look, ports, Results

LEMMA UserKeeps == ASSUME TableInv, User PROVE TableInv'
<1>1. /\ table' \subseteq Ports /\ on' \subseteq Ports /\ disk' \subseteq Ports
      /\ RunningIsListed'
  <2>1. CASE Operate   BY <2>1, DoKeeps DEF Operate, TableInv
  <2>2. CASE SaveAgain \/ Reload \/ Close
    BY <2>2 DEF TableInv, TypeOK, RunningIsListed, SaveAgain, Reload, Close, Written
  <2> QED BY <2>1, <2>2 DEF User
<1> QED BY <1>1 DEF User, asked, TableInv, TypeOK, QueueOK

LEMMA TableStutters == ASSUME TableInv, UNCHANGED vars PROVE TableInv'
BY DEF vars, ports, asked, TableInv, TypeOK, RunningIsListed, QueueOK

\* What runs is always a mapping of the table, where it can be stopped, on a port that was
\* free: no request, no failure of one and nothing the user does leaves a mapping running
\* that is not in the table.
THEOREM RunningListed == Spec => []RunningIsListed
<1>1. TableInv /\ [Next]_vars => TableInv'
  BY AskKeeps, PerformKeeps, AnswerKeeps, StatusKeeps, UserKeeps, TableStutters DEF Next
<1>2. TableInv => RunningIsListed   BY DEF TableInv
<1> QED BY InitTable, <1>1, <1>2, PTL DEF Spec

-----------------------------------------------------------------------------
(***************************************************************************)
(* The client and its script                                               *)
(***************************************************************************)

\* A request that has not reached the API server has left no trace there.
FreshOK ==
    \A r \in Requests : r \notin DOMAIN sent \/ r \in flight =>
        status[r] = "idle" /\ op[r] = None /\ fate[r] = None

\* The server does what has been sent, once; what it answers is what came of it.
FateOK ==
    /\ \A r \in Requests :
          /\ op[r] # None => r \in DOMAIN sent /\ op[r] = sent[r]
          /\ op[r] # None /\ r # current => fate[r] = None
          /\ status[r] \in Results => op[r] = None /\ fate[r] = status[r]
          /\ fate[r] = "errors" => r \in DOMAIN sent /\ sent[r].kind = "startAll"
    /\ current # None => fate[current] = box

\* The running command has sent the first of its requests, and all but the one it waits for
\* have succeeded.
CommandOK ==
    cmd # None =>
        /\ first <= Len(sent) + 1 /\ Progress <= Len(cmd)
        /\ \A k \in 1 .. Progress :
              /\ sent[first + k - 1] = cmd[k]
              /\ k < Progress \/ ~waiting => fate[first + k - 1] = "ok"

ExitsOK ==
    /\ OkMeansDone
    /\ \A n \in DOMAIN exits : exits[n].last <= Len(sent)

CtlInv == CtlTypeOK /\ TableInv /\ FreshOK /\ FateOK /\ CommandOK /\ ExitsOK

\* The queue keeps the order of the requests that have been answered.
OrderInv ==
    /\ \A r \in Requests :
          /\ op[r] # None /\ r # current => \E i \in DOMAIN queue : queue[i] = r
          /\ status[r] # "idle" /\ op[r] = None => fate[r] # None
    /\ \A r \in heard : status[r] # "idle"
    /\ \A i, j \in DOMAIN queue : queue[i] \in heard /\ queue[i] < queue[j] => i < j
    /\ LaterWaits

-----------------------------------------------------------------------------
(***************************************************************************)
(* The commands                                                            *)
(***************************************************************************)

LEMMA CommandIsList ==
    ASSUME NEW c \in Commands
    PROVE  /\ c \in Seq(Contents)
           /\ Len(c) > 1 => Len(c) = 2 /\ c[1].kind = "create"
<1>1. CASE c = << >>   BY <1>1
<1>2. CASE \E o \in Contents : c = <<o>>   BY <1>2
<1>3. CASE \E p, q \in Ports : c = <<[kind |-> "create", tcp |-> p, to |-> None],
                                     [kind |-> "start", tcp |-> q, to |-> None]>>
  BY <1>3 DEF Contents, Ops
<1> QED BY <1>1, <1>2, <1>3 DEF Commands

LEMMA InitCtl == CtlInit => CtlInv /\ OrderInv
<1> SUFFICES ASSUME CtlInit PROVE CtlInv /\ OrderInv
  OBVIOUS
<1>1. TableInv   BY InitTable DEF CtlInit
<1>2. CtlTypeOK
  <2>1. sent \in Seq(Contents) /\ exits \in Seq(Endings)   BY DEF CtlInit
  <2>2. fate \in [Requests -> Results \cup {None}]   BY DEF CtlInit
  <2>3. DOMAIN sent = {} /\ cmd = None /\ first = 1 /\ flight = {} /\ heard = {}
    BY DEF CtlInit
  <2>4. waiting = FALSE   BY DEF CtlInit
  <2>5. /\ cmd \in Commands \cup {None} /\ first \in Nat \ {0} /\ DOMAIN sent \subseteq Requests
        /\ flight \subseteq DOMAIN sent /\ heard \subseteq DOMAIN sent
    BY <2>3
  <2>6. waiting \in BOOLEAN /\ ~waiting   BY <2>4
  <2> QED BY <1>1, <2>1, <2>2, <2>5, <2>6 DEF CtlTypeOK, TableInv
<1>3. FreshOK /\ FateOK
  BY MappingTableAssumption DEF CtlInit, Init, FreshOK, FateOK, Results
<1>4. CommandOK /\ ExitsOK   BY DEF CtlInit, CommandOK, ExitsOK, OkMeansDone
<1>5. OrderInv   BY DEF CtlInit, Init, OrderInv, LaterWaits
<1> QED BY <1>1, <1>2, <1>3, <1>4, <1>5 DEF CtlInv

\* Steps of the client leave the server alone.
LEMMA ServerKept ==
    ASSUME CtlInv, UNCHANGED <<vars, fate>>
    PROVE  /\ TableInv' /\ TypeOK'
           /\ UNCHANGED <<queue, current, op, status, box>>
BY TableStutters DEF CtlInv, TableInv, vars, asked

LEMMA BeginKeeps == ASSUME CtlInv, OrderInv, NEW c \in Commands, Begin(c) PROVE CtlInv' /\ OrderInv'
<1>1. TableInv' /\ TypeOK' /\ UNCHANGED <<queue, current, op, status, box>>
  BY ServerKept DEF Begin
<1>2. CtlTypeOK'   BY <1>1 DEF CtlInv, CtlTypeOK, Begin
<1>3. FreshOK' /\ FateOK'   BY <1>1 DEF CtlInv, FreshOK, FateOK, Begin
<1>4. CommandOK'
  <2>1. c \in Seq(Contents) /\ sent \in Seq(Contents)   BY CommandIsList DEF CtlInv, CtlTypeOK
  <2>2. first' = Len(sent') + 1 /\ cmd' = c /\ sent' = sent   BY DEF Begin
  <2> QED BY <2>1, <2>2 DEF CommandOK, Progress
<1>5. ExitsOK'   BY DEF CtlInv, ExitsOK, OkMeansDone, Begin
<1>6. OrderInv'   BY <1>1 DEF OrderInv, LaterWaits, Changes, Begin
<1> QED BY <1>1, <1>2, <1>3, <1>4, <1>5, <1>6 DEF CtlInv

LEMMA SendKeeps == ASSUME CtlInv, OrderInv, Send PROVE CtlInv' /\ OrderInv'
<1> DEFINE n == Len(sent) + 1
<1>1. TableInv' /\ TypeOK' /\ UNCHANGED <<queue, current, op, status, box>>
  BY ServerKept DEF Send
<1>2. cmd \in Commands /\ cmd \in Seq(Contents)
  BY CommandIsList DEF CtlInv, CtlTypeOK, Send
<1>3. /\ first \in Nat \ {0} /\ sent \in Seq(Contents) /\ n \in Requests
      /\ DOMAIN sent \subseteq Requests /\ Progress + 1 \in DOMAIN cmd
      /\ first <= n /\ Progress \in Nat
  BY <1>2 DEF CtlInv, CtlTypeOK, CommandOK, Send, Progress
<1>4. /\ sent' \in Seq(Contents) /\ Len(sent') = n /\ DOMAIN sent' = DOMAIN sent \cup {n}
      /\ sent'[n] = cmd[Progress + 1] /\ \A k \in DOMAIN sent : sent'[k] = sent[k]
      /\ n \notin DOMAIN sent
  BY <1>2, <1>3 DEF Send
<1>5. CtlTypeOK'
  BY <1>1, <1>3, <1>4 DEF CtlInv, CtlTypeOK, Send
<1>6. FreshOK'   BY <1>1, <1>4, <1>3 DEF CtlInv, FreshOK, Send
<1>7. FateOK'   BY <1>1, <1>4 DEF CtlInv, FateOK, Send
<1>8. CommandOK'
  <2>1. Progress' = Progress + 1 /\ first' = first /\ cmd' = cmd /\ waiting' /\ fate' = fate
    BY <1>3, <1>4 DEF Progress, Send
  <2>2. first + Progress = n   BY <1>3 DEF Progress
  <2>3. \A k \in 1 .. Progress + 1 : sent'[first + k - 1] = cmd[k]
    BY <1>3, <1>4, <2>2 DEF CtlInv, CommandOK, Send
  <2>4. \A k \in 1 .. Progress : fate[first + k - 1] = "ok"
    BY DEF CtlInv, CommandOK, Send
  <2>5. Progress \in Nat /\ Len(cmd) \in Nat /\ Progress + 1 <= Len(cmd)   BY <1>2, <1>3
  <2>6. first' <= Len(sent') + 1   BY <1>3, <1>4, <2>1
  <2>7. \A k \in 1 .. Progress' :
            /\ sent'[first' + k - 1] = cmd'[k]
            /\ k < Progress' \/ ~waiting' => fate'[first' + k - 1] = "ok"
    BY <2>1, <2>3, <2>4, <2>5
  <2> QED BY <2>1, <2>5, <2>6, <2>7 DEF CommandOK
<1>9. ExitsOK'
  <2>1. \A m \in DOMAIN exits : exits[m].last <= Len(sent) /\ exits[m] \in Endings
    BY DEF CtlInv, CtlTypeOK, ExitsOK
  <2>2. \A m \in DOMAIN exits : exits[m].code = 0 =>
            \A k \in DOMAIN exits[m].cmd : exits[m].first + k - 1 \in DOMAIN sent
    <3> SUFFICES ASSUME NEW m \in DOMAIN exits, exits[m].code = 0,
                        NEW k \in DOMAIN exits[m].cmd
                 PROVE  exits[m].first + k - 1 \in DOMAIN sent
      OBVIOUS
    <3> DEFINE f == exits[m].first  l == exits[m].last  c == exits[m].cmd
    <3>1. c \in Seq(Contents) /\ f \in Nat \ {0} /\ l \in Nat
      BY <2>1, CommandIsList DEF Endings
    <3>2. l = f + Len(c) - 1
      BY DEF CtlInv, ExitsOK, OkMeansDone
    <3>3. k \in 1 .. Len(c) /\ Len(c) \in Nat   BY <3>1
    <3>4. sent \in Seq(Contents) /\ l <= Len(sent)   BY <1>3, <2>1
    <3>5. f + k - 1 \in 1 .. Len(sent)
      <4> HIDE DEF f, l, c
      <4> QED BY <3>1, <3>2, <3>3, <3>4
    <3> QED BY <3>4, <3>5
  <2>3. exits' = exits /\ fate' = fate /\ Len(sent) \in Nat   BY <1>3 DEF Send
  <2>4. OkMeansDone'   BY <1>4, <2>2, <2>3 DEF CtlInv, ExitsOK, OkMeansDone
  <2>5. \A m \in DOMAIN exits : exits[m].last <= Len(sent')
    BY <1>4, <2>1, <2>3 DEF Endings
  <2> QED BY <2>3, <2>4, <2>5 DEF ExitsOK
<1>10. OrderInv'
  BY <1>1, <1>3, <1>4 DEF OrderInv, LaterWaits, Changes, Send, CtlInv, FreshOK, CtlTypeOK
<1> QED BY <1>1, <1>5, <1>6, <1>7, <1>8, <1>9, <1>10 DEF CtlInv

\* The end of a command is entered with the status it deserves.
LEMMA ExitKeeps ==
    ASSUME CtlInv, cmd # None, NEW code \in {0, 1}, Exit(code), UNCHANGED <<sent, fate>>,
           code = 0 => /\ Progress = Len(cmd)
                       /\ \A k \in 1 .. Len(cmd) : fate[first + k - 1] = "ok"
    PROVE  exits' \in Seq(Endings) /\ ExitsOK' /\ cmd' = None
<1> DEFINE e == [cmd |-> cmd, first |-> first, last |-> Len(sent), code |-> code]
<1>1. /\ cmd \in Commands /\ cmd \in Seq(Contents) /\ sent \in Seq(Contents)
      /\ first \in Nat \ {0} /\ exits \in Seq(Endings)
  BY CommandIsList DEF CtlInv, CtlTypeOK
<1>2. e \in Endings   BY <1>1 DEF Endings
<1>3. /\ exits' \in Seq(Endings) /\ DOMAIN exits' = DOMAIN exits \cup {Len(exits) + 1}
      /\ exits'[Len(exits) + 1] = e /\ \A n \in DOMAIN exits : exits'[n] = exits[n]
  BY <1>1, <1>2 DEF Exit
<1>4. e.code = 0 => /\ e.last = e.first + Len(e.cmd) - 1
                    /\ \A k \in DOMAIN e.cmd : /\ sent[e.first + k - 1] = e.cmd[k]
                                              /\ fate[e.first + k - 1] = "ok"
  <2>1. Len(sent) \in Nat /\ Len(cmd) \in Nat /\ DOMAIN cmd = 1 .. Len(cmd)   BY <1>1
  <2>2. \A k \in 1 .. Progress : sent[first + k - 1] = cmd[k]   BY DEF CtlInv, CommandOK
  <2> QED BY <1>1, <2>1, <2>2 DEF Progress
<1>5. OkMeansDone'
  BY <1>3, <1>4 DEF CtlInv, ExitsOK, OkMeansDone
<1>6. \A n \in DOMAIN exits' : exits'[n].last <= Len(sent')
  BY <1>1, <1>3 DEF CtlInv, ExitsOK
<1> QED BY <1>3, <1>5, <1>6 DEF ExitsOK, Exit

LEMMA FailKeeps == ASSUME CtlInv, OrderInv, Fail PROVE CtlInv' /\ OrderInv'
<1>1. TableInv' /\ TypeOK' /\ UNCHANGED <<queue, current, op, status, box>>
  BY ServerKept DEF Fail
<1>2. exits' \in Seq(Endings) /\ ExitsOK' /\ cmd' = None   BY ExitKeeps DEF Fail
<1>3. CtlTypeOK'   BY <1>1, <1>2 DEF CtlInv, CtlTypeOK, Fail
<1>4. FreshOK' /\ FateOK'   BY <1>1 DEF CtlInv, FreshOK, FateOK, Fail
<1>5. CommandOK'   BY <1>2 DEF CommandOK
<1>6. OrderInv'   BY <1>1 DEF OrderInv, LaterWaits, Changes, Fail
<1> QED BY <1>1, <1>2, <1>3, <1>4, <1>5, <1>6 DEF CtlInv

LEMMA HearKeeps == ASSUME CtlInv, OrderInv, Hear PROVE CtlInv' /\ OrderInv'
<1> DEFINE r == Len(sent)
<1>1. TableInv' /\ TypeOK' /\ UNCHANGED <<queue, current, op, status, box>>
  BY ServerKept DEF Hear
<1>2. /\ cmd # None /\ cmd \in Commands /\ cmd \in Seq(Contents) /\ sent \in Seq(Contents)
      /\ first \in Nat \ {0} /\ first <= r /\ r \in DOMAIN sent /\ r \in Requests /\ r \in Nat
  BY CommandIsList DEF CtlInv, CtlTypeOK, Hear
<1>3. Progress \in 1 .. Len(cmd) /\ first + Progress - 1 = r /\ Len(cmd) \in Nat
  BY <1>2 DEF CtlInv, CommandOK, Progress
<1>4. \A k \in 1 .. Progress : k < Progress => fate[first + k - 1] = "ok"
  BY <1>2 DEF CtlInv, CommandOK
<1>5. status[r] \in {"gaveUp", "ok", "errors", "refused"}
  BY <1>2 DEF CtlInv, CtlTypeOK, TypeOK, Hear, Results
<1>6. status[r] \in Results => fate[r] = status[r]
  <2> HIDE DEF r
  <2> QED BY <1>2 DEF CtlInv, FateOK
<1>7. ASSUME status[r] \in {"ok", "errors"}, Progress < Len(cmd), UNCHANGED <<cmd, exits>>
      PROVE  CtlTypeOK' /\ CommandOK' /\ ExitsOK'
  <2>1. UNCHANGED <<cmd, exits, first, sent, fate, flight>> /\ ~waiting'   BY <1>7 DEF Hear
  <2>2. sent[r].kind # "startAll"
    <3>1. sent[r] = cmd[1]
      <4>1. Len(cmd) = 2   BY <1>2, <1>3, <1>7, CommandIsList
      <4>2. Progress = 1
        <5> HIDE DEF Progress, r
        <5> QED BY <1>3, <1>7, <4>1
      <4> QED BY <1>2, <1>3, <4>2 DEF CtlInv, CommandOK
    <3> QED BY <1>2, <1>3, <1>7, <3>1, CommandIsList
  <2>3. fate[r] = "ok"   BY <1>2, <1>6, <1>7, <2>2 DEF CtlInv, FateOK, Results
  <2>4. CommandOK'
    <3>1. Progress' = Progress   BY <2>1 DEF Progress
    <3>2. \A k \in 1 .. Progress : fate[first + k - 1] = "ok"
      <4> TAKE k \in 1 .. Progress
      <4>1. CASE k < Progress   BY <1>4, <4>1
      <4>2. CASE k = Progress   BY <1>3, <2>3, <4>2
      <4> QED BY <1>3, <4>1, <4>2
    <3> QED BY <1>2, <2>1, <3>1, <3>2 DEF CtlInv, CommandOK
  <2>5. CtlTypeOK'   BY <1>1, <1>2, <2>1 DEF CtlInv, CtlTypeOK, Hear
  <2>6. ExitsOK'   BY <2>1 DEF CtlInv, ExitsOK, OkMeansDone
  <2> QED BY <2>4, <2>5, <2>6
<1>8. ASSUME NEW code \in {0, 1}, Exit(code),
             code = 0 => status[r] = "ok" /\ Progress = Len(cmd)
      PROVE  CtlTypeOK' /\ CommandOK' /\ ExitsOK'
  <2>1. code = 0 => /\ Progress = Len(cmd)
                    /\ \A k \in 1 .. Len(cmd) : fate[first + k - 1] = "ok"
    <3> SUFFICES ASSUME code = 0, NEW k \in 1 .. Len(cmd)
                 PROVE  Progress = Len(cmd) /\ fate[first + k - 1] = "ok"
      BY <1>8
    <3>1. CASE k < Progress   BY <1>4, <1>8, <3>1
    <3>2. CASE k = Progress   BY <1>3, <1>6, <1>8, <3>2 DEF Results
    <3> QED BY <1>3, <1>8, <3>1, <3>2
  <2>2. exits' \in Seq(Endings) /\ ExitsOK' /\ cmd' = None
    BY <1>2, <1>8, <2>1, ExitKeeps DEF Hear
  <2>3. CommandOK'   BY <2>2 DEF CommandOK
  <2>4. CtlTypeOK'   BY <1>1, <1>2, <2>2 DEF CtlInv, CtlTypeOK, Hear
  <2> QED BY <2>2, <2>3, <2>4
<1>9. FreshOK' /\ FateOK'   BY <1>1 DEF CtlInv, FreshOK, FateOK, Hear
<1>10. OrderInv'
  <2>1. /\ heard' = heard \cup {r} /\ sent' = sent /\ fate' = fate /\ status[r] # "idle"
        /\ \A s \in DOMAIN sent : s \in Nat /\ ~(r < s) /\ r \in Nat
    BY <1>2 DEF Hear
  <2>2. \A i \in DOMAIN queue : queue[i] \in DOMAIN sent
    BY DEF CtlInv, TableInv, TypeOK, QueueOK, FateOK
  <2> QED BY <1>1, <2>1, <2>2 DEF OrderInv, LaterWaits, Changes
<1>11. CtlTypeOK' /\ CommandOK' /\ ExitsOK'
  <2>1. \/ status[r] \in {"ok", "errors"} /\ Progress < Len(cmd) /\ UNCHANGED <<cmd, exits>>
        \/ Exit(1)
        \/ Exit(0) /\ status[r] = "ok" /\ Progress = Len(cmd)
    BY DEF Hear
  <2>2. CASE Exit(1)   BY <1>8, <2>2
  <2>3. CASE Exit(0) /\ status[r] = "ok" /\ Progress = Len(cmd)   BY <1>8, <2>3
  <2>4. CASE /\ status[r] \in {"ok", "errors"} /\ Progress < Len(cmd)
             /\ UNCHANGED <<cmd, exits>>
    BY <1>7, <2>4
  <2> QED BY <2>1, <2>2, <2>3, <2>4
<1> QED BY <1>1, <1>9, <1>10, <1>11 DEF CtlInv

\* Whatever becomes of the server, the client's own part holds as long as what has
\* succeeded stays so.
LEMMA ClientKept ==
    ASSUME CtlInv, Follow, UNCHANGED past, \A r \in Requests : fate[r] = "ok" => fate'[r] = "ok"
    PROVE  /\ CommandOK' /\ ExitsOK'
           /\ cmd' \in Commands \cup {None} /\ (cmd # None => cmd' # None)
<1>1. /\ UNCHANGED <<first, sent, waiting, exits>> /\ UNCHANGED Progress
      /\ sent \in Seq(Contents) /\ DOMAIN sent \subseteq Requests /\ first \in Nat \ {0}
      /\ exits \in Seq(Endings) /\ cmd \in Commands \cup {None}
  BY DEF past, CtlInv, CtlTypeOK, Progress
<1>2. CommandOK' /\ cmd' \in Commands \cup {None} /\ (cmd # None => cmd' # None)
  <2>1. cmd # None => \A k \in 1 .. Progress : first + k - 1 \in Requests
    BY <1>1 DEF CtlInv, CommandOK, Progress
  <2>2. CASE cmd' = cmd   BY <1>1, <2>1, <2>2 DEF CtlInv, CommandOK
  <2>3. ASSUME NEW q \in Ports, Moved(q) PROVE CommandOK' /\ cmd' \in Commands
    <3>1. cmd \in Commands /\ cmd # None /\ Len(cmd) = 2 /\ Progress = 1
      BY <1>1, <2>3 DEF Moved
    <3>2. PICK p \in Ports, o \in Ports : cmd = <<[kind |-> "create", tcp |-> p, to |-> None],
                                              [kind |-> "start", tcp |-> o, to |-> None]>>
      BY <3>1 DEF Commands
    <3>3. cmd' = <<[kind |-> "create", tcp |-> p, to |-> None],
                  [kind |-> "start", tcp |-> q, to |-> None]>>
      BY <2>3, <3>2 DEF Moved
    <3>4. cmd' \in Commands   BY <3>3 DEF Commands
    <3>5. Len(cmd') = 2 /\ cmd'[1] = cmd[1]   BY <3>2, <3>3
    <3>6. \A k \in 1 .. 1 : k = 1   OBVIOUS
    <3>7. CommandOK'
      BY <1>1, <2>1, <3>1, <3>5, <3>6 DEF CtlInv, CommandOK
    <3> QED BY <3>4, <3>7
  <2> QED BY <1>1, <2>2, <2>3, CtlAssumption DEF Follow
<1>3. ASSUME NEW n \in DOMAIN exits, exits[n].code = 0, NEW k \in DOMAIN exits[n].cmd
      PROVE  exits[n].first + k - 1 \in Requests
  <2> DEFINE f == exits[n].first  l == exits[n].last  c == exits[n].cmd
  <2>0. exits[n] \in Endings   BY <1>1, <1>3
  <2>1. c \in Seq(Contents) /\ f \in Nat \ {0} /\ l \in Nat /\ Len(sent) \in Nat
    BY <1>1, <2>0, CommandIsList DEF Endings
  <2>2. l = f + Len(c) - 1 /\ l <= Len(sent)   BY <1>3 DEF CtlInv, ExitsOK, OkMeansDone
  <2>3. k \in 1 .. Len(c) /\ Len(c) \in Nat   BY <1>3, <2>1
  <2>4. f + k - 1 \in 1 .. Len(sent)
    <3> HIDE DEF f, l, c
    <3> QED BY <2>1, <2>2, <2>3
  <2> QED BY <1>1, <2>4
<1>4. ExitsOK'   BY <1>1, <1>3 DEF CtlInv, ExitsOK, OkMeansDone
<1> QED BY <1>2, <1>4

LEMMA LoseKeeps ==
    ASSUME CtlInv, OrderInv, NEW r \in Requests, Lose(r) PROVE CtlInv' /\ OrderInv'
<1>1. TableInv' /\ TypeOK' /\ UNCHANGED <<queue, current, op, status, box>>
  BY ServerKept DEF Lose
<1>2. CommandOK' /\ ExitsOK'   BY ClientKept DEF Lose, client, Follow
<1>3. CtlTypeOK'   BY <1>1 DEF CtlInv, CtlTypeOK, Lose, client, past
<1>4. FreshOK' /\ FateOK'   BY <1>1 DEF CtlInv, FreshOK, FateOK, Lose, client, past
<1>5. OrderInv'   BY <1>1 DEF OrderInv, LaterWaits, Changes, Lose, client, past
<1> QED BY <1>1, <1>2, <1>3, <1>4, <1>5 DEF CtlInv

LEMMA TakeUpKeeps ==
    ASSUME CtlInv, OrderInv, NEW r \in Requests, TakeUp(r) PROVE CtlInv' /\ OrderInv'
<1>1. /\ r \in flight /\ flight' = flight \ {r} /\ r \in DOMAIN sent /\ sent[r] \in Contents
      /\ status[r] = "idle" /\ op[r] = None /\ fate[r] = None /\ r \notin heard
      /\ UNCHANGED <<cmd, first, sent, waiting, heard, exits>>
  BY DEF TakeUp, CtlInv, CtlTypeOK, FreshOK, OrderInv, client, past
<1>2. CASE sent[r].kind = "look"
  <2>1. PICK res \in {"ok", "refused"} : /\ status' = [status EXCEPT ![r] = res]
                                       /\ fate' = [fate EXCEPT ![r] = res]
                                       /\ UNCHANGED <<ports, queue, current, box, op>>
    BY <1>2 DEF TakeUp, Look, CtlInv, CtlTypeOK, TypeOK
  <2>2. TableInv' /\ TypeOK'
    BY <2>1 DEF ports, CtlInv, TableInv, TypeOK, RunningIsListed, QueueOK, Results
  <2>3. CtlTypeOK'   BY <1>1, <2>1, <2>2 DEF CtlInv, CtlTypeOK, Results
  <2>4. FreshOK' /\ FateOK'
    <3>1. r # current   BY <1>1, MappingTableAssumption DEF CtlInv, TableInv, QueueOK
    <3>2. status \in [Requests -> {"idle", "waiting", "gaveUp"} \cup Results]
          /\ fate \in [Requests -> Results \cup {None}]
      BY DEF CtlInv, CtlTypeOK, TypeOK
    <3>3. FreshOK'   BY <1>1, <2>1, <3>2 DEF CtlInv, FreshOK
    <3>4. FateOK'   BY <1>1, <2>1, <3>1, <3>2 DEF CtlInv, FateOK
    <3> QED BY <3>3, <3>4
  <2>5. CommandOK' /\ ExitsOK'
    <3>1. \A s \in Requests : fate[s] = "ok" => fate'[s] = "ok"
      BY <1>1, <2>1, MappingTableAssumption DEF CtlInv, CtlTypeOK, Results
    <3> QED BY <1>1, <3>1, ClientKept DEF past, Follow
  <2>6. OrderInv'
    BY <1>1, <1>2, <2>1, MappingTableAssumption
    DEF OrderInv, LaterWaits, Changes, CtlInv, CtlTypeOK, TypeOK, Results
  <2> QED BY <2>2, <2>3, <2>4, <2>5, <2>6 DEF CtlInv
<1>3. CASE sent[r].kind # "look"
  <2>1. Ask(r, sent[r]) /\ UNCHANGED fate   BY <1>3 DEF TakeUp
  <2>2. sent[r] \in Ops   BY <1>1, <1>3 DEF Contents
  <2>3. TableInv' /\ TypeOK'   BY <2>1, <2>2, AskKeeps DEF CtlInv, TableInv
  <2>4. CtlTypeOK'   BY <1>1, <2>1, <2>3 DEF CtlInv, CtlTypeOK
  <2>5. FreshOK' /\ FateOK'
    BY <1>1, <2>1, <2>2, MappingTableAssumption
    DEF CtlInv, CtlTypeOK, TypeOK, FreshOK, FateOK, Ask, Results
  <2>6. CommandOK' /\ ExitsOK'   BY <1>1, <2>1, ClientKept DEF past, Follow
  <2>7. OrderInv'
    <3>1. /\ queue \in Seq(Requests) /\ Len(queue') = Len(queue) + 1
          /\ queue'[Len(queue) + 1] = r /\ \A i \in DOMAIN queue : queue'[i] = queue[i]
          /\ DOMAIN queue' = DOMAIN queue \cup {Len(queue) + 1}
      BY <2>1 DEF Ask, CtlInv, CtlTypeOK, TypeOK
    <3>2. /\ op' = [op EXCEPT ![r] = sent[r]] /\ status' = [status EXCEPT ![r] = "waiting"]
          /\ current' = current
      BY <2>1 DEF Ask
    <3>3. \A s \in Requests : op'[s] # None /\ s # current' =>
              \E i \in DOMAIN queue' : queue'[i] = s
      BY <3>1, <3>2 DEF OrderInv, CtlInv, CtlTypeOK, TypeOK
    <3>4. \A s \in Requests : status'[s] # "idle" /\ op'[s] = None => fate[s] # None
      BY <1>1, <2>2, <3>2, MappingTableAssumption DEF OrderInv, CtlInv, CtlTypeOK, TypeOK
    <3>5. \A i, j \in DOMAIN queue' :
              queue'[i] \in heard /\ queue'[i] < queue'[j] => i < j
      BY <1>1, <3>1 DEF OrderInv
    <3>6. \A s \in heard : status'[s] # "idle"
      BY <1>1, <3>2 DEF OrderInv, CtlInv, CtlTypeOK, TypeOK
    <3> QED BY <1>1, <2>1, <3>3, <3>4, <3>5, <3>6 DEF OrderInv, LaterWaits, Changes
  <2> QED BY <2>3, <2>4, <2>5, <2>6, <2>7 DEF CtlInv
<1> QED BY <1>2, <1>3

LEMMA CarryOutKeeps == ASSUME CtlInv, OrderInv, CarryOut PROVE CtlInv' /\ OrderInv'
<1> DEFINE h == Head(queue)
<1>1. PICK res \in Results : Perform(res) /\ fate' = [fate EXCEPT ![h] = res]
  BY DEF CarryOut
<1>2. UNCHANGED <<past, first, sent, waiting, heard, exits, flight>>   BY DEF CarryOut, past
<1>3. TableInv' /\ TypeOK'   BY <1>1, PerformKeeps DEF CtlInv, TableInv
<1>4. /\ queue # << >> /\ queue \in Seq(Requests) /\ current = None
      /\ h \in Requests /\ op[h] \in Ops /\ op[h] # None /\ h # None
  BY <1>1, HeadAsks, MappingTableAssumption
  DEF Perform, CtlInv, CtlTypeOK, TypeOK, TableInv, QueueOK
<1>5. /\ fate[h] = None /\ status[h] \notin Results /\ h \in DOMAIN sent /\ op[h] = sent[h]
      /\ h \notin flight
      /\ status[h] # "idle" \/ h \notin heard
  BY <1>4 DEF CtlInv, FateOK, FreshOK, OrderInv
<1>6. res = "errors" => op[h].kind = "startAll"
  BY <1>1, <1>4 DEF Perform, Do, Create, Update, Delete, Start, Stop, StopAll, Raises, Ops
<1>7. /\ fate \in [Requests -> Results \cup {None}] /\ fate' \in [Requests -> Results \cup {None}]
      /\ op \in [Requests -> Ops \cup {None}] /\ sent' = sent /\ res # None
      /\ status \in [Requests -> {"idle", "waiting", "gaveUp"} \cup Results]
  BY <1>1, <1>2, <1>4, MappingTableAssumption DEF CtlInv, CtlTypeOK, TypeOK
<1>8. \/ /\ status' = [status EXCEPT ![h] = IF @ = "waiting" THEN res ELSE @]
         /\ op' = [op EXCEPT ![h] = None] /\ current' = current /\ box' = box
      \/ status' = status /\ op' = op /\ current' = h /\ box' = res
  BY <1>1 DEF Perform, Answered
<1>9. /\ CommandOK' /\ ExitsOK'
      /\ cmd' \in Commands \cup {None} /\ (cmd # None => cmd' # None)
  <2>1. \A s \in Requests : fate[s] = "ok" => fate'[s] = "ok"
    BY <1>1, <1>5, <1>7, MappingTableAssumption DEF Results
  <2> QED BY <1>2, <2>1, ClientKept DEF CarryOut
<1>12. CtlTypeOK'   BY <1>2, <1>3, <1>7, <1>9 DEF CtlInv, CtlTypeOK
<1>10. FreshOK'   BY <1>1, <1>2, <1>4, <1>5, <1>7, <1>8 DEF CtlInv, FreshOK
<1>11. FateOK'
  <2>1. \A r \in Requests : r # h => fate'[r] = fate[r] /\ op'[r] = op[r] /\ status'[r] = status[r]
    BY <1>1, <1>4, <1>7, <1>8
  <2>2. fate'[h] = res   BY <1>1, <1>4, <1>7
  <2>3. CASE status' = status /\ op' = op /\ current' = h /\ box' = res
    <3> SUFFICES ASSUME NEW r \in Requests
                 PROVE  /\ op[r] # None => r \in DOMAIN sent /\ op[r] = sent[r]
                        /\ op[r] # None /\ r # h => fate'[r] = None
                        /\ status[r] \in Results => op[r] = None /\ fate'[r] = status[r]
                        /\ fate'[r] = "errors" => r \in DOMAIN sent /\ sent[r].kind = "startAll"
      BY <1>2, <2>2, <2>3 DEF FateOK
    <3>1. CASE r = h   BY <1>4, <1>5, <1>6, <2>2, <3>1
    <3>2. CASE r # h   BY <1>4, <2>1, <3>2, MappingTableAssumption DEF CtlInv, FateOK
    <3> QED BY <3>1, <3>2
  <2>4. CASE /\ status' = [status EXCEPT ![h] = IF @ = "waiting" THEN res ELSE @]
             /\ op' = [op EXCEPT ![h] = None] /\ current' = current /\ box' = box
    <3>1. op'[h] = None /\ (status'[h] = res \/ status'[h] = status[h]) /\ current' = None
      BY <1>4, <1>7, <2>4
    <3> QED BY <1>2, <1>4, <1>5, <1>6, <1>7, <2>1, <2>2, <3>1 DEF CtlInv, FateOK
  <2> QED BY <1>8, <2>3, <2>4
<1>13. OrderInv'
  <2>1. /\ Len(queue') = Len(queue) - 1 /\ Len(queue) \in Nat \ {0} /\ queue[1] = h
        /\ \A i \in DOMAIN queue' : i \in Nat /\ i + 1 \in DOMAIN queue /\ queue'[i] = queue[i + 1]
        /\ \A i \in DOMAIN queue : i # 1 => i - 1 \in DOMAIN queue' /\ i \in Nat \ {0}
    BY <1>1, <1>4 DEF Perform
  <2>2. \A r \in Requests : op'[r] # None /\ r # current' =>
            \E i \in DOMAIN queue' : queue'[i] = r
    <3> SUFFICES ASSUME NEW r \in Requests, op'[r] # None, r # current'
                 PROVE  \E i \in DOMAIN queue' : queue'[i] = r
      OBVIOUS
    <3>1. r # h /\ op[r] # None   BY <1>4, <1>7, <1>8
    <3>2. PICK i \in DOMAIN queue : queue[i] = r
      BY <1>4, <3>1, MappingTableAssumption DEF OrderInv
    <3>3. i # 1   BY <2>1, <3>1, <3>2
    <3> QED BY <2>1, <3>2, <3>3
  <2>3. \A r \in Requests : status'[r] # "idle" /\ op'[r] = None => fate'[r] # None
    BY <1>1, <1>4, <1>7, <1>8 DEF OrderInv
  <2>4. \A r \in heard : status'[r] # "idle"
    <3> SUFFICES ASSUME NEW r \in heard PROVE status'[r] # "idle"
      OBVIOUS
    <3>1. r \in Requests /\ status[r] # "idle"   BY DEF CtlInv, CtlTypeOK, OrderInv
    <3> QED BY <1>4, <1>7, <1>8, <3>1 DEF Results
  <2>5. \A i, j \in DOMAIN queue' :
            queue'[i] \in heard /\ queue'[i] < queue'[j] => i < j
    BY <2>1 DEF OrderInv
  <2>6. LaterWaits'
    <3> SUFFICES ASSUME NEW r \in heard, NEW s \in DOMAIN sent, r < s, Changes(r), Changes(s),
                        fate'[s] # None, fate'[r] = None
                 PROVE  FALSE
      BY <1>2 DEF LaterWaits, Changes
    <3>1. r \in Requests /\ s \in Requests /\ r # h /\ fate[r] = None
      BY <1>1, <1>4, <1>7 DEF CtlInv, CtlTypeOK
    <3>2. s = h   BY <1>1, <1>7, <3>1 DEF OrderInv, LaterWaits
    <3>3. op[r] # None   BY <3>1 DEF OrderInv
    <3>4. PICK i \in DOMAIN queue : queue[i] = r
      BY <1>4, <3>1, <3>3, MappingTableAssumption DEF OrderInv
    <3>5. i < 1   BY <2>1, <1>4, <3>2, <3>4 DEF OrderInv
    <3> QED BY <1>4, <3>4, <3>5
  <2> QED BY <1>2, <2>2, <2>3, <2>4, <2>5, <2>6 DEF OrderInv
<1> QED BY <1>3, <1>9, <1>10, <1>11, <1>12, <1>13 DEF CtlInv

LEMMA OthersKeep == ASSUME CtlInv, OrderInv, Others PROVE CtlInv' /\ OrderInv'
<1>1. /\ UNCHANGED <<past, first, sent, waiting, heard, exits, flight, fate>>
      /\ TableInv' /\ TypeOK'
  BY AnswerKeeps, StatusKeeps, UserKeeps DEF Others, past, CtlInv, TableInv
<1>2. /\ CommandOK' /\ ExitsOK'
      /\ cmd' \in Commands \cup {None} /\ (cmd # None => cmd' # None)
  BY <1>1, ClientKept DEF Others
<1>3. CtlTypeOK'   BY <1>1, <1>2 DEF CtlInv, CtlTypeOK
<1>4. CASE User
  <2>1. UNCHANGED <<queue, current, box, op, status>>   BY <1>4 DEF User, asked
  <2>2. FreshOK' /\ FateOK'   BY <1>1, <2>1 DEF CtlInv, FreshOK, FateOK
  <2>3. OrderInv'   BY <1>1, <2>1 DEF OrderInv, LaterWaits, Changes
  <2> QED BY <1>1, <1>2, <1>3, <2>2, <2>3 DEF CtlInv
<1>5. ASSUME NEW r \in Requests, GiveUp(r) PROVE CtlInv' /\ OrderInv'
  <2>1. /\ UNCHANGED <<queue, current, box, op>> /\ status[r] = "waiting"
        /\ status' = [status EXCEPT ![r] = "gaveUp"]
        /\ status \in [Requests -> {"idle", "waiting", "gaveUp"} \cup Results]
    BY <1>5 DEF GiveUp, CtlInv, CtlTypeOK, TypeOK
  <2>2. FreshOK' /\ FateOK'   BY <1>1, <2>1 DEF CtlInv, FreshOK, FateOK, Results
  <2>3. OrderInv'
    BY <1>1, <2>1 DEF OrderInv, LaterWaits, Changes, CtlInv, CtlTypeOK
  <2> QED BY <1>1, <1>2, <1>3, <2>2, <2>3 DEF CtlInv
<1>6. CASE Answer
  <2> DEFINE r == current
  <2>1. /\ r \in Requests /\ op[r] # None /\ fate[r] = box /\ box \in Results /\ box # None
        /\ status \in [Requests -> {"idle", "waiting", "gaveUp"} \cup Results]
        /\ op \in [Requests -> Ops \cup {None}]
    BY <1>6, MappingTableAssumption
    DEF Answer, CtlInv, CtlTypeOK, TypeOK, TableInv, QueueOK, FateOK
  <2>2. /\ status' = [status EXCEPT ![r] = IF @ = "waiting" THEN box ELSE @]
        /\ op' = [op EXCEPT ![r] = None]
        /\ current' = None /\ queue' = queue
    BY <1>6 DEF Answer, Answered
  <2>3. FreshOK'   BY <1>1, <2>1, <2>2 DEF CtlInv, FreshOK
  <2>4. FateOK'   BY <1>1, <2>1, <2>2 DEF CtlInv, FateOK
  <2>5. OrderInv'
    <3>1. \A s \in Requests : op'[s] # None => op[s] # None /\ s # r   BY <2>1, <2>2
    <3>2. \A s \in Requests : status'[s] # "idle" /\ op'[s] = None => fate[s] # None
      BY <2>1, <2>2 DEF OrderInv
    <3>3. \A s \in heard : status'[s] # "idle"
      BY <2>1, <2>2 DEF OrderInv, CtlInv, CtlTypeOK, Results
    <3> QED BY <1>1, <2>2, <3>1, <3>2, <3>3 DEF OrderInv, LaterWaits, Changes
  <2> QED BY <1>1, <1>2, <1>3, <2>3, <2>4, <2>5 DEF CtlInv
<1> QED BY <1>4, <1>5, <1>6 DEF Others

LEMMA CtlStutters == ASSUME CtlInv, OrderInv, UNCHANGED ctlVars PROVE CtlInv' /\ OrderInv'
<1>1. /\ UNCHANGED <<cmd, first, sent, waiting, heard, exits, flight, fate>>
      /\ TableInv' /\ TypeOK' /\ UNCHANGED <<queue, current, op, status, box>>
  BY ServerKept DEF ctlVars, client, past
<1>2. CommandOK' /\ ExitsOK'   BY <1>1, ClientKept DEF past, Follow
<1>3. CtlTypeOK' /\ FreshOK' /\ FateOK'
  BY <1>1 DEF CtlInv, CtlTypeOK, FreshOK, FateOK
<1>4. OrderInv'   BY <1>1 DEF OrderInv, LaterWaits, Changes
<1> QED BY <1>1, <1>2, <1>3, <1>4 DEF CtlInv

LEMMA CtlSafe == CtlSpec => [](CtlInv /\ OrderInv)
<1>1. ASSUME CtlInv, OrderInv, [CtlNext]_ctlVars PROVE CtlInv' /\ OrderInv'
  BY <1>1, BeginKeeps, SendKeeps, HearKeeps, FailKeeps, LoseKeeps, TakeUpKeeps, CarryOutKeeps,
     OthersKeep, CtlStutters
  DEF CtlNext
<1> QED BY InitCtl, <1>1, PTL DEF CtlSpec

\* The client's state is well formed in every behaviour.
THEOREM CtlTypeCorrect == CtlSpec => []CtlTypeOK
BY CtlSafe, PTL DEF CtlInv

\* Exit status 0 of cli.py's main says that every request of the command was sent, in
\* order, and carried out with success, whatever else was going on.
THEOREM OkIsDone == CtlSpec => []OkMeansDone
<1>1. CtlInv => OkMeansDone   BY DEF CtlInv, ExitsOK
<1> QED BY CtlSafe, <1>1, PTL

\* An answer, even the 503 that the application did not respond, puts a request before
\* all the script sends after it.
THEOREM LaterAreLater == CtlSpec => []LaterWaits
<1>1. OrderInv => LaterWaits   BY DEF OrderInv
<1> QED BY CtlSafe, <1>1, PTL
=============================================================================
