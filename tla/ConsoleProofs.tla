---------------------------- MODULE ConsoleProofs ----------------------------
(***************************************************************************)
(* What holds of the console for any threads and any limits, and of the    *)
(* log file beside it for any paths.                                       *)
(***************************************************************************)
EXTENDS Console, LogFile, FiniteSetTheorems, SequenceTheorems, TLAPS

-----------------------------------------------------------------------------
(***************************************************************************)
(* Lines                                                                   *)
(***************************************************************************)

\* A finite set of numbers can be put in order: by the number of its elements up to each.
LEMMA AscendingSorts ==
    ASSUME NEW S, \A y \in S : y \in Nat, IsFiniteSet(S)
    PROVE  /\ Cardinality(S) \in Nat
           /\ Ascending(S) \in [1 .. Cardinality(S) -> S]
  <1> DEFINE n == Cardinality(S)
             UpTo(x) == {y \in S : y <= x}
             rank == [x \in S |-> Cardinality(UpTo(x))]
             Sorted(f) == \A i, j \in DOMAIN f : i < j => f[i] < f[j]
  <1>1. n \in Nat /\ \A y \in S : y \in Nat
    BY FS_CardinalityType
  <1>2. ASSUME NEW x \in S PROVE IsFiniteSet(UpTo(x)) /\ rank[x] \in 1 .. n
    <2>1. /\ IsFiniteSet(UpTo(x)) /\ Cardinality(UpTo(x)) <= n
      BY FS_Subset
    <2>2. Cardinality(UpTo(x)) \in Nat
      BY <2>1, FS_CardinalityType
    <2>3. x \in UpTo(x)
      OBVIOUS
    <2>4. Cardinality(UpTo(x)) # 0
      BY <2>1, <2>3, FS_EmptySet
    <2> QED
      BY <1>1, <2>1, <2>2, <2>4
  <1>3. ASSUME NEW x \in S, NEW z \in S, x < z PROVE rank[x] < rank[z]
    <2>1. UpTo(x) \in SUBSET UpTo(z)
      BY <1>1, <1>3
    <2>2. z \in UpTo(z) /\ z \notin UpTo(x)
      BY <1>1, <1>3
    <2>3. Cardinality(UpTo(x)) <= Cardinality(UpTo(z)) /\ Cardinality(UpTo(x)) # Cardinality(UpTo(z))
      BY <1>2, <2>1, <2>2, FS_Subset
    <2> QED
      BY <1>2, <2>3
  <1>4. rank \in Surjection(S, 1 .. n)
    <2>1. rank \in [S -> 1 .. n]
      BY <1>2
    <2>2. ASSUME NEW x \in S, NEW z \in S, rank[x] = rank[z] PROVE x = z
      <3>1. ~(x < z) /\ ~(z < x)
        BY <1>1, <1>2, <1>3, <2>2
      <3> QED
        BY <1>1, <3>1
    <2>3. rank \in Injection(S, 1 .. n)
      BY <2>1, <2>2 DEF Injection, IsInjective
    <2>4. IsFiniteSet(1 .. n) /\ Cardinality(1 .. n) = n
      BY <1>1, FS_Interval
    <2> QED
      BY <2>3, <2>4, FS_Injection
  <1> DEFINE f == [i \in 1 .. n |-> CHOOSE x \in S : rank[x] = i]
  <1>5. ASSUME NEW i \in 1 .. n PROVE f[i] \in S /\ rank[f[i]] = i
    BY <1>4 DEF Surjection
  <1>6. f \in [1 .. n -> S]
    BY <1>5
  <1> HIDE DEF n, rank, f
  <1>7. Sorted(f)
    <2> SUFFICES ASSUME NEW i \in 1 .. n, NEW j \in 1 .. n, i < j PROVE f[i] < f[j]
      BY <1>6
    <2>1. f[i] # f[j] /\ ~(f[j] < f[i])
      BY <1>1, <1>3, <1>5
    <2> QED
      BY <1>1, <1>5, <2>1
  <1>8. \E g \in [1 .. n -> S] : Sorted(g)
    BY <1>6, <1>7
  <1>9. Ascending(S) = CHOOSE g \in [1 .. n -> S] : Sorted(g)
    BY DEF Ascending, n
  <1>10. Ascending(S) \in [1 .. n -> S]
    BY <1>8, <1>9
  <1> QED
    BY <1>1, <1>10 DEF n

\* A function on 1 .. n is a sequence.
LEMMA FunctionIsSeq ==
    ASSUME NEW T, NEW n \in Nat, NEW f \in [1 .. n -> T]
    PROVE  f \in Seq(T)
  BY SeqDef

LEMMA SingletonSeq ==
    ASSUME NEW T, NEW e \in T
    PROVE  <<e>> \in Seq(T)
  OBVIOUS

\* What a set of places in a sequence looks like in order.
LEMMA AscendingPlaces ==
    ASSUME NEW l \in Nat, NEW S \in SUBSET (1 .. l)
    PROVE  LET f == Ascending(S)
           IN  /\ f \in Seq(1 .. l)
               /\ DOMAIN f = 1 .. Len(f)
               /\ \A i \in DOMAIN f : f[i] \in S
  <1>1. IsFiniteSet(S) /\ \A y \in S : y \in Nat
    <2>1. IsFiniteSet(1 .. l)
      BY FS_Interval
    <2>2. IsFiniteSet(S)
      BY <2>1, FS_Subset
    <2>3. ASSUME NEW y \in S PROVE y \in Nat
      <3>1. y \in 1 .. l
        OBVIOUS
      <3> QED
        BY <3>1
    <2> QED
      BY <2>2, <2>3
  <1>2. Cardinality(S) \in Nat /\ Ascending(S) \in [1 .. Cardinality(S) -> S]
    BY <1>1, AscendingSorts
  <1>3. Ascending(S) \in [1 .. Cardinality(S) -> 1 .. l]
    BY <1>2
  <1>4. Ascending(S) \in Seq(1 .. l)
    BY <1>2, <1>3, FunctionIsSeq
  <1>5. DOMAIN Ascending(S) = 1 .. Len(Ascending(S))
    BY <1>4, LenProperties
  <1> QED
    BY <1>2, <1>4, <1>5

\* The rows of a buffer are byte strings, and so is what remains of it.
LEMMA SplitType ==
    ASSUME NEW buf \in Seq(Bytes)
    PROVE  Split(buf) \in Seq(Seq(Bytes)) /\ Remainder(buf) \in Seq(Bytes)
  <1> DEFINE l == Len(buf)
             ends == Ascending(Ends(buf))
             From(i) == IF i = 1 THEN 1 ELSE ends[i - 1] + 1
             withText == {i \in DOMAIN ends : \E n \in From(i) .. ends[i] : IsText(buf[n])}
             full == Ascending(withText)
  <1>1. l \in Nat /\ DOMAIN buf = 1 .. l /\ \A i \in 1 .. l : buf[i] \in Bytes
    BY LenProperties
  <1>2. Ends(buf) \in SUBSET (1 .. l)
    BY <1>1 DEF Ends
  <1>3. /\ ends \in Seq(1 .. l) /\ DOMAIN ends = 1 .. Len(ends)
        /\ \A i \in DOMAIN ends : ends[i] \in 1 .. l
    BY <1>1, <1>2, AscendingPlaces
  <1>4. Len(ends) \in Nat
    BY <1>3, LenProperties
  <1>5. withText \in SUBSET (1 .. Len(ends))
    BY <1>3
  <1> HIDE DEF l, ends, withText
  <1>6. /\ full \in Seq(1 .. Len(ends)) /\ DOMAIN full = 1 .. Len(full)
        /\ \A n \in DOMAIN full : full[n] \in 1 .. Len(ends)
    BY <1>4, <1>5, AscendingPlaces
  <1>7. Len(full) \in Nat
    BY <1>6, LenProperties
  <1>8. ASSUME NEW a \in Nat \ {0}, NEW b \in 0 .. l PROVE SubSeq(buf, a, b) \in Seq(Bytes)
    BY <1>1, SubSeqProperties
  <1>9. Split(buf) \in Seq(Seq(Bytes))
    <2> HIDE DEF full
    <2>1. ASSUME NEW n \in DOMAIN full
          PROVE  SubSeq(buf, From(full[n]), ends[full[n]]) \in Seq(Bytes)
      <3>1. full[n] \in 1 .. Len(ends) /\ ends[full[n]] \in 1 .. l
        BY <1>3, <1>6, <2>1
      <3>2. full[n] # 1 => ends[full[n] - 1] \in 1 .. l
        BY <1>3, <1>4, <3>1
      <3>3. From(full[n]) \in Nat \ {0}
        BY <1>1, <3>1, <3>2
      <3> QED
        BY <1>1, <1>8, <3>1, <3>3
    <2>2. [n \in DOMAIN full |-> SubSeq(buf, From(full[n]), ends[full[n]])]
              \in [1 .. Len(full) -> Seq(Bytes)]
      BY <1>6, <2>1
    <2>3. [n \in DOMAIN full |-> SubSeq(buf, From(full[n]), ends[full[n]])] \in Seq(Seq(Bytes))
      BY <1>7, <2>2, FunctionIsSeq
    <2> QED
      BY <2>3 DEF Split, full, withText, ends
  <1>10. Remainder(buf) \in Seq(Bytes)
    <2>1. CASE ends = << >>
      BY <2>1 DEF Remainder, ends
    <2>2. CASE ends # << >>
      <3>1. ends[Len(ends)] \in 1 .. l
        BY <1>3, <1>4, <2>2, EmptySeq
      <3>2. SubSeq(buf, ends[Len(ends)] + 1, l) \in Seq(Bytes)
        BY <1>1, <1>8, <3>1
      <3> QED
        BY <2>2, <3>2 DEF Remainder, Last, ends, l
    <2> QED
      BY <2>1, <2>2
  <1> QED
    BY <1>9, <1>10

-----------------------------------------------------------------------------
(***************************************************************************)
(* Types and limits                                                        *)
(***************************************************************************)

\* A thread that is about to queue an event has the row it is for.
PutHasRow == \A t \in Threads : at[t] = "put" => job[t] # << >>

TypeInv == TypeOK /\ PutHasRow

LEMMA InitType == Init => TypeInv
  <1> SUFFICES ASSUME Init PROVE TypeInv
    OBVIOUS
  <1> USE ConsoleAssumption DEF Init
  <1>1. << >> \in Seq(Bytes) /\ << >> \in Seq(Seq(Bytes)) /\ << >> \in Seq(Events)
    BY EmptySeq
  <1>2. Len(<< >>) = 0
    BY EmptySeq
  <1>3. ControlOK
    <2>1. selected \in BOOLEAN /\ console \in BOOLEAN
      BY Zenon
    <2>2. key \in Statuses \cup {"other"}
      BY DEF Statuses
    <2> QED
      BY <2>1, <2>2 DEF ControlOK, Statuses
  <1>4. BytesOK
    BY <1>1, <1>2 DEF BytesOK
  <1>5. EventsOK
    BY <1>1, <1>2 DEF EventsOK
  <1>6. PutHasRow
    BY DEF PutHasRow
  <1> QED
    BY <1>3, <1>4, <1>5, <1>6 DEF TypeInv, TypeOK

\* A thread that passes bytes on keeps the control points and flags.
LEMMA ThreadControl ==
    ASSUME ControlOK, NEW t \in Threads, ThreadStep(t)
    PROVE  ControlOK'
  <1> USE ConsoleAssumption DEF ControlOK, bytes, panel
  <1>1. ASSUME NEW chunk, Feed(t, chunk) PROVE ControlOK'
    BY <1>1 DEF Feed
  <1>2. ASSUME Notice(t) PROVE ControlOK'
    BY <1>2 DEF Notice, Emits
  <1>3. ASSUME EmitLog(t) PROVE ControlOK'
    BY <1>3 DEF EmitLog
  <1>4. ASSUME EmitPut(t) PROVE ControlOK'
    BY <1>4 DEF EmitPut
  <1>5. ASSUME EmitDone(t) PROVE ControlOK'
    BY <1>5 DEF EmitDone
  <1> QED
    BY <1>1, <1>2, <1>3, <1>4, <1>5 DEF ThreadStep

\* The Tk thread and the changes of status keep the control points and flags.
LEMMA TkControl ==
    ASSUME ControlOK, TkStep \/ StatusFlips
    PROVE  ControlOK'
  <1> USE ConsoleAssumption DEF ControlOK, Statuses, bytes, panel, threads
  <1>1. Build => key' \in Statuses \cup {"other"} /\ console' \in BOOLEAN
    <2>1. Build => console' \in BOOLEAN
      BY Zenon DEF Build
    <2> QED
      BY <2>1 DEF Build
  <1>2. ASSUME Start PROVE ControlOK'
    BY <1>2 DEF Start, Emits
  <1>3. ASSUME Stop PROVE ControlOK'
    BY <1>3 DEF Stop
  <1>4. ASSUME StopJoined PROVE ControlOK'
    BY <1>4 DEF StopJoined, Emits
  <1>5. ASSUME Refresh PROVE ControlOK'
    BY <1>1, <1>5 DEF Refresh
  <1>6. ASSUME Show PROVE ControlOK'
    <2>1. selected' \in BOOLEAN
      BY <1>6, Zenon DEF Show
    <2> QED
      BY <1>1, <1>6, <2>1 DEF Show
  <1>7. ASSUME ShowOther PROVE ControlOK'
    <2>1. selected' \in BOOLEAN /\ console' \in BOOLEAN
      BY <1>7, Zenon DEF ShowOther
    <2> QED
      BY <1>7, <2>1 DEF ShowOther
  <1>8. ASSUME CycleView PROVE ControlOK'
    BY <1>8 DEF CycleView
  <1>9. ASSUME ClearConsole PROVE ControlOK'
    BY <1>9 DEF ClearConsole
  <1>10. ASSUME Tick PROVE ControlOK'
    BY <1>10 DEF Tick
  <1>11. ASSUME AppendLog PROVE ControlOK'
    BY <1>11 DEF AppendLog
  <1>12. ASSUME TickDone PROVE ControlOK'
    BY <1>12 DEF TickDone
  <1>13. ASSUME Poll PROVE ControlOK'
    BY <1>13 DEF Poll, Emits
  <1>14. ASSUME StatusFlips PROVE ControlOK'
    BY <1>14 DEF StatusFlips
  <1> QED
    BY <1>2, <1>3, <1>4, <1>5, <1>6, <1>7, <1>8, <1>9, <1>10, <1>11, <1>12, <1>13, <1>14
    DEF TkStep

\* The rows a thread makes of a buffer and what it keeps of it have their types and limit.
LEMMA BufferLinesType ==
    ASSUME BytesOK, NEW t \in Threads, NEW buf \in Seq(Bytes), BufferLines(t, buf)
    PROVE  /\ job' \in [Threads -> Seq(Seq(Bytes))]
           /\ rest' \in [Threads -> Seq(Bytes)]
           /\ \A u \in Threads : Len(rest'[u]) <= MaxPartial
  <1> DEFINE split == Split(buf)
             remainder == Remainder(buf)
             long == Len(remainder) > MaxPartial
  <1>1. split \in Seq(Seq(Bytes)) /\ remainder \in Seq(Bytes)
    BY SplitType
  <1>2. /\ job' = [job EXCEPT ![t] = IF long THEN Append(split, remainder) ELSE split]
        /\ rest' = [rest EXCEPT ![t] = IF long THEN << >> ELSE remainder]
    BY DEF BufferLines
  <1> HIDE DEF split, remainder
  <1>3. Append(split, remainder) \in Seq(Seq(Bytes)) /\ Len(remainder) \in Nat
    BY <1>1, AppendProperties, LenProperties
  <1>4. << >> \in Seq(Bytes) /\ Len(<< >>) = 0
    BY EmptySeq
  <1>5. job' \in [Threads -> Seq(Seq(Bytes))]
    BY <1>1, <1>2, <1>3 DEF BytesOK
  <1>6. rest' \in [Threads -> Seq(Bytes)]
    BY <1>1, <1>2, <1>4 DEF BytesOK
  <1>7. ASSUME NEW u \in Threads PROVE Len(rest'[u]) <= MaxPartial
    BY <1>2, <1>3, <1>4, ConsoleAssumption DEF BytesOK
  <1> QED
    BY <1>5, <1>6, <1>7

\* Every step keeps the bytes; no partial line outgrows its limit.
LEMMA StepBytes ==
    ASSUME TypeInv, Next
    PROVE  BytesOK' /\ PutHasRow'
  <1> USE ConsoleAssumption DEF TypeInv, TypeOK
  <1>1. ASSUME NEW t \in Threads, NEW chunk \in Chunks(MaxChunk), Feed(t, chunk)
        PROVE  BytesOK' /\ PutHasRow'
    <2> DEFINE k == Kind[t]
    <2>1. k \in Kinds /\ part[k] \in Seq(Bytes) /\ fed[k] \in Seq(Bytes)
      BY DEF BytesOK
    <2>2. chunk \in Seq(Bytes)
      BY FunctionIsSeq DEF Chunks
    <2>3. part[k] \o chunk \in Seq(Bytes) /\ fed[k] \o chunk \in Seq(Bytes)
      BY <2>1, <2>2, ConcatProperties
    <2>4. /\ job' \in [Threads -> Seq(Seq(Bytes))]
          /\ rest' \in [Threads -> Seq(Bytes)]
          /\ \A u \in Threads : Len(rest'[u]) <= MaxPartial
      BY <1>1, <2>3, BufferLinesType DEF Feed
    <2>5. fed' \in [Kinds -> Seq(Bytes)]
      BY <1>1, <2>3 DEF Feed, BytesOK
    <2>6. part' = part /\ rows' = rows
      BY <1>1 DEF Feed
    <2>7. BytesOK'
      BY <2>4, <2>5, <2>6 DEF BytesOK
    <2>8. PutHasRow'
      BY <1>1 DEF Feed, BufferLines, PutHasRow, ControlOK, BytesOK
    <2> QED
      BY <2>7, <2>8
  <1>2. << >> \in Seq(Bytes) /\ Len(<< >>) = 0 /\ << << >> >> \in Seq(Seq(Bytes))
    <2>1. << >> \in Seq(Bytes) /\ Len(<< >>) = 0
      BY EmptySeq
    <2> QED
      BY <2>1, SingletonSeq
  <1>3. ASSUME NEW t \in Threads, NEW then, Emits(t, then), UNCHANGED bytes
        PROVE  BytesOK' /\ PutHasRow'
    <2>1. job' \in [Threads -> Seq(Seq(Bytes))]
      BY <1>2, <1>3 DEF Emits, BytesOK
    <2>2. BytesOK'
      BY <1>3, <2>1 DEF BytesOK, bytes
    <2>3. PutHasRow'
      BY <1>3 DEF Emits, PutHasRow, ControlOK, BytesOK
    <2> QED
      BY <2>2, <2>3
  <1>4. ASSUME NEW t \in Threads, EmitLog(t) PROVE BytesOK' /\ PutHasRow'
    <2> USE <1>4 DEF EmitLog
    <2>1. Head(job[t]) \in Seq(Bytes)
      BY HeadTailProperties DEF BytesOK
    <2>2. rows' \in [Kinds -> Seq(Seq(Bytes))]
      BY <2>1, AppendProperties DEF BytesOK
    <2>3. BytesOK'
      BY <2>2 DEF BytesOK
    <2>4. PutHasRow'
      BY DEF PutHasRow, ControlOK
    <2> QED
      BY <2>3, <2>4
  <1>5. ASSUME NEW t \in Threads, EmitPut(t) PROVE BytesOK' /\ PutHasRow'
    <2> USE <1>5 DEF EmitPut, bytes
    <2>1. job[t] # << >>
      BY DEF PutHasRow
    <2>2. Tail(job[t]) \in Seq(Seq(Bytes))
      BY <2>1, HeadTailProperties DEF BytesOK
    <2>3. job' \in [Threads -> Seq(Seq(Bytes))]
      BY <2>2 DEF BytesOK
    <2>4. BytesOK'
      BY <2>3 DEF BytesOK
    <2>5. PutHasRow'
      BY DEF PutHasRow, ControlOK, BytesOK
    <2> QED
      BY <2>4, <2>5
  <1>6. ASSUME NEW t \in Threads, EmitDone(t) PROVE BytesOK' /\ PutHasRow'
    <2> USE <1>6 DEF EmitDone
    <2>1. part' \in [Kinds -> Seq(Bytes)] /\ \A k \in Kinds : Len(part'[k]) <= MaxPartial
      BY DEF BytesOK
    <2>2. rest' \in [Threads -> Seq(Bytes)] /\ \A u \in Threads : Len(rest'[u]) <= MaxPartial
      BY <1>2 DEF BytesOK
    <2>3. BytesOK'
      BY <2>1, <2>2 DEF BytesOK
    <2>4. PutHasRow'
      BY DEF PutHasRow, ControlOK
    <2> QED
      BY <2>3, <2>4
  <1>7. ASSUME NEW t \in Threads, ThreadStep(t) PROVE BytesOK' /\ PutHasRow'
    <2>1. CASE Notice(t)
      BY <1>3, <2>1 DEF Notice
    <2> QED
      BY <1>1, <1>4, <1>5, <1>6, <1>7, <2>1 DEF ThreadStep
  <1>8. ASSUME Start PROVE BytesOK' /\ PutHasRow'
    <2>1. job' \in [Threads -> Seq(Seq(Bytes))]
      BY <1>2, <1>8 DEF Start, Emits, BytesOK
    <2>2. /\ part' \in [Kinds -> Seq(Bytes)] /\ \A k \in Kinds : Len(part'[k]) <= MaxPartial
          /\ fed' \in [Kinds -> Seq(Bytes)] /\ rows' \in [Kinds -> Seq(Seq(Bytes))]
      BY <1>2, <1>8, EmptySeq DEF Start
    <2>3. BytesOK'
      BY <1>8, <2>1, <2>2 DEF BytesOK, Start
    <2>4. PutHasRow'
      BY <1>8 DEF Start, Emits, PutHasRow, ControlOK, BytesOK
    <2> QED
      BY <2>3, <2>4
  <1>9. ASSUME StopJoined \/ Poll PROVE BytesOK' /\ PutHasRow'
    BY <1>3, <1>9 DEF StopJoined, Poll
  <1>10. ASSUME UNCHANGED <<bytes, job>>,
                \A t \in Threads : at'[t] = at[t] \/ at'[t] # "put"
         PROVE  BytesOK' /\ PutHasRow'
    BY <1>10 DEF BytesOK, PutHasRow, bytes
  <1>11. ASSUME Stop \/ Refresh \/ Show \/ ShowOther \/ CycleView \/ ClearConsole
                \/ Tick \/ AppendLog \/ TickDone \/ StatusFlips
         PROVE  BytesOK' /\ PutHasRow'
    BY <1>10, <1>11
    DEF Stop, Refresh, Show, ShowOther, CycleView, ClearConsole, Tick, AppendLog, TickDone,
        StatusFlips, threads, ControlOK
  <1> QED
    BY <1>7, <1>8, <1>9, <1>11 DEF Next, TkStep

\* The last elements of a sequence of events.
LEMMA SuffixType ==
    ASSUME NEW s \in Seq(Events), NEW n \in Nat, Len(s) > n
    PROVE  LET cut == SubSeq(s, Len(s) - n + 1, Len(s))
           IN  /\ cut \in Seq(Events)
               /\ Len(cut) = n
               /\ \A i \in 1 .. n : cut[i] = s[Len(s) - n + i]
  <1> DEFINE a == Len(s) - n + 1
             b == Len(s)
  <1>1. a \in Int /\ b \in Int /\ b - a + 1 = n /\ (a <= b <=> n > 0) /\ a > 0
    BY LenProperties
  <1>2. \A i \in a .. b : s[i] \in Events
    BY <1>1, ElementOfSeq
  <1>3. \A i \in 1 .. n : a + i - 1 = Len(s) - n + i
    BY <1>1
  <1> HIDE DEF a, b
  <1>4. /\ SubSeq(s, a, b) \in Seq(Events)
        /\ Len(SubSeq(s, a, b)) = IF a <= b THEN b - a + 1 ELSE 0
        /\ \A i \in 1 .. b - a + 1 : SubSeq(s, a, b)[i] = s[a + i - 1]
    BY <1>1, <1>2, SubSeqProperties
  <1>5. Len(SubSeq(s, a, b)) = n
    BY <1>1, <1>4
  <1>6. \A i \in 1 .. n : SubSeq(s, a, b)[i] = s[Len(s) - n + i]
    BY <1>1, <1>3, <1>4
  <1> QED
    BY <1>4, <1>5, <1>6 DEF a, b

\* Every step keeps the log, the queue and the console; the log and the widget keep their
\* limits.
LEMMA StepEvents ==
    ASSUME TypeInv, Next
    PROVE  EventsOK'
  <1> USE ConsoleAssumption DEF TypeInv, TypeOK
  <1>1. ASSUME NEW t \in Threads PROVE Made(t) \in Events
    BY DEF Made, Events, ControlOK
  <1>2. << >> \in Seq(Events) /\ Len(<< >>) <= History
    BY EmptySeq
  <1>3. ASSUME UNCHANGED <<log, queue, shown>> PROVE EventsOK'
    BY <1>3 DEF EventsOK
  <1>4. ASSUME UNCHANGED queue, UNCHANGED log \/ log' = << >>, shown' \in {shown, log, << >>}
        PROVE  EventsOK'
    <2>1. log' \in Seq(Events) /\ Len(log') <= History
      BY <1>2, <1>4, Zenon DEF EventsOK
    <2>2. shown' \in Seq(Events) /\ (Len(shown') <= History \/ Len(shown') <= MaxShown)
      BY <1>2, <1>4, Zenon DEF EventsOK
    <2> QED
      BY <1>4, <2>1, <2>2 DEF EventsOK
  <1>5. ASSUME NEW t \in Threads, EmitLog(t) PROVE EventsOK'
    <2> DEFINE all == Append(log, Made(t))
    <2>1. all \in Seq(Events) /\ all # << >> /\ Len(all) = Len(log) + 1 /\ Len(log) \in Nat
      BY <1>1, AppendProperties, LenProperties DEF EventsOK
    <2> HIDE DEF all
    <2>2. Tail(all) \in Seq(Events) /\ Len(Tail(all)) = Len(log)
      BY <2>1, HeadTailProperties
    <2>3. log' = IF Len(all) > History THEN Tail(all) ELSE all
      BY <1>5 DEF EmitLog, all
    <2>4. log' \in Seq(Events) /\ Len(log') <= History
      BY <2>1, <2>2, <2>3 DEF EventsOK
    <2> QED
      BY <1>5, <2>4 DEF EmitLog, EventsOK, panel
  <1>6. ASSUME NEW t \in Threads, EmitPut(t) PROVE EventsOK'
    <2>1. queue' \in Seq(Events)
      BY <1>1, <1>6, AppendProperties DEF EmitPut, EventsOK
    <2> QED
      BY <1>6, <2>1 DEF EmitPut, EventsOK, panel
  <1>7. ASSUME AppendLog PROVE EventsOK'
    <2> DEFINE all == Append(shown, Head(queue))
    <2>1. Head(queue) \in Events /\ Tail(queue) \in Seq(Events)
      BY <1>7, HeadTailProperties DEF AppendLog, EventsOK
    <2>2. all \in Seq(Events) /\ Len(all) \in Nat
      BY <2>1, AppendProperties, LenProperties DEF EventsOK
    <2>3. shown' = IF ~(selected /\ console) THEN shown
                   ELSE IF Len(all) <= MaxShown THEN all
                   ELSE SubSeq(all, Len(all) - MaxShown + 1, Len(all))
      BY <1>7 DEF AppendLog
    <2> HIDE DEF all
    <2>4. Len(all) > MaxShown
            => LET cut == SubSeq(all, Len(all) - MaxShown + 1, Len(all))
               IN  cut \in Seq(Events) /\ Len(cut) = MaxShown
      BY <2>2, SuffixType
    <2>5. shown' \in Seq(Events) /\ (Len(shown') <= History \/ Len(shown') <= MaxShown)
      BY <2>2, <2>3, <2>4 DEF EventsOK
    <2> QED
      BY <1>7, <2>1, <2>5 DEF AppendLog, EventsOK
  <1>8. ASSUME NEW t \in Threads, ThreadStep(t) PROVE EventsOK'
    BY <1>3, <1>5, <1>6, <1>8 DEF ThreadStep, Feed, Notice, EmitDone, panel
  <1>9. ASSUME Start \/ Stop \/ StopJoined \/ Tick \/ TickDone \/ Poll \/ StatusFlips
        PROVE  EventsOK'
    BY <1>3, <1>9 DEF Start, Stop, StopJoined, Tick, TickDone, Poll, StatusFlips, panel
  <1>10. ASSUME Refresh \/ Show \/ ShowOther \/ CycleView \/ ClearConsole
         PROVE  EventsOK'
    BY <1>4, <1>10 DEF Refresh, Show, ShowOther, CycleView, ClearConsole, Build, Render
  <1> QED
    BY <1>7, <1>8, <1>9, <1>10 DEF Next, TkStep

\* Stuttering keeps all of it.
LEMMA StepType == TypeInv /\ [Next]_vars => TypeInv'
  <1> SUFFICES ASSUME TypeInv, [Next]_vars PROVE TypeInv'
    OBVIOUS
  <1>1. CASE Next
    <2>1. ControlOK'
      BY <1>1, ThreadControl, TkControl DEF TypeInv, TypeOK, Next
    <2> QED
      BY <1>1, <2>1, StepBytes, StepEvents DEF TypeInv, TypeOK
  <1>2. CASE UNCHANGED vars
    BY <1>2 DEF TypeInv, TypeOK, ControlOK, BytesOK, EventsOK, PutHasRow, vars, bytes,
                threads, panel
  <1> QED
    BY <1>1, <1>2

LEMMA TypeInvariance == Spec => []TypeInv
  BY InitType, StepType, PTL DEF Spec

\* Every variable keeps its type; a partial line, the log and the widget keep their limits
\* however much the threads pass on.
THEOREM ConsoleTypeCorrect == Spec => []TypeOK
  BY TypeInvariance, PTL DEF TypeInv

-----------------------------------------------------------------------------
(***************************************************************************)
(* What the console shows                                                  *)
(***************************************************************************)

\* Between two places of a sequence the events of one thread follow in the order it made them.
Ordered(s, a, b) ==
    \A i, j \in a .. b : i < j /\ s[i].by = s[j].by => s[i].no < s[j].no

\* The event has been logged by its thread, which may be about to queue it.
Known(e) ==
    \/ e.no <= count[e.by]
    \/ at[e.by] = "put" /\ e.no = count[e.by] + 1

LogInv ==
    /\ Ordered(log, 1, Len(log))
    /\ \A i \in DOMAIN log : Known(log[i])

\* The queue holds the events of a thread without a gap up to the last that it queued.
QueueInv ==
    /\ Ordered(queue, 1, Len(queue))
    /\ \A i \in DOMAIN queue :
          /\ queue[i].no <= count[queue[i].by]
          /\ \A n \in queue[i].no .. count[queue[i].by] :
                [by |-> queue[i].by, no |-> n] \in Range(queue)

\* The first k lines come from the log, the others from the queue: an event of the log that
\* is younger than one from the queue is on the way, or has come again from the queue.
SplitAt(k) ==
    LET fromLog == 1 .. k
        fromQueue == k + 1 .. Len(shown)
    IN  /\ Ordered(shown, 1, k) /\ \A i \in fromLog : Known(shown[i])
        /\ Ordered(shown, k + 1, Len(shown))
        /\ \A j \in fromQueue :
              /\ shown[j].no <= count[shown[j].by]
              /\ \A e \in Range(queue) : e.by = shown[j].by => shown[j].no < e.no
              /\ \A i \in fromLog : shown[i].by = shown[j].by /\ shown[j].no < shown[i].no
                    => shown[i] \in Pending \cup {shown[l] : l \in fromQueue}

PanelInv ==
    /\ console => selected
    /\ ~console => shown = << >>

ConsoleInv ==
    /\ TypeInv /\ LogInv /\ QueueInv /\ PanelInv
    /\ NothingLost
    /\ \E k \in 0 .. Len(shown) : SplitAt(k)

\* A step that neither makes an event nor moves one.
Quiet ==
    /\ UNCHANGED <<count, queue>>
    /\ \A t \in Threads : at'[t] = "put" <=> at[t] = "put"

\* The console stays as it is, or is filled from the log.
Same == UNCHANGED <<log, selected, console, shown>>
Rendered ==
    /\ log' \in {log, << >>}
    /\ console' => selected'
    /\ shown' = IF console' THEN log' ELSE << >>

\* Every step makes an event, moves one, or is quiet.
LEMMA StepKinds ==
    ASSUME ControlOK, PanelInv, Next
    PROVE  \/ \E t \in Threads : EmitLog(t) \/ EmitPut(t)
           \/ AppendLog
           \/ Quiet /\ (Same \/ Rendered)
  <1> USE ConsoleAssumption DEF ControlOK
  <1>1. ASSUME NEW t \in Threads, ThreadStep(t), ~EmitLog(t), ~EmitPut(t)
        PROVE  Quiet /\ Same
    <2>1. ASSUME NEW chunk, Feed(t, chunk) PROVE Quiet /\ Same
      BY <2>1 DEF Feed, CanFeed, Quiet, Same, panel
    <2>2. CASE Notice(t)
      BY <2>2 DEF Notice, CanFeed, Emits, Quiet, Same, panel
    <2>3. CASE EmitDone(t)
      BY <2>3 DEF EmitDone, Quiet, Same, panel
    <2> QED
      BY <1>1, <2>1, <2>2, <2>3 DEF ThreadStep
  <1>2. CASE Start
    BY <1>2 DEF Start, TkIdle, Emits, Quiet, Same, panel
  <1>3. CASE Stop
    BY <1>3 DEF Stop, TkIdle, Quiet, Same, panel
  <1>4. CASE StopJoined \/ Poll
    BY <1>4 DEF StopJoined, Poll, Emits, Quiet, Same, panel
  <1>5. CASE Tick \/ TickDone
    BY <1>5 DEF Tick, TickDone, TkIdle, Quiet, Same, panel
  <1>6. CASE StatusFlips
    BY <1>6 DEF StatusFlips, threads, Quiet, Same, panel
  <1>7. CASE Refresh
    <2>1. Quiet /\ UNCHANGED log /\ UNCHANGED selected
      BY <1>7 DEF Refresh, Quiet
    <2>2. CASE selected /\ key # status
      BY <1>7, <2>1, <2>2 DEF Refresh, Build, Render, Rendered
    <2>3. CASE ~(selected /\ key # status)
      BY <1>7, <2>1, <2>3 DEF Refresh, Same
    <2> QED
      BY <2>1, <2>2, <2>3
  <1>8. CASE Show
    BY <1>8 DEF Show, Build, Render, Quiet, Rendered, threads
  <1>9. CASE ShowOther
    BY <1>9 DEF ShowOther, Quiet, Rendered, threads
  <1>10. CASE CycleView
    BY <1>10 DEF CycleView, Render, Quiet, Rendered, threads, PanelInv
  <1>11. CASE ClearConsole
    BY <1>11 DEF ClearConsole, Quiet, Rendered, threads, PanelInv
  <1> QED
    BY <1>1, <1>2, <1>3, <1>4, <1>5, <1>6, <1>7, <1>8, <1>9, <1>10, <1>11 DEF Next, TkStep

LEMMA StepPanel ==
    ASSUME TypeInv, PanelInv, Next
    PROVE  PanelInv'
  <1>1. CASE \E t \in Threads : EmitLog(t) \/ EmitPut(t)
    BY <1>1 DEF EmitLog, EmitPut, PanelInv, panel
  <1>2. CASE AppendLog
    BY <1>2 DEF AppendLog, PanelInv
  <1>3. CASE Quiet /\ (Same \/ Rendered)
    BY <1>3 DEF Same, Rendered, PanelInv
  <1> QED
    BY <1>1, <1>2, <1>3, StepKinds DEF TypeInv, TypeOK

\* An event on the way stays on the way until the Tk thread takes it from the queue.
LEMMA PendingStays ==
    ASSUME TypeInv, PanelInv, Next
    PROVE  \A e \in Pending : e \in Pending' \/ (AppendLog /\ e = Head(queue))
  <1> SUFFICES ASSUME NEW e \in Pending
               PROVE  e \in Pending' \/ (AppendLog /\ e = Head(queue))
    OBVIOUS
  <1>0. queue \in Seq(Events) /\ DOMAIN queue = 1 .. Len(queue) /\ Len(queue) \in Nat
    BY LenProperties DEF TypeInv, TypeOK, EventsOK
  <1>1. ASSUME NEW t \in Threads, EmitLog(t) PROVE e \in Pending'
    BY <1>1 DEF EmitLog, Pending, Made, Range, TypeInv, TypeOK, ControlOK
  <1>2. ASSUME NEW t \in Threads, EmitPut(t) PROVE e \in Pending'
    <2>1. Made(t) \in Events
      BY DEF Made, Events, TypeInv, TypeOK, ControlOK
    <2>2. /\ DOMAIN queue' = 1 .. Len(queue) + 1
          /\ \A i \in 1 .. Len(queue) : queue'[i] = queue[i]
          /\ queue'[Len(queue) + 1] = Made(t)
      BY <1>0, <1>2, <2>1, AppendProperties, LenProperties DEF EmitPut
    <2>3. Range(queue) \cup {Made(t)} \subseteq Range(queue')
      BY <1>0, <2>2 DEF Range
    <2>4. \A u \in Threads \ {t} : Made(u)' = Made(u) /\ at'[u] = at[u]
      BY <1>2 DEF EmitPut, Made, TypeInv, TypeOK, ControlOK
    <2> QED
      BY <2>3, <2>4 DEF Pending
  <1>3. CASE AppendLog
    <2>1. queue # << >> /\ queue' = Tail(queue) /\ UNCHANGED threads
      BY <1>3 DEF AppendLog
    <2>2. Len(queue') = Len(queue) - 1 /\ \A i \in 1 .. Len(queue) - 1 : queue'[i] = queue[i + 1]
      BY <1>0, <2>1, HeadTailProperties
    <2>3. DOMAIN queue' = 1 .. Len(queue) - 1
      BY <1>0, <2>1, <2>2, HeadTailProperties, LenProperties
    <2>4. Range(queue) \subseteq Range(queue') \cup {Head(queue)}
      <3> SUFFICES ASSUME NEW i \in 1 .. Len(queue), i # 1 PROVE queue[i] \in Range(queue')
        BY <1>0, <2>1 DEF Range
      <3>1. i - 1 \in 1 .. Len(queue) - 1 /\ queue'[i - 1] = queue[i]
        BY <1>0, <2>2
      <3> QED
        BY <2>3, <3>1 DEF Range
    <2> QED
      BY <1>3, <2>1, <2>4 DEF Pending, Made, threads
  <1>4. CASE Quiet
    BY <1>4 DEF Quiet, Pending, Made
  <1> QED
    BY <1>1, <1>2, <1>3, <1>4, StepKinds DEF TypeInv, TypeOK

\* Sequences of events: their elements, one more at the end, one less at the front.
LEMMA SeqFacts ==
    ASSUME NEW s \in Seq(Events)
    PROVE  /\ Len(s) \in Nat /\ DOMAIN s = 1 .. Len(s)
           /\ \A i \in 1 .. Len(s) : s[i] \in Events /\ s[i].by \in Threads /\ s[i].no \in Nat
  <1>1. \A i \in 1 .. Len(s) : s[i] \in Events
    BY ElementOfSeq
  <1>2. \A e \in Events : e.by \in Threads /\ e.no \in Nat
    BY DEF Events
  <1> QED
    BY <1>1, <1>2, LenProperties

LEMMA AppendFacts ==
    ASSUME NEW s \in Seq(Events), NEW e \in Events
    PROVE  LET all == Append(s, e)
           IN  /\ all \in Seq(Events) /\ all # << >>
               /\ Len(all) = Len(s) + 1 /\ DOMAIN all = 1 .. Len(s) + 1
               /\ \A i \in 1 .. Len(s) : all[i] = s[i]
               /\ all[Len(s) + 1] = e
  BY AppendProperties, LenProperties

LEMMA TailFacts ==
    ASSUME NEW s \in Seq(Events), s # << >>
    PROVE  /\ Tail(s) \in Seq(Events) /\ Head(s) = s[1] /\ Len(s) >= 1
           /\ Len(Tail(s)) = Len(s) - 1 /\ DOMAIN Tail(s) = 1 .. Len(s) - 1
           /\ \A i \in 1 .. Len(s) - 1 : Tail(s)[i] = s[i + 1] /\ i + 1 \in 1 .. Len(s)
  <1>1. Len(s) \in Nat /\ Len(s) >= 1
    BY EmptySeq
  <1>2. Head(s) = s[1]
    OBVIOUS
  <1>3. /\ Tail(s) \in Seq(Events) /\ Len(Tail(s)) = Len(s) - 1
        /\ \A i \in 1 .. Len(Tail(s)) : Tail(s)[i] = s[i + 1]
    BY HeadTailProperties
  <1>4. DOMAIN Tail(s) = 1 .. Len(s) - 1
    BY <1>3, LenProperties
  <1>5. \A i \in 1 .. Len(s) - 1 : i + 1 \in 1 .. Len(s)
    BY <1>1
  <1> QED
    BY <1>1, <1>2, <1>3, <1>4, <1>5

LEMMA MadeFacts ==
    ASSUME TypeInv, NEW t \in Threads
    PROVE  /\ Made(t) \in Events /\ Made(t).by = t /\ Made(t).no = count[t] + 1
           /\ count[t] \in Nat
  BY DEF Made, Events, TypeInv, TypeOK, ControlOK

\* The log is in the order of each thread.
LEMMA StepLog ==
    ASSUME TypeInv, LogInv, PanelInv, Next
    PROVE  LogInv'
  <1> DEFINE l == Len(log)
  <1>1. /\ log \in Seq(Events) /\ l \in Nat /\ DOMAIN log = 1 .. l
        /\ \A i \in 1 .. l : log[i] \in Events /\ log[i].by \in Threads /\ log[i].no \in Nat
    BY SeqFacts DEF TypeInv, TypeOK, EventsOK
  <1>2. /\ at \in [Threads -> {"idle", "emit", "put", "stopping", "drain", "refresh"}]
        /\ count \in [Threads -> Nat]
    BY DEF TypeInv, TypeOK, ControlOK
  <1>3. Ordered(log, 1, l) /\ \A i \in 1 .. l : Known(log[i])
    BY <1>1 DEF LogInv
  <1> HIDE DEF l
  <1>4. ASSUME NEW t \in Threads, EmitLog(t) PROVE LogInv'
    <2> DEFINE all == Append(log, Made(t))
    <2>1. Made(t) \in Events /\ Made(t).by = t /\ Made(t).no = count[t] + 1 /\ count[t] \in Nat
      BY MadeFacts
    <2>2. /\ all \in Seq(Events) /\ all # << >> /\ Len(all) = l + 1 /\ DOMAIN all = 1 .. l + 1
          /\ (\A i \in 1 .. l : all[i] = log[i]) /\ all[l + 1] = Made(t)
      BY <1>1, <2>1, AppendFacts DEF l
    <2>3. /\ at' = [at EXCEPT ![t] = "put"] /\ at[t] = "emit" /\ count' = count
          /\ log' = IF Len(all) > History THEN Tail(all) ELSE all
      BY <1>4 DEF EmitLog
    <2> HIDE DEF all
    <2>4. ASSUME NEW i \in 1 .. l
          PROVE  log[i].by = t => log[i].no <= count[t]
      BY <1>1, <1>3, <2>3 DEF Known
    <2>5. ASSUME NEW i \in 1 .. l + 1
          PROVE  /\ all[i].no \in Nat
                 /\ all[i].no <= count'[all[i].by]
                    \/ (at'[all[i].by] = "put" /\ all[i].no = count'[all[i].by] + 1)
      <3>1. CASE i \in 1 .. l
        BY <1>1, <1>2, <1>3, <2>2, <2>3, <3>1 DEF Known
      <3>2. CASE i = l + 1
        BY <1>2, <2>1, <2>2, <2>3, <3>2
      <3> QED
        BY <1>1, <3>1, <3>2
    <2>6. ASSUME NEW i \in 1 .. l + 1, NEW j \in 1 .. l + 1, i < j, all[i].by = all[j].by
          PROVE  all[i].no < all[j].no
      <3>1. i \in 1 .. l
        BY <1>1, <2>6
      <3>2. CASE j \in 1 .. l
        BY <1>3, <2>2, <2>6, <3>1, <3>2 DEF Ordered
      <3>3. CASE j = l + 1
        BY <1>1, <2>1, <2>2, <2>4, <2>6, <3>1, <3>3
      <3> QED
        BY <1>1, <3>2, <3>3
    <2>7. CASE log' = all
      <3>1. Len(log') = l + 1 /\ DOMAIN log' = 1 .. l + 1
        BY <2>2, <2>7
      <3> QED
        BY <2>5, <2>6, <2>7, <3>1 DEF LogInv, Ordered, Known
    <2>8. CASE log' = Tail(all)
      <3>1. /\ Len(log') = l /\ DOMAIN log' = 1 .. l
            /\ \A i \in 1 .. l : log'[i] = all[i + 1] /\ i + 1 \in 1 .. l + 1
        BY <1>1, <2>2, <2>8, TailFacts
      <3>2. \A i \in 1 .. l : Known(log[i])'
        BY <2>5, <3>1 DEF Known
      <3>3. ASSUME NEW i \in 1 .. l, NEW j \in 1 .. l, i < j, log'[i].by = log'[j].by
            PROVE  log'[i].no < log'[j].no
        BY <1>1, <2>6, <3>1, <3>3
      <3> QED
        BY <3>1, <3>2, <3>3 DEF LogInv, Ordered
    <2> QED
      BY <2>3, <2>7, <2>8
  <1>5. ASSUME NEW t \in Threads, EmitPut(t) PROVE LogInv'
    <2>1. /\ log' = log /\ at[t] = "put" /\ at' = [at EXCEPT ![t] = "emit"]
          /\ count' = [count EXCEPT ![t] = count[t] + 1]
      BY <1>5 DEF EmitPut
    <2>2. ASSUME NEW i \in 1 .. l PROVE Known(log[i])'
      BY <1>1, <1>2, <1>3, <2>1 DEF Known
    <2> QED
      BY <1>1, <1>3, <2>1, <2>2 DEF LogInv, l, Ordered
  <1>6. CASE AppendLog
    BY <1>6 DEF AppendLog, threads, LogInv, Known, Ordered
  <1>7. CASE Quiet /\ log' = log
    <2>1. ASSUME NEW i \in 1 .. l PROVE Known(log[i])'
      BY <1>1, <1>3, <1>7 DEF Quiet, Known
    <2> QED
      BY <1>1, <1>3, <1>7, <2>1 DEF LogInv, l, Ordered
  <1>8. CASE log' = << >>
    BY <1>8, EmptySeq DEF LogInv, Ordered
  <1> QED
    BY <1>4, <1>5, <1>6, <1>7, <1>8, StepKinds DEF Same, Rendered, TypeInv, TypeOK

\* The queue is in the order of each thread and has no gaps.
LEMMA StepQueue ==
    ASSUME TypeInv, QueueInv, PanelInv, Next
    PROVE  QueueInv'
  <1> DEFINE l == Len(queue)
  <1>1. /\ queue \in Seq(Events) /\ l \in Nat /\ DOMAIN queue = 1 .. l
        /\ \A i \in 1 .. l :
              queue[i] \in Events /\ queue[i].by \in Threads /\ queue[i].no \in Nat
    BY SeqFacts DEF TypeInv, TypeOK, EventsOK
  <1>2. count \in [Threads -> Nat]
    BY DEF TypeInv, TypeOK, ControlOK
  <1>3. /\ Ordered(queue, 1, l)
        /\ \A i \in 1 .. l :
              /\ queue[i].no <= count[queue[i].by]
              /\ \A n \in queue[i].no .. count[queue[i].by] :
                    [by |-> queue[i].by, no |-> n] \in Range(queue)
    BY <1>1 DEF QueueInv
  <1> HIDE DEF l
  <1>4. ASSUME NEW t \in Threads, EmitPut(t) PROVE QueueInv'
    <2>1. Made(t) \in Events /\ Made(t).by = t /\ Made(t).no = count[t] + 1 /\ count[t] \in Nat
      BY MadeFacts
    <2>2. /\ queue' = Append(queue, Made(t))
          /\ count' = [count EXCEPT ![t] = count[t] + 1]
      BY <1>4 DEF EmitPut
    <2>3. /\ Len(queue') = l + 1 /\ DOMAIN queue' = 1 .. l + 1
          /\ (\A i \in 1 .. l : queue'[i] = queue[i]) /\ queue'[l + 1] = Made(t)
      BY <1>1, <2>1, <2>2, AppendFacts DEF l
    <2>4. Range(queue) \cup {Made(t)} \subseteq Range(queue')
      BY <1>1, <2>3 DEF Range
    <2>5. ASSUME NEW i \in 1 .. l + 1, NEW j \in 1 .. l + 1, i < j, queue'[i].by = queue'[j].by
          PROVE  queue'[i].no < queue'[j].no
      <3>1. i \in 1 .. l
        BY <1>1, <2>5
      <3>2. CASE j \in 1 .. l
        BY <1>3, <2>3, <2>5, <3>1, <3>2 DEF Ordered
      <3>3. CASE j = l + 1
        BY <1>1, <1>3, <2>1, <2>3, <2>5, <3>1, <3>3
      <3> QED
        BY <1>1, <3>2, <3>3
    <2>6. ASSUME NEW i \in 1 .. l + 1 PROVE queue'[i].no <= count'[queue'[i].by]
      <3>1. CASE i \in 1 .. l
        <4>1. queue[i].by \in Threads /\ queue[i].no \in Nat
              /\ queue[i].no <= count[queue[i].by]
          BY <1>1, <1>3, <3>1
        <4>2. count[queue[i].by] <= count'[queue[i].by] /\ count'[queue[i].by] \in Nat
              /\ count[queue[i].by] \in Nat
          BY <1>2, <2>2, <4>1
        <4> QED
          BY <2>3, <3>1, <4>1, <4>2
      <3>2. CASE i = l + 1
        BY <1>2, <2>1, <2>2, <2>3, <3>2
      <3> QED
        BY <1>1, <3>1, <3>2
    <2>7. ASSUME NEW i \in 1 .. l + 1, NEW n \in queue'[i].no .. count'[queue'[i].by]
          PROVE  [by |-> queue'[i].by, no |-> n] \in Range(queue')
      <3>1. CASE queue'[i].by = t /\ n = count[t] + 1
        <4>1. [by |-> queue'[i].by, no |-> n] = Made(t)
          BY <3>1 DEF Made
        <4> QED
          BY <2>4, <4>1
      <3>2. CASE ~(queue'[i].by = t /\ n = count[t] + 1)
        <4>1. i \in 1 .. l
          <5>1. CASE i = l + 1
            <6>1. queue'[i].by = t /\ queue'[i].no = count[t] + 1 /\ count'[t] = count[t] + 1
              BY <1>2, <2>1, <2>2, <2>3, <5>1
            <6>2. n = count[t] + 1
              BY <2>1, <2>7, <6>1
            <6> QED
              BY <3>2, <6>1, <6>2
          <5> QED
            BY <1>1, <5>1
        <4>2. n \in queue[i].no .. count[queue[i].by]
          BY <1>1, <1>2, <2>1, <2>2, <2>3, <3>2, <4>1
        <4>3. [by |-> queue[i].by, no |-> n] \in Range(queue)
          BY <1>3, <4>1, <4>2
        <4> QED
          BY <2>3, <2>4, <4>1, <4>3
      <3> QED
        BY <3>1, <3>2
    <2> QED
      BY <2>3, <2>5, <2>6, <2>7 DEF QueueInv, Ordered
  <1>5. CASE AppendLog
    <2> DEFINE m == l - 1
    <2>1. queue # << >> /\ queue' = Tail(queue) /\ count' = count
      BY <1>5 DEF AppendLog, threads
    <2>2. /\ m \in Nat /\ DOMAIN queue' = 1 .. m /\ Len(queue') = m
          /\ \A i \in 1 .. m : queue'[i] = queue[i + 1] /\ i + 1 \in 1 .. l
      BY <1>1, <2>1, TailFacts DEF l
    <2>3. l = m + 1
      BY <1>1
    <2> HIDE DEF m
    <2>4. ASSUME NEW i \in 1 .. m, NEW j \in 1 .. m, i < j, queue'[i].by = queue'[j].by
          PROVE  queue'[i].no < queue'[j].no
      BY <1>3, <2>2, <2>4 DEF Ordered
    <2>5. ASSUME NEW i \in 1 .. m, NEW n \in queue'[i].no .. count[queue'[i].by]
          PROVE  [by |-> queue'[i].by, no |-> n] \in Range(queue')
      <3>1. [by |-> queue[i + 1].by, no |-> n] \in Range(queue)
        BY <1>3, <2>2
      <3>2. PICK j \in 1 .. l : queue[j] = [by |-> queue[i + 1].by, no |-> n]
        BY <1>1, <3>1 DEF Range
      <3>3. j # 1
        <4>1. CASE j = 1
          <5>1. queue[1].by = queue[i + 1].by /\ queue[1].no = n /\ 1 \in 1 .. l
            BY <3>2, <4>1
          <5>2. queue[1].no < queue[i + 1].no
            BY <1>3, <2>2, <2>3, <5>1 DEF Ordered
          <5> QED
            BY <1>1, <2>2, <2>5, <5>1, <5>2
        <4> QED
          BY <4>1
      <3>4. j - 1 \in 1 .. m /\ queue'[j - 1] = queue[j]
        BY <2>2, <2>3, <3>3
      <3> QED
        BY <2>2, <3>2, <3>4 DEF Range
    <2>6. ASSUME NEW i \in 1 .. m PROVE queue'[i].no <= count[queue'[i].by]
      BY <1>3, <2>2
    <2> QED
      BY <2>1, <2>2, <2>4, <2>5, <2>6 DEF QueueInv, Ordered
  <1>6. CASE UNCHANGED <<count, queue>>
    BY <1>6 DEF QueueInv, Ordered
  <1> QED
    BY <1>4, <1>5, <1>6, StepKinds DEF Quiet, EmitLog, TypeInv, TypeOK

\* What has been logged or queued stays so, and what is queued is newer than all before it.
LEMMA StepGrows ==
    ASSUME TypeInv, PanelInv, Next
    PROVE  /\ \A e \in Events : Known(e) => Known(e)'
           /\ \A t \in Threads : count[t] <= count'[t] /\ {count[t], count'[t]} \subseteq Nat
           /\ \A e \in Range(queue') : e \in Range(queue) \/ e.no > count[e.by]
  <1>1. /\ at \in [Threads -> {"idle", "emit", "put", "stopping", "drain", "refresh"}]
        /\ count \in [Threads -> Nat]
        /\ \A e \in Events : e.by \in Threads /\ e.no \in Nat
    BY DEF TypeInv, TypeOK, ControlOK, Events
  <1>2. queue \in Seq(Events) /\ Len(queue) \in Nat /\ DOMAIN queue = 1 .. Len(queue)
    BY SeqFacts DEF TypeInv, TypeOK, EventsOK
  <1>3. ASSUME NEW t \in Threads, EmitLog(t)
        PROVE  /\ \A e \in Events : Known(e) => Known(e)'
               /\ UNCHANGED <<count, queue>>
    BY <1>1, <1>3 DEF EmitLog, Known
  <1>4. ASSUME NEW t \in Threads, EmitPut(t)
        PROVE  /\ \A e \in Events : Known(e) => Known(e)'
               /\ \A u \in Threads : count[u] <= count'[u] /\ {count[u], count'[u]} \subseteq Nat
               /\ \A e \in Range(queue') : e \in Range(queue) \/ e.no > count[e.by]
    <2>1. Made(t) \in Events /\ Made(t).by = t /\ Made(t).no = count[t] + 1 /\ count[t] \in Nat
      BY MadeFacts
    <2>2. /\ queue' = Append(queue, Made(t)) /\ at[t] = "put" /\ at' = [at EXCEPT ![t] = "emit"]
          /\ count' = [count EXCEPT ![t] = count[t] + 1]
      BY <1>4 DEF EmitPut
    <2>3. /\ DOMAIN queue' = 1 .. Len(queue) + 1
          /\ (\A i \in 1 .. Len(queue) : queue'[i] = queue[i]) /\ queue'[Len(queue) + 1] = Made(t)
      BY <1>2, <2>1, <2>2, AppendFacts
    <2>4. Range(queue') \subseteq Range(queue) \cup {Made(t)}
      BY <1>2, <2>3 DEF Range
    <2>5. Made(t).no > count[Made(t).by]
      BY <2>1
    <2>6. \A e \in Events : Known(e) => Known(e)'
      BY <1>1, <2>2 DEF Known
    <2>7. \A u \in Threads : count[u] <= count'[u] /\ {count[u], count'[u]} \subseteq Nat
      BY <1>1, <2>2
    <2> QED
      BY <2>4, <2>5, <2>6, <2>7
  <1>5. CASE AppendLog
    <2>1. UNCHANGED <<count, at>> /\ queue # << >> /\ queue' = Tail(queue)
      BY <1>5 DEF AppendLog, threads
    <2>2. /\ DOMAIN queue' = 1 .. Len(queue) - 1
          /\ \A i \in 1 .. Len(queue) - 1 : queue'[i] = queue[i + 1] /\ i + 1 \in 1 .. Len(queue)
      BY <1>2, <2>1, TailFacts
    <2>3. Range(queue') \subseteq Range(queue)
      BY <1>2, <2>2 DEF Range
    <2>4. \A e \in Events : Known(e) => Known(e)'
      BY <2>1 DEF Known
    <2> QED
      BY <1>1, <2>1, <2>3, <2>4
  <1>6. CASE Quiet
    <2>1. \A e \in Events : Known(e) => Known(e)'
      BY <1>1, <1>6 DEF Quiet, Known
    <2> QED
      BY <1>1, <1>6, <2>1 DEF Quiet
  <1> QED
    BY <1>1, <1>3, <1>4, <1>5, <1>6, StepKinds DEF TypeInv, TypeOK

\* What AppendLog leaves on a console: all that was there and the new event, but for the
\* first lines when they are too many.
LEMMA Shifted ==
    ASSUME TypeInv, PanelInv, AppendLog, console
    PROVE  \E s \in 0 .. Len(shown) + 1 :
              /\ Len(shown') = Len(shown) + 1 - s /\ DOMAIN shown' = 1 .. Len(shown) + 1 - s
              /\ s > 0 => Len(shown') = MaxShown
              /\ \A i \in 1 .. Len(shown) + 1 - s :
                    shown'[i] = IF s + i = Len(shown) + 1 THEN Head(queue) ELSE shown[s + i]
  <1> DEFINE all == Append(shown, Head(queue))
             l == Len(shown)
  <1>1. queue # << >> /\ Head(queue) \in Events
    BY HeadTailProperties DEF AppendLog, TypeInv, TypeOK, EventsOK
  <1>2. shown \in Seq(Events) /\ l \in Nat
    BY SeqFacts DEF TypeInv, TypeOK, EventsOK
  <1>3. /\ all \in Seq(Events) /\ Len(all) = l + 1 /\ DOMAIN all = 1 .. l + 1
        /\ \A i \in 1 .. l + 1 : all[i] = IF i = l + 1 THEN Head(queue) ELSE shown[i]
    BY <1>1, <1>2, AppendFacts
  <1>4. shown' = IF Len(all) <= MaxShown THEN all
                 ELSE SubSeq(all, Len(all) - MaxShown + 1, Len(all))
    BY DEF AppendLog, PanelInv
  <1> HIDE DEF all, l
  <1>5. CASE Len(all) <= MaxShown
    <2>1. /\ Len(shown') = l + 1 - 0 /\ DOMAIN shown' = 1 .. l + 1 - 0
          /\ \A i \in 1 .. l + 1 - 0 :
                shown'[i] = IF 0 + i = l + 1 THEN Head(queue) ELSE shown[0 + i]
      BY <1>2, <1>3, <1>4, <1>5
    <2>2. 0 \in 0 .. l + 1
      BY <1>2
    <2> QED
      BY <2>1, <2>2 DEF l
  <1>6. CASE ~(Len(all) <= MaxShown)
    <2> DEFINE s == l + 1 - MaxShown
    <2>1. s \in 0 .. l + 1 /\ Len(all) > MaxShown /\ MaxShown \in Nat /\ l + 1 - s = MaxShown
      BY <1>2, <1>3, <1>6, ConsoleAssumption
    <2>2. /\ shown' \in Seq(Events) /\ Len(shown') = MaxShown
          /\ \A i \in 1 .. MaxShown : shown'[i] = all[Len(all) - MaxShown + i]
      BY <1>3, <1>4, <1>6, <2>1, SuffixType
    <2>3. DOMAIN shown' = 1 .. MaxShown
      BY <2>2, LenProperties
    <2>4. \A i \in 1 .. MaxShown : Len(all) - MaxShown + i = s + i /\ s + i \in 1 .. l + 1
      BY <1>2, <1>3, <2>1
    <2> HIDE DEF s
    <2>5. \A i \in 1 .. MaxShown : shown'[i] = IF s + i = l + 1 THEN Head(queue) ELSE shown[s + i]
      BY <1>3, <2>2, <2>4
    <2> QED
      BY <2>1, <2>2, <2>3, <2>5 DEF l
  <1> QED
    BY <1>5, <1>6

\* No event is missing on the console but those on the way.
LEMMA StepNothingLost ==
    ASSUME TypeInv, PanelInv, NothingLost, Next
    PROVE  NothingLost'
  <1> SUFFICES ASSUME console', Len(shown') < MaxShown
               PROVE  Range(log') \subseteq Range(shown') \cup Pending'
    BY DEF NothingLost
  <1>1. \A e \in Pending : e \in Pending' \/ (AppendLog /\ e = Head(queue))
    BY PendingStays
  <1>2. ASSUME NEW t \in Threads, EmitLog(t)
        PROVE  Range(log') \subseteq Range(shown') \cup Pending'
    <2> DEFINE all == Append(log, Made(t))
    <2>1. Made(t) \in Events /\ log \in Seq(Events)
      BY MadeFacts DEF TypeInv, TypeOK, EventsOK
    <2>2. /\ Len(log) \in Nat /\ DOMAIN log = 1 .. Len(log)
      BY <2>1, SeqFacts
    <2>3. /\ all \in Seq(Events) /\ all # << >> /\ Len(all) = Len(log) + 1
          /\ DOMAIN all = 1 .. Len(log) + 1
          /\ (\A i \in 1 .. Len(log) : all[i] = log[i]) /\ all[Len(log) + 1] = Made(t)
      BY <2>1, AppendFacts
    <2> HIDE DEF all
    <2>4. /\ DOMAIN Tail(all) = 1 .. Len(log)
          /\ \A i \in 1 .. Len(log) : Tail(all)[i] = all[i + 1] /\ i + 1 \in 1 .. Len(log) + 1
      BY <2>2, <2>3, TailFacts
    <2>5. Range(all) \subseteq Range(log) \cup {Made(t)}
      BY <2>2, <2>3 DEF Range
    <2>6. Range(Tail(all)) \subseteq Range(all)
      BY <2>3, <2>4 DEF Range
    <2>7. Range(log') \subseteq Range(log) \cup {Made(t)}
      BY <1>2, <2>5, <2>6 DEF EmitLog, all
    <2>8. Made(t) \in Pending'
      BY <1>2 DEF EmitLog, Pending, Made, TypeInv, TypeOK, ControlOK
    <2>9. Range(log) \subseteq Range(shown) \cup Pending /\ shown' = shown
      BY <1>2 DEF EmitLog, panel, NothingLost
    <2>10. ~AppendLog
      BY <1>2 DEF EmitLog, AppendLog, threads, TypeInv, TypeOK, ControlOK
    <2> QED
      BY <1>1, <2>7, <2>8, <2>9, <2>10
  <1>3. CASE UNCHANGED <<log, console, shown>> /\ ~AppendLog
    BY <1>1, <1>3 DEF NothingLost
  <1>4. CASE AppendLog
    <2>1. console /\ log' = log
      BY <1>4 DEF AppendLog
    <2>2. PICK s \in 0 .. Len(shown) + 1 :
              /\ Len(shown') = Len(shown) + 1 - s /\ DOMAIN shown' = 1 .. Len(shown) + 1 - s
              /\ s > 0 => Len(shown') = MaxShown
              /\ \A i \in 1 .. Len(shown) + 1 - s :
                    shown'[i] = IF s + i = Len(shown) + 1 THEN Head(queue) ELSE shown[s + i]
      BY <1>4, <2>1, Shifted
    <2>3. Len(shown) \in Nat /\ DOMAIN shown = 1 .. Len(shown) /\ MaxShown \in Nat
      BY SeqFacts, ConsoleAssumption DEF TypeInv, TypeOK, EventsOK
    <2>4. s = 0
      BY <2>2, <2>3
    <2>5. /\ Len(shown) < MaxShown /\ DOMAIN shown' = 1 .. Len(shown) + 1
          /\ \A i \in 1 .. Len(shown) : shown'[i] = shown[i]
          /\ shown'[Len(shown) + 1] = Head(queue)
      BY <2>2, <2>3, <2>4
    <2>6. Range(shown) \cup {Head(queue)} \subseteq Range(shown')
      BY <2>3, <2>5 DEF Range
    <2> QED
      BY <1>1, <2>1, <2>5, <2>6 DEF NothingLost
  <1>5. CASE Rendered
    BY <1>5 DEF Rendered
  <1>6. ASSUME NEW t \in Threads, EmitPut(t)
        PROVE  UNCHANGED <<log, console, shown>> /\ ~AppendLog
    BY <1>6 DEF EmitPut, AppendLog, panel, threads, TypeInv, TypeOK, ControlOK
  <1> QED
    BY <1>2, <1>3, <1>4, <1>5, <1>6, StepKinds DEF Same, TypeInv, TypeOK

\* AppendLog keeps the two parts of a console.
LEMMA AppendSplit ==
    ASSUME TypeInv, QueueInv, PanelInv, Next, AppendLog, console,
           NEW k \in 0 .. Len(shown), SplitAt(k)
    PROVE  \E m \in 0 .. Len(shown') : SplitAt(m)'
  <1> DEFINE l == Len(shown)
             x == Head(queue)
             all(i) == IF i = l + 1 THEN x ELSE shown[i]
  <1>1. /\ l \in Nat /\ k \in Nat /\ k <= l
        /\ \A i \in 1 .. l : shown[i] \in Events /\ shown[i].by \in Threads /\ shown[i].no \in Nat
    BY SeqFacts DEF TypeInv, TypeOK, EventsOK
  <1>2. /\ queue \in Seq(Events) /\ Len(queue) \in Nat /\ DOMAIN queue = 1 .. Len(queue)
        /\ queue # << >> /\ queue' = Tail(queue) /\ count' = count /\ at' = at
        /\ \A i \in 1 .. Len(queue) :
              queue[i] \in Events /\ queue[i].by \in Threads /\ queue[i].no \in Nat
    BY SeqFacts DEF AppendLog, threads, TypeInv, TypeOK, EventsOK
  <1>3. /\ x = queue[1] /\ 1 \in 1 .. Len(queue) /\ DOMAIN queue' = 1 .. Len(queue) - 1
        /\ \A i \in 1 .. Len(queue) - 1 : queue'[i] = queue[i + 1] /\ i + 1 \in 1 .. Len(queue)
    BY <1>2, TailFacts
  <1>4. x \in Range(queue) /\ x \in Events /\ x.by \in Threads /\ x.no \in Nat
    BY <1>2, <1>3 DEF Range
  <1>5. count \in [Threads -> Nat]
    BY DEF TypeInv, TypeOK, ControlOK
  <1>6. ASSUME NEW e \in Range(queue'), e.by = x.by
        PROVE  e \in Range(queue) /\ x.no < e.no
    <2>1. PICK i \in 1 .. Len(queue) - 1 : e = queue'[i]
      BY <1>3, <1>6 DEF Range
    <2>2. e = queue[i + 1] /\ i + 1 \in 1 .. Len(queue) /\ 1 < i + 1
      BY <1>2, <1>3, <2>1
    <2>3. queue[1].no < queue[i + 1].no
      BY <1>2, <1>3, <1>6, <2>2 DEF QueueInv, Ordered
    <2> QED
      BY <1>2, <1>3, <2>2, <2>3 DEF Range
  <1>7. Range(queue') \subseteq Range(queue)
    BY <1>2, <1>3 DEF Range
  <1> HIDE DEF l, x
  <1>8. ASSUME NEW i \in 1 .. k PROVE all(i) = shown[i] /\ i \in 1 .. l /\ Known(all(i))
    <2>1. all(i) = shown[i] /\ i \in 1 .. l
      BY <1>1
    <2>2. Known(shown[i])
      BY DEF SplitAt
    <2> QED
      BY <2>1, <2>2
  <1>9. ASSUME NEW j \in k + 1 .. l + 1
        PROVE  /\ all(j).by \in Threads /\ all(j).no \in Nat
               /\ all(j).no <= count[all(j).by]
               /\ \A e \in Range(queue') : e.by = all(j).by => all(j).no < e.no
    <2>1. CASE j = l + 1
      BY <1>2, <1>3, <1>4, <1>6, <2>1 DEF QueueInv
    <2>2. CASE j # l + 1
      <3>1. j \in k + 1 .. l /\ j \in 1 .. l /\ all(j) = shown[j]
        BY <1>1, <2>2
      <3> QED
        BY <1>1, <1>7, <3>1 DEF SplitAt, l
    <2> QED
      BY <2>1, <2>2
  <1>10. ASSUME NEW i \in 1 .. k, NEW j \in 1 .. k, i < j, all(i).by = all(j).by
         PROVE  all(i).no < all(j).no
    BY <1>8, <1>10 DEF SplitAt, Ordered
  <1>11. ASSUME NEW i \in k + 1 .. l + 1, NEW j \in k + 1 .. l + 1, i < j, all(i).by = all(j).by
         PROVE  all(i).no < all(j).no
    <2>1. i \in k + 1 .. l /\ all(i) = shown[i]
      BY <1>1, <1>11
    <2>2. CASE j = l + 1
      BY <1>4, <1>11, <2>1, <2>2 DEF SplitAt, l
    <2>3. CASE j # l + 1
      <3>1. j \in k + 1 .. l /\ all(j) = shown[j]
        BY <1>1, <2>3
      <3> QED
        BY <1>11, <2>1, <3>1 DEF SplitAt, Ordered, l
    <2> QED
      BY <2>2, <2>3
  <1>12. ASSUME NEW i \in 1 .. k, NEW j \in k + 1 .. l + 1, all(i).by = all(j).by,
                all(j).no < all(i).no
         PROVE  all(i) \in Pending' \/ \E n \in k + 1 .. l + 1 : all(n) = all(i)
    <2> DEFINE e == shown[i]
    <2>1. all(i) = e /\ e \in Events /\ e.by \in Threads /\ e.no \in Nat /\ Known(e)
      BY <1>1, <1>8 DEF SplitAt
    <2>2. l + 1 \in k + 1 .. l + 1 /\ all(l + 1) = x
      BY <1>1
    <2>3. e \in Pending => (e \in Pending' \/ e = x)
      BY PendingStays DEF x
    <2> HIDE DEF e
    <2>4. CASE j \in k + 1 .. l
      <3>1. all(j) = shown[j]
        BY <1>1, <2>4
      <3>2. e \in Pending \/ \E n \in k + 1 .. l : shown[n] = e
        BY <1>12, <2>1, <2>4, <3>1 DEF SplitAt, l, e
      <3>3. \A n \in k + 1 .. l : n \in k + 1 .. l + 1 /\ all(n) = shown[n]
        BY <1>1
      <3> QED
        BY <2>1, <2>2, <2>3, <3>2, <3>3
    <2>5. CASE j = l + 1
      <3>1. e.by = x.by /\ x.no < e.no
        BY <1>12, <2>1, <2>2, <2>5
      <3>2. CASE e.no <= count[e.by]
        <4>1. e.no \in x.no .. count[x.by]
          BY <1>4, <1>5, <2>1, <3>1, <3>2
        <4>2. [by |-> x.by, no |-> e.no] \in Range(queue)
          BY <1>2, <1>3, <4>1 DEF QueueInv
        <4>3. e = [by |-> x.by, no |-> e.no]
          BY <2>1, <3>1 DEF Events
        <4> QED
          BY <2>1, <2>2, <2>3, <4>2, <4>3 DEF Pending
      <3>3. CASE at[e.by] = "put" /\ e.no = count[e.by] + 1
        <4>1. e = Made(e.by)
          BY <2>1, <3>3 DEF Made, Events
        <4> QED
          BY <2>1, <2>2, <2>3, <3>3, <4>1 DEF Pending
      <3> QED
        BY <2>1, <3>2, <3>3 DEF Known
    <2>6. j \in k + 1 .. l \/ j = l + 1
      BY <1>1
    <2> QED
      BY <2>4, <2>5, <2>6
  <1>13. PICK s \in 0 .. l + 1 :
              /\ Len(shown') = l + 1 - s
              /\ \A i \in 1 .. l + 1 - s : shown'[i] = all(s + i)
    BY Shifted DEF l, x
  <1> HIDE DEF all
  <1> DEFINE m == IF k < s THEN 0 ELSE k - s
             d == l + 1 - s
  <1>14. /\ m \in 0 .. d /\ d \in Nat
         /\ \A i \in 1 .. m : s + i \in 1 .. k
         /\ \A i \in m + 1 .. d : s + i \in k + 1 .. l + 1
         /\ \A i \in 1 .. d : shown'[i] = all(s + i)
    BY <1>1, <1>13
  <1>15. m > 0 => s <= k /\ \A n \in k + 1 .. l + 1 : n - s \in m + 1 .. d /\ s + (n - s) = n
    BY <1>1, <1>13
  <1>16. Len(shown') = d
    BY <1>13
  <1> HIDE DEF m, d
  <1>17. ASSUME NEW i \in 1 .. m, NEW j \in 1 .. m, i < j, shown'[i].by = shown'[j].by
         PROVE  shown'[i].no < shown'[j].no
    <2>1. s + i < s + j /\ i \in 1 .. d /\ j \in 1 .. d
      BY <1>1, <1>14, <1>17
    <2> QED
      BY <1>10, <1>14, <1>17, <2>1
  <1>18. ASSUME NEW i \in m + 1 .. d, NEW j \in m + 1 .. d, i < j, shown'[i].by = shown'[j].by
         PROVE  shown'[i].no < shown'[j].no
    <2>1. s + i < s + j /\ i \in 1 .. d /\ j \in 1 .. d
      BY <1>1, <1>14, <1>18
    <2> QED
      BY <1>11, <1>14, <1>18, <2>1
  <1>19. ASSUME NEW i \in 1 .. m PROVE Known(shown[i])'
    <2>1. i \in 1 .. d /\ s + i \in 1 .. k
      BY <1>14
    <2>2. Known(all(s + i)) /\ shown'[i] = all(s + i)
      BY <1>8, <1>14, <2>1
    <2> QED
      BY <1>2, <2>2 DEF Known
  <1>20. ASSUME NEW j \in m + 1 .. d
         PROVE  /\ shown'[j].no <= count'[shown'[j].by]
                /\ \A e \in Range(queue') : e.by = shown'[j].by => shown'[j].no < e.no
    <2>1. j \in 1 .. d
      BY <1>14
    <2> QED
      BY <1>2, <1>9, <1>14, <2>1
  <1>21. ASSUME NEW i \in 1 .. m, NEW j \in m + 1 .. d, shown'[i].by = shown'[j].by,
                shown'[j].no < shown'[i].no
         PROVE  shown'[i] \in Pending' \cup {shown'[n] : n \in m + 1 .. d}
    <2>1. /\ i \in 1 .. d /\ j \in 1 .. d /\ m > 0
          /\ \A n \in m + 1 .. d : n \in 1 .. d
      BY <1>14
    <2>2. shown'[i] \in Pending' \/ \E n \in k + 1 .. l + 1 : all(n) = shown'[i]
      BY <1>12, <1>14, <1>21, <2>1
    <2>3. ASSUME NEW n \in k + 1 .. l + 1 PROVE n - s \in m + 1 .. d /\ shown'[n - s] = all(n)
      BY <1>14, <1>15, <2>1
    <2> QED
      BY <2>2, <2>3
  <1> QED
    BY <1>14, <1>16, <1>17, <1>18, <1>19, <1>20, <1>21 DEF SplitAt, Ordered

\* Every step keeps the two parts of a console.
LEMMA StepSplit ==
    ASSUME TypeInv, LogInv', QueueInv, PanelInv, Next,
           NEW k \in 0 .. Len(shown), SplitAt(k)
    PROVE  \E m \in 0 .. Len(shown') : SplitAt(m)'
  <1>1. /\ Len(shown) \in Nat /\ k \in Nat /\ k <= Len(shown)
        /\ \A i \in 1 .. Len(shown) :
              shown[i] \in Events /\ shown[i].by \in Threads /\ shown[i].no \in Nat
    BY SeqFacts DEF TypeInv, TypeOK, EventsOK
  <1>2. CASE UNCHANGED shown /\ ~AppendLog
    <2>1. \A i \in 1 .. k : i \in 1 .. Len(shown)
      BY <1>1
    <2>2. \A j \in k + 1 .. Len(shown) : j \in 1 .. Len(shown)
      BY <1>1
    <2>3. \A i \in 1 .. k : Known(shown[i])'
      <3> SUFFICES ASSUME NEW i \in 1 .. k PROVE Known(shown[i])'
        OBVIOUS
      <3>1. Known(shown[i]) /\ shown[i] \in Events
        BY <1>1, <2>1 DEF SplitAt
      <3> DEFINE e == shown[i]
      <3>2. e \in Events /\ Known(e) /\ shown'[i] = e
        BY <1>2, <3>1
      <3> HIDE DEF e
      <3>3. \/ e.no <= count'[e.by]
            \/ at'[e.by] = "put" /\ e.no = count'[e.by] + 1
        BY <3>2, StepGrows DEF Known
      <3> QED
        BY <3>2, <3>3 DEF Known
    <2>4. ASSUME NEW j \in k + 1 .. Len(shown)
          PROVE  /\ shown[j].no <= count'[shown[j].by]
                 /\ \A e \in Range(queue') : e.by = shown[j].by => shown[j].no < e.no
      <3>1. /\ shown[j].by \in Threads /\ shown[j].no \in Nat
            /\ shown[j].no <= count[shown[j].by]
            /\ \A e \in Range(queue) : e.by = shown[j].by => shown[j].no < e.no
        BY <1>1, <2>2 DEF SplitAt
      <3>2. /\ count[shown[j].by] <= count'[shown[j].by]
            /\ count[shown[j].by] \in Nat /\ count'[shown[j].by] \in Nat
        BY <3>1, StepGrows
      <3>3. ASSUME NEW e \in Range(queue'), e.by = shown[j].by PROVE shown[j].no < e.no
        <4>1. CASE e \in Range(queue)
          BY <3>1, <3>3, <4>1
        <4>2. CASE e.no > count[e.by]
          <5>1. QueueInv' /\ TypeInv'
            BY StepQueue, StepType
          <5>2. e.no \in Nat
            BY <5>1, SeqFacts DEF TypeInv, TypeOK, EventsOK, Range
          <5> QED
            BY <3>1, <3>2, <3>3, <4>2, <5>2
        <4> QED
          BY <4>1, <4>2, StepGrows
      <3> QED
        BY <3>1, <3>2, <3>3
    <2>5. \A e \in Pending : e \in Pending'
      BY <1>2, PendingStays
    <2>6. k \in 0 .. Len(shown')
      BY <1>2
    <2>7. SplitAt(k)'
      BY <1>2, <2>3, <2>4, <2>5 DEF SplitAt, Ordered
    <2> QED
      BY <2>6, <2>7
  <1>3. CASE AppendLog
    <2>1. CASE console
      BY <1>3, <2>1, AppendSplit
    <2>2. CASE ~console
      <3>1. shown' = << >>
        BY <1>3, <2>2 DEF AppendLog, PanelInv
      <3> QED
        BY <3>1, EmptySeq DEF SplitAt, Ordered
    <2> QED
      BY <2>1, <2>2
  <1>4. CASE shown' = << >>
    BY <1>4, EmptySeq DEF SplitAt, Ordered
  <1>5. CASE shown' = log'
    <2>1. Len(shown') \in Nat /\ DOMAIN shown' = 1 .. Len(shown')
      BY StepType, SeqFacts DEF TypeInv, TypeOK, EventsOK
    <2>2. Len(shown') \in 0 .. Len(shown') /\ Len(shown') + 1 .. Len(shown') = {}
      BY <2>1
    <2> DEFINE m == Len(shown')
    <2>3. /\ m \in Nat /\ m + 1 .. m = {} /\ DOMAIN shown' = 1 .. m
      BY <2>1, <2>2
    <2>4. Ordered(shown', 1, m) /\ \A i \in 1 .. m : Known(shown[i])'
      BY <1>5, <2>1 DEF LogInv, Ordered, Known
    <2>5. m = Len(shown')
      OBVIOUS
    <2> HIDE DEF m
    <2>6. Ordered(shown', m + 1, Len(shown'))
      BY <2>3, <2>5 DEF Ordered
    <2> QED
      BY <2>3, <2>4, <2>5, <2>6 DEF SplitAt, Ordered
  <1>6. ASSUME NEW t \in Threads, EmitLog(t) \/ EmitPut(t) PROVE UNCHANGED shown /\ ~AppendLog
    BY <1>6 DEF EmitLog, EmitPut, AppendLog, panel, threads, TypeInv, TypeOK, ControlOK
  <1> QED
    BY <1>2, <1>3, <1>4, <1>5, <1>6, StepKinds DEF Same, Rendered, TypeInv, TypeOK

LEMMA InitConsole == Init => ConsoleInv
  <1> SUFFICES ASSUME Init PROVE ConsoleInv
    OBVIOUS
  <1>1. Len(<< >>) = 0
    BY EmptySeq
  <1>2. TypeInv
    BY InitType
  <1>3. LogInv /\ QueueInv /\ PanelInv /\ NothingLost
    BY <1>1 DEF Init, LogInv, QueueInv, PanelInv, NothingLost, Ordered
  <1>4. SplitAt(0) /\ 0 \in 0 .. Len(shown)
    BY <1>1 DEF Init, SplitAt, Ordered
  <1> QED
    BY <1>2, <1>3, <1>4 DEF ConsoleInv

LEMMA StepConsole == ConsoleInv /\ [Next]_vars => ConsoleInv'
  <1> SUFFICES ASSUME ConsoleInv, [Next]_vars PROVE ConsoleInv'
    OBVIOUS
  <1>1. CASE Next
    <2>1. TypeInv' /\ LogInv' /\ QueueInv' /\ PanelInv' /\ NothingLost'
      BY <1>1, StepType, StepLog, StepQueue, StepPanel, StepNothingLost DEF ConsoleInv
    <2>2. \E m \in 0 .. Len(shown') : SplitAt(m)'
      BY <1>1, <2>1, StepSplit DEF ConsoleInv
    <2> QED
      BY <2>1, <2>2 DEF ConsoleInv
  <1>2. CASE UNCHANGED vars
    <2>1. TypeInv'
      BY <1>2, StepType DEF ConsoleInv
    <2>2. (LogInv /\ QueueInv /\ PanelInv /\ NothingLost)'
      BY <1>2 DEF ConsoleInv, LogInv, QueueInv, PanelInv, NothingLost, Ordered, Known, Pending,
                  Made, vars, threads, panel
    <2>3. ASSUME NEW k \in 0 .. Len(shown), SplitAt(k) PROVE SplitAt(k)'
      BY <1>2, <2>3 DEF SplitAt, Ordered, Known, Pending, Made, vars, threads, panel
    <2>4. shown' = shown
      BY <1>2 DEF vars, panel
    <2> QED
      BY <2>1, <2>2, <2>3, <2>4 DEF ConsoleInv
  <1> QED
    BY <1>1, <1>2

LEMMA ConsoleInvariance == Spec => []ConsoleInv
  BY InitConsole, StepConsole, PTL DEF Spec

\* A console that has not been trimmed shows every event of the log, or it is on the way:
\* an event is in the log before it is in the queue, so a console built from the log in
\* between has it twice at most, never not at all.
THEOREM NothingIsLost == Spec => []NothingLost
  BY ConsoleInvariance, PTL DEF ConsoleInv

\* Where an event stands last, and that it stands in each part of a console once at most.
LEMMA LastPlace ==
    ASSUME TypeInv, NEW k \in 0 .. Len(shown), SplitAt(k), NEW e \in Range(shown)
    PROVE  /\ LastAt(e) \in 1 .. Len(shown) /\ shown[LastAt(e)] = e
           /\ \A j \in 1 .. Len(shown) : shown[j] = e => j <= LastAt(e)
           /\ \A i, j \in 1 .. Len(shown) :
                 shown[i] = e /\ shown[j] = e /\ (i <= k <=> j <= k) => i = j
  <1> DEFINE l == Len(shown)
             Is(i) == shown[i] = e /\ \A j \in i + 1 .. l : shown[j] # e
  <1>1. /\ l \in Nat /\ DOMAIN shown = 1 .. l /\ k \in Nat /\ k <= l
        /\ \A i \in 1 .. l : shown[i] \in Events /\ shown[i].by \in Threads /\ shown[i].no \in Nat
    BY SeqFacts DEF TypeInv, TypeOK, EventsOK
  <1>2. ASSUME NEW i \in 1 .. l, NEW j \in 1 .. l, shown[i] = e, shown[j] = e, (i <= k) <=> (j <= k),
               i < j
        PROVE  FALSE
    <2>1. (i \in 1 .. k /\ j \in 1 .. k) \/ (i \in k + 1 .. l /\ j \in k + 1 .. l)
      BY <1>1, <1>2
    <2>2. e.no < e.no
      BY <1>2, <2>1 DEF SplitAt, Ordered
    <2> QED
      BY <1>1, <1>2, <2>2
  <1>3. \A i, j \in 1 .. l : shown[i] = e /\ shown[j] = e /\ (i <= k <=> j <= k) => i = j
    BY <1>1, <1>2
  <1>4. \E i \in 1 .. l : Is(i)
    <2>1. PICK a \in 1 .. l : shown[a] = e
      BY <1>1 DEF Range
    <2>2. CASE \E b \in k + 1 .. l : shown[b] = e
      <3>1. PICK b \in k + 1 .. l : shown[b] = e
        BY <2>2
      <3>2. b \in 1 .. l /\ ~(b <= k)
        BY <1>1
      <3>3. ASSUME NEW j \in b + 1 .. l, shown[j] = e PROVE FALSE
        <4>1. j \in 1 .. l /\ ~(j <= k) /\ j # b
          BY <1>1, <3>2
        <4> QED
          BY <1>3, <3>1, <3>2, <3>3, <4>1
      <3> QED
        BY <3>1, <3>2, <3>3
    <2>3. CASE ~\E b \in k + 1 .. l : shown[b] = e
      <3>1. a <= k
        BY <1>1, <2>1, <2>3
      <3>2. ASSUME NEW j \in a + 1 .. l, shown[j] = e PROVE FALSE
        <4>1. j \in 1 .. l /\ j <= k /\ j # a
          BY <1>1, <2>3, <3>1, <3>2
        <4> QED
          BY <1>3, <2>1, <3>1, <3>2, <4>1
      <3> QED
        BY <2>1, <3>2
    <2> QED
      BY <2>2, <2>3
  <1>5. LastAt(e) = CHOOSE i \in 1 .. l : Is(i)
    BY <1>1 DEF LastAt
  <1> DEFINE m == LastAt(e)
  <1>6. m \in 1 .. l /\ Is(m)
    BY <1>4, <1>5
  <1> HIDE DEF m
  <1>7. ASSUME NEW j \in 1 .. l, shown[j] = e PROVE j <= m
    <2>1. CASE j > m
      <3>1. j \in m + 1 .. l
        BY <1>1, <1>6, <2>1
      <3> QED
        BY <1>6, <1>7, <3>1
    <2> QED
      BY <1>1, <1>6, <2>1
  <1> QED
    BY <1>3, <1>6, <1>7 DEF m

LEMMA TwoAtMost ==
    ASSUME NEW S, NEW a, NEW b, S \subseteq {a, b}
    PROVE  Cardinality(S) <= 2
  <1>1. IsFiniteSet({a}) /\ Cardinality({a}) = 1
    BY FS_Singleton
  <1>2. IsFiniteSet({a} \cup {b}) /\ Cardinality({a} \cup {b}) <= 2
    BY <1>1, FS_AddElement
  <1>3. S \in SUBSET ({a} \cup {b})
    OBVIOUS
  <1>4. IsFiniteSet(S) /\ Cardinality(S) <= Cardinality({a} \cup {b})
    BY <1>2, <1>3, FS_Subset
  <1> QED
    BY <1>2, <1>4, FS_CardinalityType

\* Once they have arrived, the events of a thread stand on the console in the order in which
\* it made them, and none stands there three times.
THEOREM ConsoleInOrder == Spec => []ShownInOrder
  <1>1. ASSUME ConsoleInv PROVE ShownInOrder
    <2> DEFINE l == Len(shown)
    <2>1. PICK k \in 0 .. l : SplitAt(k)
      BY <1>1 DEF ConsoleInv
    <2>2. TypeInv
      BY <1>1 DEF ConsoleInv
    <2>3. /\ l \in Nat /\ DOMAIN shown = 1 .. l /\ k \in Nat /\ k <= l
          /\ \A i \in 1 .. l : shown[i].no \in Nat
      BY <2>2, SeqFacts DEF TypeInv, TypeOK, EventsOK
    <2>4. ASSUME NEW d \in Range(shown), NEW e \in Range(shown), d.by = e.by, d.no < e.no,
                 {d, e} \cap Pending = {}
          PROVE  LastAt(d) < LastAt(e)
      <3> DEFINE i == LastAt(d)
                 j == LastAt(e)
      <3>1. /\ i \in 1 .. l /\ shown[i] = d /\ j \in 1 .. l /\ shown[j] = e
            /\ \A n \in 1 .. l : shown[n] = e => n <= j
        BY <2>1, <2>2, LastPlace
      <3> HIDE DEF i, j
      <3>2. ASSUME j < i PROVE FALSE
        <4>1. CASE i <= k \/ j > k
          <5>1. (i \in 1 .. k /\ j \in 1 .. k) \/ (i \in k + 1 .. l /\ j \in k + 1 .. l)
            BY <2>3, <3>1, <3>2, <4>1
          <5>2. e.no < d.no
            BY <2>1, <2>4, <3>1, <3>2, <5>1 DEF SplitAt, Ordered
          <5> QED
            BY <2>3, <2>4, <3>1, <5>2
        <4>2. CASE j <= k /\ i > k
          <5>1. j \in 1 .. k /\ i \in k + 1 .. l
            BY <2>3, <3>1, <4>2
          <5>2. e \in Pending \cup {shown[n] : n \in k + 1 .. l}
            BY <2>1, <2>4, <3>1, <5>1 DEF SplitAt
          <5>3. PICK n \in k + 1 .. l : shown[n] = e
            BY <2>4, <5>2
          <5> QED
            BY <2>3, <3>1, <4>2, <5>3
        <4> QED
          BY <2>3, <3>1, <4>1, <4>2
      <3>3. i # j
        BY <2>3, <2>4, <3>1
      <3> QED
        BY <2>3, <3>1, <3>2, <3>3 DEF i, j
    <2>5. ASSUME NEW e \in Range(shown)
          PROVE  Cardinality({i \in DOMAIN shown : shown[i] = e}) <= 2
      <3> DEFINE S == {i \in 1 .. l : shown[i] = e}
      <3>1. \A i, j \in S : (i <= k <=> j <= k) => i = j
        BY <2>1, <2>2, LastPlace
      <3> HIDE DEF S
      <3>2. PICK a : \A i \in S : i <= k => i = a
        BY <3>1
      <3>3. PICK b : \A i \in S : ~(i <= k) => i = b
        BY <3>1
      <3>4. S \subseteq {a, b}
        BY <3>2, <3>3
      <3>5. Cardinality(S) <= 2
        BY <3>4, TwoAtMost
      <3> QED
        BY <2>3, <3>5 DEF S
    <2> QED
      BY <2>4, <2>5 DEF ShownInOrder
  <1> QED
    BY <1>1, ConsoleInvariance, PTL

-----------------------------------------------------------------------------
(***************************************************************************)
(* The log file                                                            *)
(***************************************************************************)

\* A mapping that runs writes to the file its configuration names, if it could be opened,
\* and one that is stopped or removed has no file open, with the two exceptions in stray.
THEOREM LogFileFollows == LogSpec => []LogFollowsConfig
  <1> USE DEF Opened, Closed, Stops, CanToggle
  <1>1. LogInit => LogFollowsConfig
    BY DEF LogInit, LogFollowsConfig
  <1>2. LogFollowsConfig /\ [LogNext]_logVars => LogFollowsConfig'
    <2> SUFFICES ASSUME LogFollowsConfig, [LogNext]_logVars PROVE LogFollowsConfig'
      OBVIOUS
    <2> USE DEF LogFollowsConfig
    <2>1. CASE StartService
      BY <2>1 DEF StartService, StartLogs
    <2>2. CASE StopService
      BY <2>2 DEF StopService
    <2>3. CASE StopRaises
      BY <2>3 DEF StopRaises
    <2>4. CASE RemoveMapping
      BY <2>4 DEF RemoveMapping
    <2>5. CASE RefreshPanel
      BY <2>5 DEF RefreshPanel
    <2>6. ASSUME NEW path, UpdateStopped(path) PROVE LogFollowsConfig'
      BY <2>6 DEF UpdateStopped
    <2>7. ASSUME NEW path, UpdateRunning(path) PROVE LogFollowsConfig'
      BY <2>7 DEF UpdateRunning
    <2>8. CASE StopLogging
      BY <2>8 DEF StopLogging
    <2>9. CASE AskPath \/ Cancel
      BY <2>9 DEF AskPath, Cancel
    <2>10. ASSUME NEW path, StartLogging(path) PROVE LogFollowsConfig'
      BY <2>10 DEF StartLogging
    <2>11. CASE UNCHANGED logVars
      BY <2>11 DEF logVars
    <2> QED
      BY <2>1, <2>2, <2>3, <2>4, <2>5, <2>6, <2>7, <2>8, <2>9, <2>10, <2>11 DEF LogNext
  <1> QED
    BY <1>1, <1>2, PTL DEF LogSpec

=============================================================================
