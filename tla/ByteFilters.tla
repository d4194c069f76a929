---------------------------- MODULE ByteFilters ----------------------------
(***************************************************************************)
(* What happens to the bytes on their way: the Telnet filter and the       *)
(* character maps of serialtcp/tcp_server.py, which see a stream chunk by  *)
(* chunk, and the escape sequences of gui/serialtcp_gui/ansi.py, which     *)
(* colour a line of the console.  Bytes and characters are names; a name   *)
(* such as "31" or "exit" stands for the characters it is made of.         *)
(***************************************************************************)
EXTENDS Naturals, Sequences, FiniteSets, SequencesExt

CONSTANTS
    Bytes,          \* what clients and the device send
    Chars,          \* what lines are made of
    MaxStream,      \* bound on the bytes of a stream
    MaxChunk,       \* bound on the bytes of a chunk
    MaxMaps,        \* bound on the maps asked for
    MaxLine         \* bound on the characters of a line

ASSUME ByteFiltersAssumption ==
    MaxStream \in Nat /\ MaxChunk \in Nat /\ MaxMaps \in Nat /\ MaxLine \in Nat

VARIABLES
    way,            \* "output", to the device, or "input", from it
    charMode,       \* the option char_mode
    maps,           \* names of the maps asked for, of this way
    stages,         \* history: the stream as it came and after each filter
    cut,            \* history: the end of a chunk fell into what a filter looks for
    asksStop,       \* the list `stop` has an element
    line,           \* the text of the event shown last
    shown           \* its characters in the widget, with their colours

stream == <<way, charMode, maps, stages, cut, asksStop>>
screen == <<line, shown>>
vars   == <<stream, screen>>

SeqsUpTo(S, n) == UNION {[1 .. m -> S] : m \in 0 .. n}

-----------------------------------------------------------------------------
(***************************************************************************)
(* Scanning from left to right                                             *)
(***************************************************************************)

\* At each place where something of length hit(d, i) > 0 starts, `new` takes its place.
Sweep(d, hit(_, _), new) ==
    LET from[i \in 1 .. Len(d) + 1] ==
            IF i > Len(d) THEN << >>
            ELSE IF hit(d, i) > 0 THEN new \o from[i + hit(d, i)]
            ELSE <<d[i]>> \o from[i + 1]
    IN  from[1]

Verbs == {"WILL", "WONT", "DO", "DONT"}

CommandAt(d, i) ==
    IF d[i] = "IAC" /\ i + 2 <= Len(d) /\ d[i + 1] \in Verbs THEN 3 ELSE 0

\* Mutant: the option of a command stays in the data.
StripTelnetKeepsOption(d) ==
    Sweep(d, LAMBDA e, i : IF CommandAt(e, i) > 0 THEN 2 ELSE 0, << >>)

\* strip_telnet_commands
StripTelnet(d) == Sweep(d, CommandAt, << >>)

\* CHAR_MAPS
CharMaps == [
    INLCRNL  |-> [way |-> "input",  from |-> <<"LF">>,        to |-> <<"CR", "LF">>],
    ICRNL    |-> [way |-> "input",  from |-> <<"CR">>,        to |-> <<"LF">>],
    IGNCR    |-> [way |-> "input",  from |-> <<"CR">>,        to |-> << >>],
    IGNLF    |-> [way |-> "input",  from |-> <<"LF">>,        to |-> << >>],
    OCRNULNL |-> [way |-> "output", from |-> <<"CR", "NUL">>, to |-> <<"LF">>],
    OCRNLNL  |-> [way |-> "output", from |-> <<"CR", "LF">>,  to |-> <<"LF">>],
    ONLCRNL  |-> [way |-> "output", from |-> <<"LF">>,        to |-> <<"CR", "LF">>],
    ONLCR    |-> [way |-> "output", from |-> <<"LF">>,        to |-> <<"CR">>],
    OCRNL    |-> [way |-> "output", from |-> <<"CR">>,        to |-> <<"LF">>],
    ODELBS   |-> [way |-> "output", from |-> <<"DEL">>,       to |-> <<"BS">>],
    OBSDEL   |-> [way |-> "output", from |-> <<"BS">>,        to |-> <<"DEL">>]]

SourceAt(name, d, i) ==
    LET from == CharMaps[name].from
    IN  IF IsPrefix(from, SubSeq(d, i, Len(d))) THEN Len(from) ELSE 0

\* bytes.replace with one of the maps.
Replaced(name, d) == Sweep(d, LAMBDA e, i : SourceAt(name, e, i), CharMaps[name].to)

\* The filters in their order: the Telnet filter if charMode, then the maps; what filter n
\* looks for.
HitAt(n, d, i) ==
    IF n > 1 THEN SourceAt(maps[n - 1], d, i)
    ELSE IF charMode THEN CommandAt(d, i) ELSE 0

\* Mutant: the maps are applied in the opposite order.
FilterReversed(n, d) ==
    IF n > 1 THEN Replaced(maps[Len(maps) + 2 - n], d)
    ELSE IF charMode THEN StripTelnet(d) ELSE d

\* _apply_maps, and what goes before it.
Filter(n, d) ==
    IF n > 1 THEN Replaced(maps[n - 1], d)
    ELSE IF charMode THEN StripTelnet(d) ELSE d

\* A chunk as it came and after each filter.
Filtered(d) ==
    LET after[n \in 1 .. Len(maps) + 2] == IF n = 1 THEN d ELSE Filter(n - 1, after[n - 1])
    IN  [n \in 1 .. Len(maps) + 2 |-> after[n]]

\* Something the filter n looks for begins in `d` and goes on in `e`.
Crosses(n, d, e) == \E i \in DOMAIN d : i + HitAt(n, d \o e, i) > Len(d) + 1

Pass(chunk) ==
    LET new == Filtered(chunk)
    IN  /\ stages' = [n \in DOMAIN stages |-> stages[n] \o new[n]]
        /\ cut' = cut \cup {n \in 1 .. Len(maps) + 1 : Crosses(n, stages[n], new[n])}

\* on_tcp_receive: the exit command is looked for in the chunk as it came, and the rest of
\* the chunk goes with it.
OnTcpReceive(chunk) ==
    /\ way = "output"
    /\ IF "exit" \in Range(chunk)
       THEN asksStop' = TRUE /\ UNCHANGED <<stages, cut>>
       ELSE Pass(chunk) /\ UNCHANGED asksStop
    /\ UNCHANGED <<way, charMode, maps, screen>>

\* on_serial_receive
OnSerialReceive(chunk) ==
    /\ way = "input"
    /\ Pass(chunk)
    /\ UNCHANGED <<way, charMode, maps, asksStop, screen>>

-----------------------------------------------------------------------------
(***************************************************************************)
(* Escape sequences                                                        *)
(***************************************************************************)

Pairs    == {"31", "32", "39"}
Digits   == {"0", "7"} \cup Pairs
Params   == Digits \cup {";", "?"}
Between  == {" ", "!"}
Finals   == {"m", "x", "[", "]", "\\"}
Controls == {"ESC", "BEL"}
Colours  == {"default", "red", "green"}

\* The first place from i on that is not in S, or the one after the end.
PastAll(S, d, i) ==
    LET past[j \in i .. Len(d) + 1] == IF j <= Len(d) /\ d[j] \in S THEN past[j + 1] ELSE j
    IN  past[i]

\* _ANSI_RE: a CSI sequence, or else an OSC sequence, or else two characters.
EscapeAt(d, i) ==
    LET csi == PastAll(Between, d, PastAll(Params, d, i + 2))
        osc == PastAll(Chars \ {"BEL", "ESC"}, d, i + 2)
    IN  IF d[i] # "ESC" \/ i = Len(d) THEN 0
        ELSE IF d[i + 1] = "[" /\ csi <= Len(d) /\ d[csi] \in Finals THEN csi - i + 1
        ELSE IF d[i + 1] = "]" /\ osc <= Len(d) /\ d[osc] = "BEL" THEN osc - i + 1
        ELSE IF d[i + 1] = "]" /\ osc < Len(d) /\ d[osc] = "ESC" /\ d[osc + 1] = "\\"
             THEN osc - i + 2
        ELSE 2

\* int(part), of which an empty one counts as 0.  Of the characters that may stand in a part
\* int() passes over spaces and takes digits only.
Code(part) ==
    LET number == SelectSeq(part, LAMBDA c : c # " ")
        first  == PastAll({"0"}, number, 1)
    IN  IF (part # << >> /\ number = << >>) \/ ~(Range(number) \subseteq Digits) THEN "unknown"
        ELSE IF first > Len(number) THEN "0"
        ELSE IF first = Len(number) THEN number[first] ELSE "unknown"

\* The codes of the escape sequence of n characters at i: none, unless it is an SGR.
Codes(d, i, n) ==
    LET ends == SetToSortSeq({j \in i + 2 .. i + n - 1 : d[j] \in {";", "m"}}, <)
        Part(k) == SubSeq(d, IF k = 1 THEN i + 2 ELSE ends[k - 1] + 1, ends[k] - 1)
    IN  IF n > 2 /\ d[i + 1] = "[" /\ d[i + n - 1] = "m"
        THEN [k \in DOMAIN ends |-> Code(Part(k))] ELSE << >>

\* What a code makes of the current colour.
Coloured(current, code) ==
    CASE code \in {"0", "39"} -> "default"
      [] code = "31" -> "red"
      [] code = "32" -> "green"
      [] OTHER -> current

\* Mutant: the first code of a sequence decides.
RecolouredFirst(current, codes) ==
    IF codes = << >> THEN current ELSE Coloured(current, Head(codes))

Recoloured(current, codes) == FoldLeft(Coloured, current, codes)

\* Mutant: the text after the last escape sequence is forgotten.
ParseAnsiNoTail(d) ==
    LET from[i \in 1 .. Len(d) + 1, current \in Colours] ==
            LET n == EscapeAt(d, i)
            IN  IF \A j \in i .. Len(d) : EscapeAt(d, j) = 0 THEN << >>
                ELSE IF n > 0 THEN from[i + n, Recoloured(current, Codes(d, i, n))]
                ELSE << <<d[i], current>> >> \o from[i + 1, current]
    IN  from[1, "default"]

\* parse_ansi: the characters outside escape sequences, with their colours.
ParseAnsi(d) ==
    LET from[i \in 1 .. Len(d) + 1, current \in Colours] ==
            LET n == EscapeAt(d, i)
            IN  IF i > Len(d) THEN << >>
                ELSE IF n > 0 THEN from[i + n, Recoloured(current, Codes(d, i, n))]
                ELSE << <<d[i], current>> >> \o from[i + 1, current]
    IN  from[1, "default"]

\* clean
Clean(chars) == SelectSeq(chars, LAMBDA c : c[1] \notin Controls)

\* _insert_event, of an event with this text.
InsertEvent(text) ==
    /\ line' = text
    /\ shown' = Clean(ParseAnsi(text))
    /\ UNCHANGED stream

-----------------------------------------------------------------------------
\* A character map is refused if it is not known; the maps of the other way do nothing.
MapNames(w) == {name \in DOMAIN CharMaps : CharMaps[name].way = w}

Init ==
    /\ way \in {"input", "output"}
    /\ charMode \in BOOLEAN /\ (way = "input" => ~charMode)
    /\ maps \in SeqsUpTo(MapNames(way), MaxMaps)
    /\ stages = [n \in 1 .. Len(maps) + 2 |-> << >>]
    /\ cut = {}
    /\ asksStop = FALSE
    /\ line = << >>
    /\ shown = << >>

\* Bound: of the bytes that nothing in the behaviour looks for there are CR and LF only.
Relevant ==
    Bytes \cap ({"CR", "LF", "exit"} \cup (IF charMode THEN {"IAC", "WILL"} ELSE {})
               \cup UNION {Range(CharMaps[name].from) : name \in Range(maps)})

Transfer ==
    \E chunk \in SeqsUpTo(Relevant, MaxChunk) \ {<< >>} :
        /\ Len(stages[1]) + Len(chunk) <= MaxStream
        /\ OnTcpReceive(chunk) \/ OnSerialReceive(chunk)

\* Lines are shown one character longer at a time, which reaches all of them but those where
\* an ESC would take one of two characters that have one name.
Display ==
    \E c \in Chars :
        /\ Len(line) < MaxLine
        /\ ~(c \in Pairs /\ line # << >> /\ Last(line) = "ESC")
        /\ InsertEvent(Append(line, c))

Next == Transfer \/ Display

Spec == Init /\ [][Next]_vars

-----------------------------------------------------------------------------
(***************************************************************************)
(* Properties.  Their references say what is found where, not how to scan. *)
(***************************************************************************)

\* The places where something is found: those not inside what is found before them.
Found(d, hit(_, _)) ==
    LET there == {i \in DOMAIN d : hit(d, i) > 0}
        Inside(i, S) == \E j \in S : j < i /\ i < j + hit(d, j)
    IN  CHOOSE S \in SUBSET there : \A i \in there : i \in S <=> ~Inside(i, S)

\* The places it takes up.
Covered(d, hit(_, _)) ==
    UNION {i .. i + hit(d, i) - 1 : i \in Found(d, hit)}

Rewritten(d, hit(_, _), new) ==
    LET starts  == Found(d, hit)
        covered == Covered(d, hit)
    IN  FlattenSeq([i \in DOMAIN d |-> IF i \in starts THEN new
                                       ELSE IF i \in covered THEN << >> ELSE <<d[i]>>])

\* What a filter makes of a stream does not depend on the chunks it comes in, unless the
\* end of one fell into a command or into what a map replaces: then only that filter, and
\* those after it through their input, can tell.
ChunksDoNotMatter ==
    \A n \in 1 .. Len(maps) + 1 : n \notin cut =>
        stages[n + 1] = Rewritten(stages[n], LAMBDA d, i : HitAt(n, d, i),
                            IF n = 1 THEN << >> ELSE CharMaps[maps[n - 1]].to)

\* The places of a line that are neither in an escape sequence nor control characters.
ShownPlaces ==
    SetToSortSeq({i \in DOMAIN line \ Covered(line, EscapeAt) : line[i] \notin Controls}, <)

\* The console shows all of a line but its escape sequences and control characters, and
\* nothing twice.
TextSurvives ==
    LET places == ShownPlaces
    IN  [i \in DOMAIN shown |-> shown[i][1]] = [i \in DOMAIN places |-> line[places[i]]]

\* Every character has the colour of the last code before it that sets one.
ColoursFollow ==
    LET places == ShownPlaces
        starts == SetToSortSeq(Found(line, EscapeAt), <)
        Before(p) == SelectSeq(starts, LAMBDA i : i < p)
        AllCodes(p) == FlattenSeq([k \in DOMAIN Before(p) |->
                        Codes(line, Before(p)[k], EscapeAt(line, Before(p)[k]))])
        Setting(p) == SelectSeq(AllCodes(p), LAMBDA c : c \notin {"7", "unknown"})
        Expected(p) == IF Setting(p) = << >> THEN "default"
                       ELSE Coloured("default", Last(Setting(p)))
    IN  DOMAIN shown = DOMAIN places =>
            \A i \in DOMAIN shown : shown[i][2] = Expected(places[i])
=============================================================================
