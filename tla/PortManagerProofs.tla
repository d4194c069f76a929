-------------------------- MODULE PortManagerProofs --------------------------
(***************************************************************************)
(* What holds of the port manager for any ports, mappings and requests,    *)
(* and that it does what MappingTable promises.                            *)
(***************************************************************************)
EXTENDS MCPortManager, FiniteSetTheorems, SequenceTheorems, TLAPS

-----------------------------------------------------------------------------
(***************************************************************************)
(* Lists without repetition                                                *)
(***************************************************************************)

\* A set of positions has a first.
LEMMA FirstPlace ==
    ASSUME NEW n \in Nat, NEW X, X # {}, \A x \in X : x \in 1 .. n
    PROVE  \E m \in X : \A x \in X : m <= x
  <1> DEFINE UpTo(x) == {y \in X : y <= x}
             S == 1 .. n
             T == {UpTo(x) : x \in X}
  <1>1. IsFiniteSet(S)
    BY FS_Interval
  <1>2. FiniteSubsetsOf(S) = SUBSET S
    BY <1>1, FS_FiniteSubsetsOfFinite
  <1>3. T \subseteq SUBSET S /\ T # {}
    OBVIOUS
  <1>4. IsWellFoundedOn(StrictSubsetOrdering(S), SUBSET S)
    BY <1>2, FS_StrictSubsetOrderingWellFounded
  <1>5. PICK t \in T : \A u \in T : <<u, t>> \notin StrictSubsetOrdering(S)
    <2> HIDE DEF T, S
    <2> QED
      BY <1>3, <1>4, WFMin
  <1>6. PICK m \in X : t = UpTo(m)
    OBVIOUS
  <1>7. ASSUME NEW x \in X, x < m PROVE FALSE
    <2>1. UpTo(x) \in T /\ UpTo(x) \subseteq t /\ UpTo(x) # t
      BY <1>6, <1>7
    <2> QED
      BY <1>3, <1>5, <2>1 DEF StrictSubsetOrdering
  <1>8. \A x \in X : x \in Nat
    OBVIOUS
  <1> QED
    BY <1>7, <1>8

LEMMA ListFacts ==
    ASSUME NEW S, NEW s \in Seq(S)
    PROVE  /\ Len(s) \in Nat /\ DOMAIN s = 1 .. Len(s) /\ s \in [1 .. Len(s) -> S]
           /\ \A i \in 1 .. Len(s) : s[i] \in S /\ s[i] \in Range(s)
           /\ Range(s) \subseteq S
           /\ s # << >> <=> Len(s) > 0
  BY EmptySeq, LenProperties, ElementOfSeq DEF Range

LEMMA AppendedList ==
    ASSUME NEW S, NEW s \in Seq(S), IsInjective(s), NEW x \in S \ Range(s)
    PROVE  /\ Append(s, x) \in Seq(S) /\ IsInjective(Append(s, x))
           /\ Range(Append(s, x)) = Range(s) \cup {x}
           /\ Append(s, x) # << >>
  <1> DEFINE t == Append(s, x)
             n == Len(s)
  <1>1. /\ n \in Nat /\ DOMAIN s = 1 .. n
        /\ t \in Seq(S) /\ DOMAIN t = 1 .. n + 1
        /\ \A i \in 1 .. n : t[i] = s[i] /\ s[i] \in Range(s)
        /\ t[n + 1] = x /\ Len(t) = n + 1
    BY ListFacts, AppendProperties
  <1> HIDE DEF t
  <1>2. IsInjective(t)
    BY <1>1 DEF IsInjective
  <1>3. Range(t) = Range(s) \cup {x}
    <2>1. ASSUME NEW y \in Range(t) PROVE y \in Range(s) \cup {x}
      BY <1>1, <2>1 DEF Range
    <2>2. ASSUME NEW y \in Range(s) PROVE y \in Range(t)
      <3>1. PICK i \in 1 .. n : s[i] = y
        BY <1>1 DEF Range
      <3>2. i \in DOMAIN t /\ t[i] = y
        BY <1>1, <3>1
      <3> QED
        BY <3>2 DEF Range
    <2>3. x \in Range(t)
      BY <1>1 DEF Range
    <2> QED
      BY <2>1, <2>2, <2>3
  <1> QED
    BY <1>1, <1>2, <1>3, EmptySeq DEF t

\* A mapping taken from the list.
LEMMA ShortenedList ==
    ASSUME NEW S, NEW s \in Seq(S), IsInjective(s), NEW x \in Range(s)
    PROVE  /\ RemoveFirst(s, x) \in Seq(S) /\ IsInjective(RemoveFirst(s, x))
           /\ Range(RemoveFirst(s, x)) = Range(s) \ {x}
  <1> DEFINE n == Len(s)
  <1>1. n \in Nat /\ DOMAIN s = 1 .. n /\ \A i \in 1 .. n : s[i] \in S /\ s[i] \in Range(s)
    BY ListFacts
  <1>2. PICK k \in 1 .. n : s[k] = x
    BY <1>1 DEF Range
  <1>3. {i \in 1 .. n : s[i] = x} = {k}
    BY <1>1, <1>2 DEF IsInjective
  <1>4. Min({k}) = k
    BY <1>1, <1>2 DEF Min
  <1>5. SelectInSeq(s, LAMBDA v : v = x) = k
    BY <1>3, <1>4 DEF SelectInSeq
  <1> DEFINE a == SubSeq(s, 1, k - 1)
             b == SubSeq(s, k + 1, n)
             t == a \o b
  <1>6. RemoveFirst(s, x) = t
    BY <1>2, <1>5 DEF RemoveFirst, RemoveAt
  <1> HIDE DEF n
  <1>7. /\ k \in Int /\ k - 1 \in Int /\ k + 1 \in Int /\ n \in Int /\ k <= n
        /\ (k + 1 <= n => n - (k + 1) + 1 = n - k) /\ (~(k + 1 <= n) => n - k = 0)
    <2>1. n \in Nat
      BY <1>1
    <2> QED
      BY <2>1
  <1>8. a \in Seq(S) /\ Len(a) = k - 1 /\ \A i \in 1 .. k - 1 : a[i] = s[i]
    <2>1. \A i \in 1 .. k - 1 : s[i] \in S
      BY <1>1, <1>2
    <2> QED
      BY <1>1, <1>2, <1>7, <2>1, SubSeqProperties
  <1>9. b \in Seq(S) /\ Len(b) = n - k /\ \A i \in 1 .. n - k : b[i] = s[k + i]
    <2>1. \A i \in k + 1 .. n : s[i] \in S
      BY <1>1, <1>2
    <2>2. /\ b \in Seq(S) /\ Len(b) = IF k + 1 <= n THEN n - (k + 1) + 1 ELSE 0
          /\ \A i \in 1 .. n - (k + 1) + 1 : b[i] = s[k + 1 + i - 1]
      BY <1>7, <2>1, SubSeqProperties
    <2> HIDE DEF b
    <2>3. n - (k + 1) + 1 = n - k /\ \A i \in 1 .. n - k : k + 1 + i - 1 = k + i
      BY <1>1, <1>2
    <2>4. Len(b) = n - k
      BY <1>7, <2>2
    <2> QED
      BY <2>2, <2>3, <2>4
  <1> HIDE DEF a, b
  <1>10. /\ t \in Seq(S) /\ Len(t) = n - 1
         /\ \A i \in 1 .. n - 1 : t[i] = IF i <= k - 1 THEN a[i] ELSE b[i - (k - 1)]
    <2>1. Len(a) + Len(b) = n - 1
      BY <1>1, <1>2, <1>8, <1>9
    <2>2. /\ t \in Seq(S) /\ Len(t) = Len(a) + Len(b)
          /\ \A i \in 1 .. Len(a) + Len(b) : t[i] = IF i <= Len(a) THEN a[i] ELSE b[i - Len(a)]
      BY <1>8, <1>9, ConcatProperties
    <2> QED
      BY <1>8, <2>1, <2>2
  <1> HIDE DEF t
  <1>11. /\ DOMAIN t = 1 .. n - 1
         /\ \A i \in 1 .. n - 1 : t[i] = IF i < k THEN s[i] ELSE s[i + 1]
    <2>1. DOMAIN t = 1 .. n - 1
      BY <1>10, LenProperties
    <2>2. ASSUME NEW i \in 1 .. n - 1 PROVE t[i] = IF i < k THEN s[i] ELSE s[i + 1]
      <3>1. CASE i < k
        BY <1>1, <1>2, <1>8, <1>10, <3>1
      <3>2. CASE ~(i < k)
        <4>1. i - (k - 1) \in 1 .. n - k /\ ~(i <= k - 1) /\ k + (i - (k - 1)) = i + 1
          BY <1>1, <1>2, <3>2
        <4> QED
          BY <1>9, <1>10, <3>2, <4>1
      <3> QED
        BY <3>1, <3>2
    <2> QED
      BY <2>1, <2>2
  <1>12. IsInjective(t)
    <2> DEFINE p(i) == IF i < k THEN i ELSE i + 1
    <2>1. ASSUME NEW i \in 1 .. n - 1, NEW j \in 1 .. n - 1, t[i] = t[j] PROVE i = j
      <3>1. p(i) \in 1 .. n /\ p(j) \in 1 .. n /\ (p(i) = p(j) => i = j)
        BY <1>1, <1>2
      <3>2. s[p(i)] = s[p(j)]
        BY <1>11, <2>1
      <3> QED
        BY <1>1, <3>1, <3>2 DEF IsInjective
    <2> QED
      BY <1>11, <2>1 DEF IsInjective
  <1>13. Range(t) = Range(s) \ {x}
    <2>1. ASSUME NEW y \in Range(t) PROVE y \in Range(s) /\ y # x
      <3>1. PICK i \in 1 .. n - 1 : t[i] = y
        BY <1>11 DEF Range
      <3>2. \E j \in 1 .. n : j # k /\ s[j] = y
        BY <1>1, <1>2, <1>11, <3>1
      <3> QED
        BY <1>1, <1>2, <3>2 DEF IsInjective
    <2>2. ASSUME NEW y \in Range(s), y # x PROVE y \in Range(t)
      <3>1. PICK j \in 1 .. n : s[j] = y
        BY <1>1 DEF Range
      <3>2. \E i \in 1 .. n - 1 : t[i] = y
        <4>1. CASE j < k
          BY <1>1, <1>2, <1>11, <3>1, <4>1
        <4>2. CASE j > k
          <5>1. j - 1 \in 1 .. n - 1 /\ ~(j - 1 < k) /\ j - 1 + 1 = j
            BY <1>1, <1>2, <4>2
          <5> QED
            BY <1>11, <3>1, <5>1
        <4> QED
          BY <1>1, <1>2, <2>2, <3>1, <4>1, <4>2
      <3> QED
        BY <1>11, <3>2 DEF Range
    <2> QED
      BY <2>1, <2>2
  <1> QED
    BY <1>6, <1>10, <1>12, <1>13

LEMMA TakenList ==
    ASSUME NEW S, NEW s \in Seq(S), IsInjective(s), s # << >>
    PROVE  /\ Head(s) \in S /\ Tail(s) \in Seq(S) /\ IsInjective(Tail(s))
           /\ Head(s) \notin Range(Tail(s)) /\ Range(s) = Range(Tail(s)) \cup {Head(s)}
  <1> DEFINE n == Len(s)
             t == Tail(s)
  <1>1. /\ n \in Nat /\ n > 0 /\ DOMAIN s = 1 .. n /\ Head(s) = s[1] /\ s[1] \in S
        /\ t \in Seq(S) /\ DOMAIN t = 1 .. n - 1
        /\ \A i \in 1 .. n - 1 : t[i] = s[i + 1]
    BY ListFacts, HeadTailProperties
  <1> HIDE DEF n, t
  <1>2. IsInjective(t)
    <2>1. ASSUME NEW i \in 1 .. n - 1, NEW j \in 1 .. n - 1, t[i] = t[j] PROVE i = j
      <3>1. i + 1 \in 1 .. n /\ j + 1 \in 1 .. n
        BY <1>1
      <3>2. s[i + 1] = s[j + 1]
        BY <1>1, <2>1
      <3>3. i + 1 = j + 1
        BY <1>1, <3>1, <3>2 DEF IsInjective
      <3> QED
        BY <3>3
    <2> QED
      BY <1>1, <2>1 DEF IsInjective
  <1>3. ASSUME NEW i \in 1 .. n - 1, t[i] = s[1] PROVE FALSE
    <2>1. i + 1 \in 1 .. n /\ 1 \in 1 .. n /\ i + 1 # 1
      BY <1>1
    <2>2. s[i + 1] = s[1]
      BY <1>1, <1>3
    <2> QED
      BY <1>1, <2>1, <2>2 DEF IsInjective
  <1>4. \A i \in 1 .. n : i = 1 \/ (i - 1 \in 1 .. n - 1 /\ t[i - 1] = s[i])
    BY <1>1
  <1>5. \A i \in 1 .. n - 1 : i + 1 \in 1 .. n /\ 1 \in 1 .. n
    BY <1>1
  <1>6. Head(s) \notin Range(t)
    BY <1>1, <1>3 DEF Range
  <1>7. Range(s) = Range(t) \cup {Head(s)}
    <2>1. Range(s) = {s[i] : i \in 1 .. n} /\ Range(t) = {t[i] : i \in 1 .. n - 1}
      BY <1>1 DEF Range
    <2>2. \A i \in 1 .. n : s[i] = s[1] \/ \E j \in 1 .. n - 1 : t[j] = s[i]
      BY <1>1, <1>4
    <2>3. \A j \in 1 .. n - 1 : \E i \in 1 .. n : t[j] = s[i]
      BY <1>1, <1>5
    <2>4. 1 \in 1 .. n
      BY <1>1
    <2> QED
      BY <1>1, <2>1, <2>2, <2>3, <2>4
  <1> QED
    BY <1>1, <1>2, <1>6, <1>7 DEF t

\* The first of a list that is not empty stands on it.
LEMMA HeadOfList ==
    ASSUME NEW S, NEW s \in Seq(S), s # << >>
    PROVE  s[1] \in Range(s) /\ s[1] \in S
  BY ListFacts

-----------------------------------------------------------------------------
(***************************************************************************)
(* What the operations do to the list of mappings                          *)
(***************************************************************************)

\* The mappings on the list are different ones, and each has a port.
ListOK ==
    /\ services \in Seq(Maps) /\ IsInjective(services)
    /\ port \in [Maps -> Ports \cup {None}]
    /\ running \subseteq Maps
    /\ \A m \in Listed : port[m] \in Ports

LEMMA ListedFacts ==
    ASSUME ListOK
    PROVE  /\ Len(services) \in Nat /\ DOMAIN services = 1 .. Len(services)
           /\ \A i \in 1 .. Len(services) : services[i] \in Listed
           /\ \A m \in Listed : \E i \in 1 .. Len(services) : services[i] = m
           /\ Listed \subseteq Maps
  BY ListFacts DEF ListOK, Listed, Range

\* Lookup finds a mapping with that port if there is one on the list.
LEMMA LookupFacts ==
    ASSUME ListOK, NEW p
    PROVE  /\ Lookup(p) = None => \A m \in Listed : port[m] # p
           /\ Lookup(p) # None =>
                 Lookup(p) \in Listed /\ Lookup(p) \in Maps /\ port[Lookup(p)] = p
  <1> DEFINE n == Len(services)
             First(i) == port[services[i]] = p /\ \A j \in 1 .. i - 1 : port[services[j]] # p
  <1>1. /\ n \in Nat /\ DOMAIN services = 1 .. n
        /\ \A i \in 1 .. n : services[i] \in Listed
        /\ \A m \in Listed : \E i \in 1 .. n : services[i] = m
        /\ Listed \subseteq Maps
    BY ListedFacts
  <1> HIDE DEF n
  <1>2. CASE \E m \in Listed : port[m] = p
    <2>1. \E i \in 1 .. n : port[services[i]] = p
      BY <1>1, <1>2
    <2> DEFINE X == {i \in 1 .. n : port[services[i]] = p}
    <2>2. PICK i \in X : \A j \in X : i <= j
      <3>1. X # {} /\ \A j \in X : j \in 1 .. n
        BY <2>1
      <3> HIDE DEF X
      <3> QED
        BY <1>1, <3>1, FirstPlace
    <2>3. First(i)
      BY <1>1, <2>2
    <2> DEFINE k == CHOOSE j \in DOMAIN services : First(j)
    <2>4. k \in 1 .. n /\ First(k)
      BY <1>1, <2>2, <2>3
    <2>5. Lookup(p) = services[k]
      BY <1>2 DEF Lookup
    <2> HIDE DEF k
    <2>6. services[k] \in Listed /\ services[k] \in Maps /\ port[services[k]] = p
      BY <1>1, <2>4
    <2>7. services[k] # None
      BY <2>6, PortManagerAssumption
    <2> QED
      BY <2>5, <2>6, <2>7
  <1>3. CASE ~\E m \in Listed : port[m] = p
    BY <1>3 DEF Lookup
  <1> QED
    BY <1>2, <1>3

LEMMA AddFacts ==
    ASSUME ListOK, NEW m \in Maps, NEW p \in Ports, AddPortConfig(m, p)
    PROVE  /\ ListOK'
           /\ m \notin Listed /\ m \notin running /\ running' = running
           /\ Listed' = Listed \cup {m}
           /\ \A n \in Maps : port'[n] = IF n = m THEN p ELSE port[n]
  <1>1. m \notin Listed /\ m \notin running
    BY DEF AddPortConfig, Unused
  <1>2. /\ services' \in Seq(Maps) /\ IsInjective(services')
        /\ Listed' = Listed \cup {m}
    BY <1>1, AppendedList DEF AddPortConfig, ListOK, Listed
  <1>3. /\ port' \in [Maps -> Ports \cup {None}]
        /\ \A n \in Maps : port'[n] = IF n = m THEN p ELSE port[n]
    BY DEF AddPortConfig, ListOK
  <1>4. running' = running
    BY DEF AddPortConfig
  <1>5. \A n \in Listed' : port'[n] \in Ports
    BY <1>2, <1>3, ListedFacts DEF ListOK
  <1> QED
    BY <1>1, <1>2, <1>3, <1>4, <1>5 DEF ListOK

LEMMA UpdateFacts ==
    ASSUME ListOK, NEW m \in Maps, NEW p \in Ports, UpdatePortConfig(m, p)
    PROVE  /\ ListOK'
           /\ services' = services /\ Listed' = Listed
           /\ \A n \in Maps : port'[n] = IF n = m THEN p ELSE port[n]
           /\ running' \subseteq running /\ running \ {m} \subseteq running'
           /\ m \in running' <=> /\ m \in running /\ p \notin Foreign
                                 /\ \A n \in running \ {m} : port[n] # p
  <1>1. services' = services /\ Listed' = Listed
    BY DEF UpdatePortConfig, Listed
  <1>2. /\ port' \in [Maps -> Ports \cup {None}]
        /\ \A n \in Maps : port'[n] = IF n = m THEN p ELSE port[n]
    BY DEF UpdatePortConfig, ListOK
  <1>3. /\ running' \subseteq running /\ running \ {m} \subseteq running'
        /\ m \in running' <=> /\ m \in running /\ p \notin Foreign
                              /\ \A n \in running \ {m} : port[n] # p
    <2>1. running \subseteq Maps
      BY DEF ListOK
    <2>2. port'[m] = p /\ \A n \in running \ {m} : port'[n] = port[n]
      BY <1>2, <2>1
    <2>3. running' = IF m \in running
                     THEN IF p \in Foreign \/ \E n \in running \ {m} : port[n] = p
                          THEN running \ {m} ELSE running
                     ELSE running
      BY <2>2 DEF UpdatePortConfig, Started
    <2> QED
      BY <2>3
  <1>4. ListOK'
    BY <1>1, <1>2, <1>3, ListedFacts DEF ListOK
  <1> QED
    BY <1>1, <1>2, <1>3, <1>4

LEMMA RemoveFacts ==
    ASSUME ListOK, NEW m \in Maps, RemovePortConfig(m)
    PROVE  /\ ListOK'
           /\ m \in Listed /\ Listed' = Listed \ {m}
           /\ running' = running \ {m}
           /\ \A n \in Maps \ {m} : port'[n] = port[n]
           /\ (selected' = selected /\ selected # m) \/ selected' \in Listed' \cup {None}
           /\ selected' \in Maps \cup {None, selected}
  <1>1. m \in Listed /\ running' = running \ {m}
    BY DEF RemovePortConfig
  <1>2. /\ services' \in Seq(Maps) /\ IsInjective(services')
        /\ Listed' = Listed \ {m}
    BY <1>1, ShortenedList DEF RemovePortConfig, ListOK, Listed
  <1>3. /\ port' \in [Maps -> Ports \cup {None}]
        /\ \A n \in Maps \ {m} : port'[n] = port[n]
    BY DEF RemovePortConfig, Forgotten, ListOK
  <1>4. \A n \in Listed' : port'[n] \in Ports
    BY <1>2, <1>3, ListedFacts DEF ListOK
  <1>5. services' # << >> => services'[1] \in Listed' /\ services'[1] \in Maps
    BY <1>2, HeadOfList DEF Listed
  <1>6. running' \subseteq Maps
    BY <1>1 DEF ListOK
  <1>7. /\ (selected' = selected /\ selected # m) \/ selected' \in Listed' \cup {None}
        /\ selected' \in Maps \cup {None, selected}
    BY <1>5 DEF RemovePortConfig
  <1> QED
    BY <1>1, <1>2, <1>3, <1>4, <1>6, <1>7 DEF ListOK

\* Starting adds mappings of the list whose ports are free.
LEMMA StartedAllFacts ==
    ASSUME NEW f, NEW on, NEW s \in Seq(Maps), NEW S
    PROVE  /\ on \subseteq StartedAll(f, on, s, S)
           /\ StartedAll(f, on, s, S) \subseteq on \cup Range(s)
           /\ \A n \in StartedAll(f, on, s, S) \ on :
                 n \in S /\ f[n] \notin Foreign /\ \A m \in on : f[m] # f[n]
  <1>1. \A i \in DOMAIN s : s[i] \in Range(s)
    BY ListFacts
  <1> QED
    BY <1>1 DEF StartedAll

LEMMA StartedFacts ==
    ASSUME NEW f, NEW on, NEW m
    PROVE  /\ on \subseteq Started(f, on, m) /\ Started(f, on, m) \subseteq on \cup {m}
           /\ m \in Started(f, on, m) \ on => f[m] \notin Foreign
           /\ f[m] \notin Foreign /\ (\A n \in on : f[n] = f[m] => n = m) => m \in Started(f, on, m)
  BY DEF Started

LEMMA LoadFacts ==
    ASSUME ListOK, disk \in Seq(Ports), NEW on, on \subseteq running, Load(on)
    PROVE  /\ ListOK'
           /\ DOMAIN services' = DOMAIN disk
           /\ \A i \in DOMAIN disk : port'[services'[i]] = disk[i]
           /\ Listed' \cap on = {}
           /\ on \subseteq running' /\ running' \subseteq on \cup Listed'
           /\ \A n \in running' \ on : port'[n] \notin Foreign
           /\ selected' \in Listed' \cup {None}
  <1> DEFINE n == Len(disk)
  <1>1. n \in Nat /\ DOMAIN disk = 1 .. n /\ \A i \in 1 .. n : disk[i] \in Ports
    BY ListFacts
  <1> HIDE DEF n
  <1>2. PICK new \in [DOMAIN disk -> Maps \ on] : \E auto \in SUBSET DOMAIN disk :
            /\ IsInjective(new)
            /\ services' = new
            /\ port' = [m \in Maps |-> IF m \in on THEN port[m]
                        ELSE IF m \in Range(new)
                             THEN disk[CHOOSE i \in DOMAIN disk : new[i] = m] ELSE None]
            /\ running' = StartedAll(port', on, new, {new[i] : i \in auto})
            /\ selected' = IF new = << >> THEN None ELSE new[1]
    BY DEF Load
  <1>3. new \in Seq(Maps) /\ DOMAIN new = 1 .. n /\ IsInjective(new)
    <2>1. \A i \in 1 .. n : new[i] \in Maps
      BY <1>1, <1>2
    <2>2. new \in [1 .. n -> Maps]
      BY <1>1, <1>2, <2>1
    <2> QED
      BY <1>1, <1>2, <2>2, IsASeq
  <1>4. \A i \in 1 .. n : new[i] \in Maps /\ new[i] \notin on /\ new[i] \in Range(new)
    BY <1>1, <1>2, <1>3 DEF Range
  <1>5. ASSUME NEW i \in 1 .. n PROVE port'[new[i]] = disk[i]
    <2>1. (CHOOSE j \in DOMAIN disk : new[j] = new[i]) = i
      BY <1>1, <1>3 DEF IsInjective
    <2> QED
      BY <1>2, <1>4, <2>1
  <1>6. ASSUME NEW m \in Range(new) PROVE \E i \in 1 .. n : new[i] = m
    BY <1>3 DEF Range
  <1>7. Listed' = Range(new) /\ Listed' \cap on = {}
    BY <1>2, <1>4, <1>6 DEF Listed
  <1>8. port' \in [Maps -> Ports \cup {None}]
    <2>1. ASSUME NEW m \in Maps PROVE port'[m] \in Ports \cup {None}
      <3>1. CASE m \in on
        BY <1>2, <3>1 DEF ListOK
      <3>2. CASE m \in Range(new)
        BY <1>1, <1>5, <1>6, <3>2
      <3>3. CASE m \notin on /\ m \notin Range(new)
        BY <1>2, <3>3
      <3> QED
        BY <3>1, <3>2, <3>3
    <2> QED
      BY <1>2, <2>1
  <1>9. /\ on \subseteq running' /\ running' \subseteq on \cup Listed'
        /\ \A m \in running' \ on : port'[m] \notin Foreign
    BY <1>2, <1>3, <1>7, StartedAllFacts
  <1>10. selected' \in Listed' \cup {None}
    <2>1. new # << >> => new[1] \in Range(new)
      BY <1>3, HeadOfList
    <2> QED
      BY <1>2, <1>7, <2>1
  <1>11. \A m \in Listed' : port'[m] \in Ports
    BY <1>1, <1>5, <1>6, <1>7
  <1>12. running' \subseteq Maps
    BY <1>3, <1>7, <1>9, ListFacts DEF ListOK
  <1> QED
    BY <1>1, <1>2, <1>3, <1>5, <1>7, <1>8, <1>9, <1>10, <1>11, <1>12 DEF ListOK

\* What the file holds once the list has been written to it, or could not be.
LEMMA SaveFacts ==
    ASSUME ListOK', disk \in Seq(Ports), SaveDone \/ SaveFails
    PROVE  /\ disk' \in Seq(Ports) /\ unsaved' \in BOOLEAN /\ SavedIsCurrent'
           /\ \/ disk' = disk
              \/ \E n \in 0 .. Len(services') : disk' = [i \in 1 .. n |-> port'[services'[i]]]
  <1>1. /\ Len(services') \in Nat /\ DOMAIN services' = 1 .. Len(services')
        /\ \A i \in 1 .. Len(services') : port'[services'[i]] \in Ports
    BY ListFacts DEF ListOK, Listed
  <1>2. ASSUME NEW n \in 0 .. Len(services')
        PROVE  [i \in 1 .. n |-> port'[services'[i]]] \in Seq(Ports)
    <2>1. n \in Nat /\ \A i \in 1 .. n : i \in 1 .. Len(services')
      BY <1>1
    <2> QED
      BY <1>1, <2>1, IsASeq
  <1>3. CASE SaveDone
    <2>1. Len(services') \in 0 .. Len(services')
      BY <1>1
    <2>2. disk' = [i \in 1 .. Len(services') |-> port'[services'[i]]]
      BY <1>1, <1>3 DEF SaveDone
    <2>3. disk' \in Seq(Ports)
      BY <1>2, <2>1, <2>2
    <2> QED
      BY <1>3, <2>1, <2>2, <2>3 DEF SaveDone, SavedIsCurrent
  <1>4. CASE SaveFails
    BY <1>2, <1>4 DEF SaveFails, SavedIsCurrent
  <1> QED
    BY <1>3, <1>4

\* Of a list that is unchanged, too.
LEMMA SameList ==
    ASSUME ListOK, UNCHANGED <<services, port>>, running' \subseteq Maps
    PROVE  ListOK' /\ Listed' = Listed
  BY DEF ListOK, Listed

-----------------------------------------------------------------------------
(***************************************************************************)
(* Types, the file and the queue of requests, whatever the user does under *)
(* an open dialog.  A request has something to do from the moment it is    *)
(* put into the queue until it is answered, and nothing before and after.  *)
(***************************************************************************)

FileOK ==
    /\ disk \in Seq(Ports)
    /\ unsaved \in BOOLEAN
    /\ SavedIsCurrent

PanelOK ==
    /\ selected \in Maps \cup {None}
    /\ modal \in Modals
    /\ modal.kind \in {"edit", "remove", "saveFailed"} => modal.subject \in Maps

AskedOK ==
    /\ calls \in Seq(Requests) /\ IsInjective(calls)
    /\ current \in Requests \cup {None}
    /\ box \in Table!Results \cup {None}
    /\ op \in [Requests -> Table!Ops \cup {None}]
    /\ status \in [Requests -> {"idle", "waiting", "gaveUp"} \cup Table!Results]
    /\ current \notin Range(calls)
    /\ \A r \in Requests : IF r \in Range(calls) \cup {current}
                           THEN op[r] \in Table!Ops ELSE op[r] = None
    /\ box # None => current # None

\* Nothing is open or being carried out when the window closes.
LifeOK ==
    /\ app \in {"open", "closing", "closed"}
    /\ api \in BOOLEAN
    /\ faults \in 0 .. MaxFaults
    /\ app # "open" => current = None /\ modal = NoModal

BaseInv == ListOK /\ FileOK /\ PanelOK /\ AskedOK /\ LifeOK

LEMMA BaseIsTyped == BaseInv => TypeOK
  BY DEF BaseInv, TypeOK, ListOK, FileOK, PanelOK, AskedOK, LifeOK

LEMMA SameFile ==
    ASSUME FileOK, UNCHANGED <<services, port, file>> PROVE FileOK'
  BY DEF FileOK, SavedIsCurrent, file

LEMMA SavedFile ==
    ASSUME FileOK, ListOK', SaveDone \/ SaveFails PROVE FileOK'
  BY SaveFacts DEF FileOK

LEMMA SameAsked ==
    ASSUME AskedOK, UNCHANGED <<loop, request>> PROVE AskedOK'
  BY DEF AskedOK, loop, request

LEMMA Faults ==
    ASSUME LifeOK
    PROVE  /\ UNCHANGED faults => faults' \in 0 .. MaxFaults
           /\ faults < MaxFaults /\ faults' = faults + 1 => faults' \in 0 .. MaxFaults
  BY PortManagerAssumption DEF LifeOK

\* What the request that is being carried out asks for.
LEMMA OpFacts ==
    ASSUME AskedOK, NEW kind, Running(kind)
    PROVE  /\ current \in Requests /\ box = None
           /\ op[current] \in Table!Ops /\ op[current].kind = kind
           /\ kind \in {"create", "update", "delete", "start", "stop"} => op[current].tcp \in Ports
           /\ kind = "update" => op[current].to \in Ports
  <1>1. /\ current \in Requests /\ box = None /\ op[current].kind = kind
        /\ op[current] \in Table!Ops
    BY DEF AskedOK, Running
  <1> DEFINE o == op[current]
  <1>2. o \in Table!Ops
    BY <1>1
  <1> HIDE DEF o
  <1>3. /\ o.kind \in {"create", "update", "delete", "start", "stop"} => o.tcp \in Ports
        /\ o.kind = "update" => o.to \in Ports
    BY <1>2 DEF Table!Ops
  <1> QED
    BY <1>1, <1>3 DEF o

LEMMA AnsweredOK ==
    ASSUME AskedOK, current # None, NEW res \in Table!Results, Answer(res), UNCHANGED calls
    PROVE  AskedOK'
  <1>1. current \in Requests /\ current' = None /\ box' = None /\ calls' = calls
    BY DEF Answer, AskedOK
  <1>2. \A r \in Requests : op'[r] = IF r = current THEN None ELSE op[r]
    BY DEF Answer, AskedOK
  <1>3. /\ op' \in [Requests -> Table!Ops \cup {None}]
        /\ status' \in [Requests -> {"idle", "waiting", "gaveUp"} \cup Table!Results]
    BY <1>1 DEF Answer, AskedOK
  <1>4. None \notin Requests
    BY PortManagerAssumption
  <1>5. Range(calls) \subseteq Requests /\ current \notin Range(calls)
    BY ListFacts DEF AskedOK
  <1>6. \A r \in Requests : IF r \in Range(calls') \cup {current'}
                            THEN op'[r] \in Table!Ops ELSE op'[r] = None
    BY <1>1, <1>2, <1>4, <1>5 DEF AskedOK
  <1> QED
    BY <1>1, <1>3, <1>4, <1>5, <1>6 DEF AskedOK

\* The call has done its work and shows a message.
LEMMA BoxedOK ==
    ASSUME AskedOK, current # None, box' = "ok", UNCHANGED <<calls, current, request>>
    PROVE  AskedOK'
  BY DEF AskedOK, request, Table!Results

LEMMA AnswerFacts ==
    ASSUME AskedOK, current # None, SaveAndAnswer, UNCHANGED calls
    PROVE  AskedOK' /\ (SaveDone \/ SaveFails)
  <1>1. CASE SaveDone /\ Answer("ok")
    BY <1>1, AnsweredOK DEF Table!Results
  <1>2. CASE SaveFails /\ box' = "ok" /\ UNCHANGED <<current, request>>
    BY <1>2, BoxedOK
  <1> QED
    BY <1>1, <1>2 DEF SaveAndAnswer

LEMMA InitList ==
    ASSUME Init
    PROVE  /\ ListOK /\ FileOK
           /\ IsInjective(disk) /\ DOMAIN disk = DOMAIN services
           /\ \A i \in DOMAIN disk : port[services[i]] = disk[i]
           /\ running \subseteq Listed /\ \A m \in running : port[m] \notin Foreign
           /\ selected \in Listed \cup {None}
  <1> DEFINE n == Len(disk)
  <1>1. PICK k \in Nat : disk \in [1 .. k -> Ports]
    BY PortManagerAssumption, FS_CardinalityType DEF Init, SeqOf
  <1>2. disk \in Seq(Ports)
    BY <1>1
  <1>3. n \in Nat /\ DOMAIN disk = 1 .. n /\ \A i \in 1 .. n : disk[i] \in Ports
    BY <1>2, ListFacts
  <1> HIDE DEF n
  <1>4. services \in [1 .. n -> Maps] /\ IsInjective(services) /\ IsInjective(disk)
    BY <1>3 DEF Init
  <1>5. services \in Seq(Maps)
    BY <1>3, <1>4
  <1>6. /\ \A m \in Listed : \E i \in 1 .. n : services[i] = m
        /\ \A i \in 1 .. n : services[i] \in Listed /\ services[i] \in Maps
    BY <1>4 DEF Listed, Range
  <1>7. ASSUME NEW i \in 1 .. n PROVE port[services[i]] = disk[i]
    <2>1. (CHOOSE j \in DOMAIN disk : services[j] = services[i]) = i
      BY <1>3, <1>4 DEF IsInjective
    <2> QED
      BY <1>6, <2>1 DEF Init
  <1>8. \A m \in Listed : port[m] \in Ports
    BY <1>3, <1>6, <1>7
  <1>9. port \in [Maps -> Ports \cup {None}]
    BY <1>8 DEF Init
  <1>10. running \subseteq Listed /\ \A m \in running : port[m] \notin Foreign
    <2>1. PICK auto \in SUBSET Listed : running = StartedAll(port, {}, services, auto)
      BY DEF Init
    <2>2. running \subseteq {} \cup Range(services) /\ \A m \in running \ {} : port[m] \notin Foreign
      BY <1>5, <2>1, StartedAllFacts
    <2> QED
      BY <2>2 DEF Listed
  <1>11. ListOK
    BY <1>4, <1>5, <1>6, <1>8, <1>9, <1>10 DEF ListOK
  <1>12. selected \in Listed \cup {None}
    <2>1. services # << >> => services[1] \in Listed
      BY <1>5, HeadOfList DEF Listed
    <2> QED
      BY <2>1 DEF Init
  <1>13. disk = [i \in DOMAIN services |-> port[services[i]]]
    BY <1>1, <1>3, <1>4, <1>7
  <1>14. FileOK
    BY <1>2, <1>13 DEF FileOK, SavedIsCurrent, Init
  <1> QED
    BY <1>3, <1>4, <1>7, <1>10, <1>11, <1>12, <1>14

LEMMA InitBase == Init => BaseInv
  <1> SUFFICES ASSUME Init PROVE BaseInv
    OBVIOUS
  <1>1. ListOK /\ FileOK /\ selected \in Maps \cup {None}
    BY InitList, ListedFacts
  <1>2. PanelOK
    BY <1>1 DEF Init, PanelOK, NoModal, Modals
  <1>3. calls = << >> /\ Range(calls) = {} /\ DOMAIN calls = {} /\ calls \in Seq(Requests)
    BY EmptySeq DEF Init, Range
  <1>4. AskedOK
    BY <1>3, PortManagerAssumption DEF Init, AskedOK, IsInjective
  <1>5. LifeOK
    BY PortManagerAssumption DEF Init, StartApi, LifeOK
  <1> QED
    BY <1>1, <1>2, <1>4, <1>5 DEF BaseInv

\* The user.
LEMMA UserBase == ASSUME BaseInv, User PROVE BaseInv'
  <1> USE DEF BaseInv, Rest
  <1>1. ASSUME UNCHANGED <<services, port, file>>, AskedOK', running' \subseteq Maps, PanelOK', LifeOK'
        PROVE  BaseInv'
    BY <1>1, SameList, SameFile
  <1>2. ASSUME UNCHANGED <<loop, request, life>> PROVE AskedOK'
    BY <1>2, SameAsked
  <1>3. ASSUME NEW m \in Maps, Select(m) PROVE BaseInv'
    BY <1>1, <1>2, <1>3 DEF Select, ListOK, PanelOK, LifeOK, UiIdle, UiFree, loop, life
  <1>4. CASE OpenAdd \/ OpenEdit \/ AskRemove \/ AskReload \/ Cancel
    <2>1. /\ UNCHANGED <<table, file, faults>> /\ Rest /\ UiFree
      BY <1>4 DEF OpenAdd, OpenEdit, AskRemove, AskReload, Cancel, UiIdle
    <2>2. /\ UNCHANGED <<services, port, file, selected>> /\ running' \subseteq Maps
      BY <2>1 DEF table, ListOK
    <2>3. \A S \in SUBSET Listed : {port[m] : m \in S} \in SUBSET Ports
      BY DEF ListOK
    <2>4. PanelOK'
      <3>1. {port[m] : m \in Listed} \in SUBSET Ports
        BY <2>3
      <3>2. {port[m] : m \in Listed \ {selected}} \in SUBSET Ports
        BY <2>3
      <3>3. /\ OpenAdd => modal'.kind = "add" /\ modal' \in Modals
            /\ OpenEdit => modal'.subject = selected /\ selected # None /\ modal' \in Modals
        BY <3>1, <3>2 DEF OpenAdd, OpenEdit, PanelOK, Modals
      <3>4. AskRemove => modal'.subject = selected /\ selected # None /\ modal' \in Modals
        BY DEF AskRemove, PanelOK, NoModal, Modals
      <3>5. /\ AskReload => modal'.kind = "reload" /\ modal' \in Modals
            /\ Cancel => modal'.kind = "none" /\ modal' \in Modals
        BY DEF AskReload, Cancel, NoModal, Modals
      <3>6. modal' \in Modals
        BY <1>4, <3>3, <3>4, <3>5
      <3>7. modal'.kind \in {"edit", "remove", "saveFailed"}
            => modal'.subject = selected /\ selected # None
        <4>1. modal'.kind # "saveFailed"
          <5>1. (OpenAdd => modal'.kind = "add") /\ (OpenEdit => modal'.kind = "edit")
            BY DEF OpenAdd, OpenEdit
          <5>2. AskRemove => modal'.kind = "remove"
            BY DEF AskRemove, NoModal
          <5> QED
            BY <1>4, <3>5, <5>1, <5>2
        <4> QED
          BY <1>4, <3>3, <3>4, <3>5, <4>1
      <3> QED
        BY <2>2, <3>6, <3>7 DEF PanelOK
    <2>5. LifeOK'
      BY <2>1 DEF LifeOK, UiFree, life, loop
    <2> QED
      BY <1>1, <1>2, <2>1, <2>2, <2>4, <2>5
  <1>5. CASE StartSelected \/ StopSelected \/ StartAll \/ StopAll
    <2>1. UNCHANGED <<services, port, selected, file, modal>> /\ Rest /\ UiIdle
      BY <1>5 DEF StartSelected, StopSelected, StartAll, StopAll
    <2>2. faults' \in 0 .. MaxFaults
      BY <1>5, Faults DEF StartSelected, StopSelected, StartAll, StopAll, StopAllDone, StopRaises
    <2>3. running' \subseteq Maps
      <3>1. running \subseteq Maps /\ Listed \subseteq Maps
        BY ListedFacts DEF ListOK
      <3>2. StartAll => running' \subseteq running \cup Listed
        BY StartedAllFacts DEF StartAll, ListOK, Listed
      <3>3. StartSelected => running' \subseteq running \cup {selected} /\ selected \in Maps
        BY StartedFacts DEF StartSelected, PanelOK
      <3>4. StopSelected \/ StopAll => running' \subseteq running
        BY DEF StopSelected, StopAll, StopAllDone, StopRaises
      <3> QED
        BY <1>5, <3>1, <3>2, <3>3, <3>4
    <2>4. PanelOK' /\ LifeOK'
      BY <2>1, <2>2 DEF PanelOK, LifeOK, UiIdle, UiFree, life, loop
    <2> QED
      BY <1>1, <1>2, <2>1, <2>3, <2>4
  <1>6. ASSUME NEW p \in Ports, SaveAdd(p) PROVE BaseInv'
    <2>1. PICK m \in Maps : AddPortConfig(m, p) /\ selected' = m
      BY <1>6 DEF SaveAdd
    <2>2. ListOK'
      BY <2>1, AddFacts
    <2>3. FileOK' /\ faults' \in 0 .. MaxFaults
      BY <1>6, <2>2, SavedFile, Faults DEF SaveAdd, Save, SaveFails
    <2>4. PanelOK' /\ LifeOK'
      BY <1>6, <2>1, <2>3 DEF SaveAdd, UiFree, PanelOK, LifeOK, NoModal, Modals, life, loop
    <2> QED
      BY <1>2, <1>6, <2>2, <2>3, <2>4 DEF SaveAdd
  <1>7. ASSUME NEW p \in Ports, SaveEdit(p) PROVE BaseInv'
    <2> DEFINE m == modal.subject
               Told == [NoModal EXCEPT !.kind = "saveFailed", !.subject = m]
    <2>1. m \in Maps /\ Told \in Modals /\ Told.subject = m /\ NoModal \in Modals
      BY <1>7 DEF SaveEdit, PanelOK, NoModal, Modals
    <2>2. UiFree /\ Rest /\ AskedOK'
      BY <1>2, <1>7 DEF SaveEdit
    <2>3. \/ StopOneRaises(m) /\ modal' = NoModal
          \/ /\ UpdatePortConfig(m, p) /\ selected' \in {selected, m} /\ Save
             /\ modal' \in {NoModal, Told}
      BY <1>7 DEF SaveEdit, Save
    <2>4. selected' \in {selected, m} /\ faults' \in 0 .. MaxFaults /\ modal' \in {NoModal, Told}
      BY <2>3, Faults DEF StopOneRaises, Save, SaveFails
    <2> HIDE DEF m, Told
    <2>5. PanelOK' /\ LifeOK'
      <3>1. NoModal.kind = "none"
        BY DEF NoModal
      <3> QED
        BY <2>1, <2>2, <2>4, <3>1 DEF UiFree, PanelOK, LifeOK, life, loop
    <2>6. CASE StopOneRaises(m)
      <3>1. UNCHANGED <<services, port, selected, file>> /\ running' \subseteq Maps
        BY <2>6 DEF StopOneRaises, ListOK
      <3> QED
        BY <1>1, <2>2, <2>5, <3>1
    <2>7. CASE UpdatePortConfig(m, p) /\ Save
      <3>1. ListOK'
        BY <2>1, <2>7, UpdateFacts
      <3>2. FileOK'
        BY <2>7, <3>1, SavedFile DEF Save
      <3> QED
        BY <2>2, <2>5, <3>1, <3>2
    <2> QED
      BY <2>3, <2>6, <2>7
  <1>8. CASE ConfirmRemove
    <2> DEFINE m == modal.subject
    <2>1. m \in Maps
      BY <1>8 DEF ConfirmRemove, PanelOK
    <2> HIDE DEF m
    <2>2. modal' = NoModal /\ UiFree /\ Rest /\ AskedOK'
      BY <1>2, <1>8 DEF ConfirmRemove
    <2>3. CASE \/ StopOneRaises(m)
               \/ /\ running' = running \ {m}
                  /\ UNCHANGED <<services, port, selected, file, faults>>
      <3>1. faults' \in 0 .. MaxFaults /\ UNCHANGED <<services, port, selected, file>>
        BY <2>3, Faults DEF StopOneRaises
      <3>2. running' \subseteq Maps
        BY <2>3 DEF StopOneRaises, ListOK
      <3>3. PanelOK' /\ LifeOK'
        BY <2>2, <3>1 DEF UiFree, PanelOK, LifeOK, NoModal, Modals, life, loop
      <3> QED
        BY <1>1, <2>2, <3>1, <3>2, <3>3
    <2>4. CASE RemovePortConfig(m) /\ Save
      <3>1. ListOK' /\ selected' \in Maps \cup {None}
        BY <2>1, <2>4, RemoveFacts DEF PanelOK
      <3>2. FileOK' /\ faults' \in 0 .. MaxFaults
        BY <2>4, <3>1, SavedFile, Faults DEF Save, SaveFails
      <3>3. PanelOK' /\ LifeOK'
        BY <2>2, <3>1, <3>2 DEF UiFree, PanelOK, LifeOK, NoModal, Modals, life, loop
      <3> QED
        BY <2>2, <3>1, <3>2, <3>3
    <2> QED
      BY <1>8, <2>3, <2>4 DEF ConfirmRemove, m
  <1>9. CASE ConfirmReload
    <2>1. modal' = NoModal /\ UiFree /\ Rest /\ AskedOK' /\ UNCHANGED file
      BY <1>2, <1>9 DEF ConfirmReload
    <2>2. CASE Load(running \ Listed) /\ UNCHANGED faults
      <3>1. /\ ListOK' /\ selected' \in Listed' \cup {None}
            /\ DOMAIN services' = DOMAIN disk
            /\ \A i \in DOMAIN disk : port'[services'[i]] = disk[i]
        <4>1. running \ Listed \subseteq running /\ disk \in Seq(Ports)
          BY DEF FileOK
        <4> QED
          BY <2>2, <4>1, LoadFacts
      <3>2. selected' \in Maps \cup {None}
        <4>1. Listed' \subseteq Maps
          BY <3>1, ListFacts DEF ListOK, Listed
        <4> QED
          BY <3>1, <4>1
      <3>3. disk = [i \in DOMAIN services' |-> port'[services'[i]]]
        <4>1. disk = [i \in DOMAIN disk |-> disk[i]]
          BY ListFacts DEF FileOK
        <4> QED
          BY <3>1, <4>1
      <3>4. FileOK'
        BY <2>1, <3>3 DEF FileOK, SavedIsCurrent, file
      <3>5. PanelOK' /\ LifeOK'
        BY <2>1, <2>2, <3>2 DEF UiFree, PanelOK, LifeOK, NoModal, Modals, life, loop
      <3> QED
        BY <2>1, <3>1, <3>4, <3>5
    <2>3. ASSUME NEW k \in DOMAIN services, StopRaises(k), UNCHANGED <<services, port, selected>>
          PROVE  BaseInv'
      <3>1. faults' \in 0 .. MaxFaults /\ running' \subseteq Maps
        BY <2>3, Faults DEF StopRaises, ListOK
      <3>2. PanelOK' /\ LifeOK'
        BY <2>1, <2>3, <3>1 DEF UiFree, PanelOK, LifeOK, NoModal, Modals, life, loop
      <3> QED
        BY <1>1, <2>1, <2>3, <3>1, <3>2
    <2> QED
      BY <1>9, <2>2, <2>3 DEF ConfirmReload
  <1>10. CASE SaveConfiguration
    <2>1. UNCHANGED <<services, port, running, selected, modal>> /\ Rest /\ UiIdle /\ Save
      BY <1>10 DEF SaveConfiguration, table
    <2>2. ListOK'
      BY <2>1, SameList DEF ListOK
    <2>3. FileOK' /\ faults' \in 0 .. MaxFaults
      BY <2>1, <2>2, SavedFile, Faults DEF Save, SaveFails
    <2>4. PanelOK' /\ LifeOK'
      BY <2>1, <2>3 DEF PanelOK, LifeOK, UiIdle, UiFree, life, loop
    <2> QED
      BY <1>2, <2>1, <2>2, <2>3, <2>4
  <1>11. CASE Close
    <2>1. /\ UNCHANGED <<services, port, running, selected, file, modal, loop, request, faults>>
          /\ UiIdle /\ app' = "closing" /\ api' = FALSE
      BY <1>11 DEF Close, StopApi, table
    <2>2. PanelOK' /\ LifeOK' /\ AskedOK' /\ running' \subseteq Maps
      BY <2>1, SameAsked DEF PanelOK, LifeOK, UiIdle, UiFree, loop, ListOK
    <2> QED
      BY <1>1, <2>1, <2>2
  <1>12. CASE CloseDone
    <2>1. /\ UNCHANGED <<selected, modal, loop, request, api, services, port>>
          /\ running' \subseteq running
          /\ app = "closing" /\ app' \in {"open", "closed"}
          /\ faults' \in 0 .. MaxFaults
      BY <1>12, Faults DEF CloseDone, Save, SaveFails, StopRaises
    <2>2. ListOK' /\ AskedOK'
      BY <2>1, SameList, SameAsked DEF ListOK
    <2>3. FileOK'
      BY <1>12, <2>2, SavedFile, SameFile DEF CloseDone, Save
    <2>4. PanelOK' /\ LifeOK'
      BY <2>1 DEF PanelOK, LifeOK, loop
    <2> QED
      BY <2>2, <2>3, <2>4
  <1>13. CASE DismissBox
    <2>1. /\ box # None /\ Answer(box) /\ current # None
          /\ UNCHANGED <<services, port, running, selected, file, modal, calls, life, faults>>
      BY <1>13 DEF DismissBox, table, AskedOK
    <2>2. AskedOK'
      BY <2>1, AnsweredOK DEF AskedOK
    <2>3. PanelOK' /\ LifeOK' /\ running' \subseteq Maps
      BY <2>1 DEF PanelOK, LifeOK, life, ListOK, Answer
    <2> QED
      BY <1>1, <2>1, <2>2, <2>3
  <1>14. CASE DismissSaveFailed
    <2>1. PanelOK' /\ LifeOK'
      BY <1>14 DEF DismissSaveFailed, UiFree, PanelOK, LifeOK, NoModal, Modals, life, loop
    <2> QED
      BY <1>1, <1>2, <1>14, <2>1 DEF DismissSaveFailed, ListOK
  <1> QED
    BY <1>3, <1>4, <1>5, <1>6, <1>7, <1>8, <1>9, <1>10, <1>11, <1>12, <1>13, <1>14 DEF User

\* Requests: asked, given up and answered without the list, ...
LEMMA QueueBase ==
    ASSUME BaseInv,
           \/ \E r \in Requests : \/ GiveUp(r)
                                  \/ \E o \in Table!Ops : Post(r, o)
                                  \/ \E p \in Ports \cup {None} : Look(r, p)
           \/ Tick
    PROVE  BaseInv'
  <1> USE DEF BaseInv
  <1>1. ASSUME UNCHANGED <<table, file, modal, faults>>, AskedOK', LifeOK' PROVE BaseInv'
    <2>1. UNCHANGED <<services, port, file, selected, modal>> /\ running' \subseteq Maps
      BY <1>1 DEF table, ListOK
    <2> QED
      BY <1>1, <2>1, SameList, SameFile DEF PanelOK
  <1>2. \A r \in Range(calls) : r \in Requests
    BY ListFacts DEF AskedOK
  <1>3. ASSUME NEW r \in Requests, NEW o \in Table!Ops, Post(r, o) PROVE BaseInv'
    <2>1. /\ r # current /\ r \notin Range(calls) /\ UNCHANGED <<current, box, life, faults>>
          /\ calls' = Append(calls, r) /\ UNCHANGED <<table, file, modal>>
      BY <1>3 DEF Post
    <2>2. calls' \in Seq(Requests) /\ IsInjective(calls') /\ Range(calls') = Range(calls) \cup {r}
      BY <2>1, AppendedList DEF AskedOK
    <2>3. /\ op' \in [Requests -> Table!Ops \cup {None}]
          /\ \A q \in Requests : op'[q] = IF q = r THEN o ELSE op[q]
          /\ status' \in [Requests -> {"idle", "waiting", "gaveUp"} \cup Table!Results]
      BY <1>3 DEF Post, AskedOK
    <2>4. AskedOK'
      BY <2>1, <2>2, <2>3 DEF AskedOK
    <2>5. LifeOK'
      BY <2>1 DEF LifeOK, life
    <2> QED
      BY <1>1, <2>1, <2>4, <2>5
  <1>4. ASSUME NEW r \in Requests, GiveUp(r) \/ \E p \in Ports \cup {None} : Look(r, p)
        PROVE  BaseInv'
    <2>1. UNCHANGED <<table, file, modal, loop, op, life, faults>>
      BY <1>4 DEF GiveUp, Look
    <2>2. status' \in [Requests -> {"idle", "waiting", "gaveUp"} \cup Table!Results]
      BY <1>4 DEF GiveUp, Look, AskedOK, Table!Results
    <2>3. AskedOK' /\ LifeOK'
      BY <2>1, <2>2 DEF AskedOK, LifeOK, life, loop
    <2> QED
      BY <1>1, <2>1, <2>3
  <1>5. CASE Tick
    <2>1. /\ UiFree /\ calls # << >> /\ current' = Head(calls) /\ calls' = Tail(calls)
          /\ UNCHANGED <<table, file, modal, box, request, life, faults>>
      BY <1>5 DEF Tick
    <2> DEFINE h == Head(calls)
    <2>2. /\ h \in Requests /\ calls' \in Seq(Requests) /\ IsInjective(calls')
          /\ h \notin Range(calls') /\ Range(calls) = Range(calls') \cup {h}
      BY <2>1, TakenList DEF AskedOK
    <2>3. current = None /\ None \notin Requests
      BY <2>1, PortManagerAssumption DEF UiFree
    <2>4. AskedOK'
      BY <2>1, <2>2, <2>3 DEF AskedOK, request
    <2>5. LifeOK'
      BY <2>1 DEF LifeOK, life, UiFree
    <2> QED
      BY <1>1, <2>1, <2>4, <2>5
  <1> QED
    BY <1>3, <1>4, <1>5

\* ... and carried out.
LEMMA CallBase ==
    ASSUME BaseInv,
           \/ CreatePort \/ UpdatePort \/ DeletePort \/ StartPort \/ StopPort
           \/ StartAllPorts \/ StopAllPorts
    PROVE  BaseInv'
  <1> USE DEF BaseInv
  <1>1. UNCHANGED <<modal, calls, life>> /\ current # None
    BY DEF CreatePort, UpdatePort, DeletePort, StartPort, StopPort, StartAllPorts, StopAllPorts,
           Running
  <1>2. app = "open"
    BY <1>1 DEF LifeOK
  <1>3. ASSUME selected' \in Maps \cup {None}, faults' \in 0 .. MaxFaults PROVE PanelOK' /\ LifeOK'
    BY <1>1, <1>2, <1>3 DEF PanelOK, LifeOK, life
  <1>4. selected \in Maps \cup {None} /\ running \subseteq Maps /\ Listed \subseteq Maps
    BY ListedFacts DEF PanelOK, ListOK
  <1>5. ASSUME UNCHANGED <<services, port, selected, file>>, running' \subseteq Maps,
               faults' \in 0 .. MaxFaults, NEW res \in Table!Results, Answer(res)
        PROVE  BaseInv'
    BY <1>1, <1>3, <1>4, <1>5, SameList, SameFile, AnsweredOK
  <1>6. {"ok", "errors", "refused"} \subseteq Table!Results
    BY DEF Table!Results
  <1>7. CASE Refuse
    BY <1>4, <1>5, <1>6, <1>7, Faults DEF Refuse, table
  <1>8. ASSUME NEW m, StopOneRaises(m) /\ Answer("refused") PROVE BaseInv'
    <2>1. running' \subseteq Maps /\ faults' \in 0 .. MaxFaults
      BY <1>4, <1>8, Faults DEF StopOneRaises
    <2> QED
      BY <1>5, <1>6, <1>8, <2>1 DEF StopOneRaises
  <1>9. ASSUME ListOK', selected' \in Maps \cup {None}, SaveAndAnswer PROVE BaseInv'
    <2>1. AskedOK' /\ FileOK'
      BY <1>1, <1>9, AnswerFacts, SavedFile
    <2>2. faults' \in 0 .. MaxFaults
      BY <1>9, Faults DEF SaveAndAnswer, SaveFails
    <2> QED
      BY <1>3, <1>9, <2>1, <2>2
  <1>10. Subject # None => Subject \in Maps
    BY LookupFacts DEF Subject
  <1>11. CASE CreatePort
    <2>1. CASE Subject = None
      <3>1. PICK m \in Maps : AddPortConfig(m, op[current].tcp)
        BY <1>11, <2>1 DEF CreatePort
      <3>2. op[current].tcp \in Ports
        BY <1>11, OpFacts DEF CreatePort
      <3>3. ListOK'
        BY <3>1, <3>2, AddFacts
      <3> QED
        BY <1>4, <1>9, <1>11, <2>1, <3>3 DEF CreatePort
    <2> QED
      BY <1>7, <1>11, <2>1 DEF CreatePort
  <1>12. CASE UpdatePort
    <2>1. CASE UpdatePortConfig(Subject, op[current].to) /\ UNCHANGED selected /\ SaveAndAnswer
               /\ Subject # None
      <3>1. op[current].to \in Ports
        BY <1>12, OpFacts DEF UpdatePort
      <3>2. ListOK'
        BY <1>10, <2>1, <3>1, UpdateFacts
      <3> QED
        BY <1>4, <1>9, <2>1, <3>2
    <2> QED
      BY <1>7, <1>8, <1>12, <2>1 DEF UpdatePort
  <1>13. CASE DeletePort
    <2>1. CASE RemovePortConfig(Subject) /\ SaveAndAnswer /\ Subject # None
      <3>1. ListOK' /\ selected' \in Maps \cup {None}
        BY <1>4, <1>10, <2>1, RemoveFacts
      <3> QED
        BY <1>9, <2>1, <3>1
    <2> QED
      BY <1>7, <1>8, <1>13, <2>1 DEF DeletePort
  <1>14. CASE StartPort
    <2>1. CASE Subject # None
      <3>1. /\ running' = Started(port, running, Subject)
            /\ Answer(IF Subject \in running' THEN "ok" ELSE "refused")
            /\ UNCHANGED <<services, port, selected, file, faults>>
        BY <1>14, <2>1 DEF StartPort
      <3>2. running' \subseteq Maps
        BY <1>4, <1>10, <2>1, <3>1, StartedFacts
      <3> QED
        BY <1>5, <1>6, <3>1, <3>2, Faults
    <2> QED
      BY <1>7, <1>14, <2>1 DEF StartPort
  <1>15. CASE StopPort
    <2>1. CASE /\ running' = running \ {Subject} /\ Answer("ok")
               /\ UNCHANGED <<services, port, selected, file, faults>>
      BY <1>4, <1>5, <1>6, <2>1, Faults
    <2> QED
      BY <1>7, <1>8, <1>15, <2>1 DEF StopPort
  <1>16. CASE StartAllPorts
    <2>1. running' \subseteq running \cup Listed
      BY <1>16, StartedAllFacts DEF StartAllPorts, ListOK, Listed
    <2> QED
      BY <1>4, <1>5, <1>6, <1>16, <2>1, Faults DEF StartAllPorts
  <1>17. CASE StopAllPorts
    <2>1. running' \subseteq running /\ faults' \in 0 .. MaxFaults
      BY <1>17, Faults DEF StopAllPorts, StopAllDone, StopRaises
    <2> QED
      BY <1>4, <1>5, <1>6, <1>17, <2>1 DEF StopAllPorts
  <1> QED
    BY <1>11, <1>12, <1>13, <1>14, <1>15, <1>16, <1>17

LEMMA StepBase == BaseInv /\ [Next]_vars => BaseInv'
  <1> SUFFICES ASSUME BaseInv, [Next]_vars PROVE BaseInv'
    OBVIOUS
  <1>1. CASE User
    BY <1>1, UserBase
  <1>2. CASE Api
    BY <1>2, QueueBase, CallBase DEF Api
  <1>3. CASE UNCHANGED vars
    <2>1. UNCHANGED <<services, port, running, selected, file, modal, loop, request, life, faults>>
      BY <1>3 DEF vars, table
    <2>2. PanelOK' /\ LifeOK' /\ AskedOK' /\ running' \subseteq Maps
      BY <2>1, SameAsked DEF BaseInv, PanelOK, LifeOK, ListOK, life, loop
    <2> QED
      BY <2>1, <2>2, SameList, SameFile DEF BaseInv
  <1> QED
    BY <1>1, <1>2, <1>3 DEF Next

\* Every variable keeps its type; in particular no mapping is on the list twice, and every
\* port that is written to the file is one.
THEOREM ManagerTypeCorrect == Spec => []TypeOK
  BY InitBase, StepBase, BaseIsTyped, PTL DEF Spec

\* The config file holds the list in its order unless the user has been told that the last
\* save failed, whatever requests do to the list under an open dialog.
THEOREM FileFollowsList == Spec => []SavedIsCurrent
  <1>1. BaseInv => SavedIsCurrent
    BY DEF BaseInv, FileOK
  <1> QED
    BY <1>1, InitBase, StepBase, PTL DEF Spec

-----------------------------------------------------------------------------
(***************************************************************************)
(* What the operations do to the table, while the list is not changed      *)
(* under an open dialog: each is an operation of MappingTable.             *)
(***************************************************************************)

\* The list, the file and the selection agree.
TableOK ==
    /\ UniquePorts /\ RunningIsListed
    /\ \A m \in running : port[m] \notin Foreign
    /\ IsInjective(disk)
    /\ selected \in Listed \cup {None}

\* An open dialog has been told of the list as it is.
DialogOK ==
    /\ modal.kind = "add" => modal.taken = {port[m] : m \in Listed}
    /\ modal.kind = "edit" => /\ modal.subject \in Listed
                              /\ modal.taken = {port[m] : m \in Listed \ {modal.subject}}
    /\ modal.kind \in {"remove", "saveFailed"} => modal.subject \in Listed

\* On a list without repetition what the elements have is unique by their places if it is
\* by the elements.
LEMMA UniqueKeys ==
    ASSUME NEW S, NEW s \in Seq(S), IsInjective(s), NEW f
    PROVE  (\A i, j \in DOMAIN s : f[s[i]] = f[s[j]] => i = j)
           <=> (\A m, n \in Range(s) : f[m] = f[n] => m = n)
  BY ListFacts DEF IsInjective, Range

LEMMA UniqueFacts ==
    ASSUME ListOK
    PROVE  UniquePorts <=> \A m, n \in Listed : port[m] = port[n] => m = n
  BY UniqueKeys DEF ListOK, UniquePorts, Listed

LEMMA UniqueNext ==
    ASSUME ListOK', \A m, n \in Listed' : port'[m] = port'[n] => m = n
    PROVE  UniquePorts'
  BY UniqueKeys DEF ListOK, UniquePorts, Listed

LEMMA SaveDoes ==
    ASSUME ListOK', UniquePorts', FileOK, IsInjective(disk), SaveDone \/ SaveFails
    PROVE  IsInjective(disk') /\ Table!Written
  <1>1. CASE disk' = disk
    BY <1>1 DEF Table!Written
  <1>2. ASSUME NEW n \in 0 .. Len(services'), disk' = [i \in 1 .. n |-> port'[services'[i]]]
        PROVE  IsInjective(disk') /\ Table!Written
    <2>1. \A i \in 1 .. n : i \in DOMAIN services'
      BY ListFacts DEF ListOK
    <2>2. IsInjective(disk')
      BY <1>2, <2>1 DEF UniquePorts, IsInjective
    <2>3. Range(disk') \subseteq {port'[m] : m \in Listed'}
      BY <1>2, <2>1 DEF Range, Listed
    <2> QED
      BY <2>2, <2>3 DEF Table!Written
  <1> QED
    BY <1>1, <1>2, SaveFacts DEF FileOK

LEMMA AddDoes ==
    ASSUME ListOK, TableOK, FileOK, NEW m \in Maps, NEW p \in Ports,
           \A n \in Listed : port[n] # p,
           AddPortConfig(m, p), selected' \in {selected, m}, SaveDone \/ SaveFails
    PROVE  TableOK' /\ Table!Create(p, "ok")
  <1>1. /\ ListOK'
        /\ m \notin Listed /\ m \notin running /\ running' = running
        /\ Listed' = Listed \cup {m}
        /\ \A n \in Maps : port'[n] = IF n = m THEN p ELSE port[n]
    BY AddFacts
  <1>2. Listed \subseteq Maps /\ running \subseteq Listed
    BY ListedFacts DEF TableOK, RunningIsListed
  <1>3. port'[m] = p /\ \A n \in Listed : port'[n] = port[n]
    BY <1>1, <1>2
  <1>4. \A n, k \in Listed : port[n] = port[k] => n = k
    BY UniqueFacts DEF TableOK
  <1>5. UniquePorts'
    <2>1. \A n, k \in Listed' : port'[n] = port'[k] => n = k
      BY <1>1, <1>3, <1>4
    <2> QED
      BY <1>1, <2>1, UniqueNext
  <1>6. IsInjective(disk') /\ Table!Written
    BY <1>1, <1>5, SaveDoes DEF TableOK
  <1>7. TableOK'
    BY <1>1, <1>2, <1>3, <1>5, <1>6 DEF TableOK, RunningIsListed
  <1>8. {port'[n] : n \in Listed'} = {port[n] : n \in Listed} \cup {p}
    BY <1>1, <1>3
  <1>9. {port'[n] : n \in running'} = {port[n] : n \in running}
    BY <1>1, <1>2, <1>3
  <1> QED
    BY <1>6, <1>7, <1>8, <1>9 DEF Table!Create

LEMMA UpdateDoes ==
    ASSUME ListOK, TableOK, FileOK, NEW m \in Listed, NEW p \in Ports,
           \A n \in Listed \ {m} : port[n] # p,
           UpdatePortConfig(m, p), selected' \in {selected, m}, SaveDone \/ SaveFails,
           NEW from, from = port[m]
    PROVE  TableOK' /\ Table!Update(from, p, "ok")
  <1>1. Listed \subseteq Maps /\ running \subseteq Listed
    BY ListedFacts DEF TableOK, RunningIsListed
  <1>2. /\ ListOK'
        /\ services' = services /\ Listed' = Listed
        /\ \A n \in Maps : port'[n] = IF n = m THEN p ELSE port[n]
        /\ running' \subseteq running /\ running \ {m} \subseteq running'
        /\ m \in running' <=> /\ m \in running /\ p \notin Foreign
                              /\ \A n \in running \ {m} : port[n] # p
    BY <1>1, UpdateFacts
  <1>3. port'[m] = p /\ \A n \in Listed \ {m} : port'[n] = port[n]
    BY <1>1, <1>2
  <1>4. \A n, k \in Listed : port[n] = port[k] => n = k
    BY UniqueFacts DEF TableOK
  <1>5. UniquePorts'
    <2>1. \A n, k \in Listed' : port'[n] = port'[k] => n = k
      BY <1>2, <1>3, <1>4
    <2> QED
      BY <1>2, <2>1, UniqueNext
  <1>6. IsInjective(disk') /\ Table!Written
    BY <1>2, <1>5, SaveDoes DEF TableOK
  <1>7. m \in running' <=> m \in running /\ p \notin Foreign
    BY <1>1, <1>2
  <1>8. \A n \in running' : port'[n] \notin Foreign
    BY <1>1, <1>2, <1>3, <1>7 DEF TableOK
  <1>9. TableOK'
    BY <1>1, <1>2, <1>5, <1>6, <1>8 DEF TableOK, RunningIsListed
  <1>10. {port'[n] : n \in Listed'} = ({port[n] : n \in Listed} \ {port[m]}) \cup {p}
    BY <1>2, <1>3, <1>4
  <1>11. {port'[n] : n \in running'}
         = ({port[n] : n \in running} \ {port[m]})
           \cup (IF port[m] \in {port[n] : n \in running} THEN {p} \ Foreign ELSE {})
    <2>1. port[m] \in {port[n] : n \in running} <=> m \in running
      BY <1>1, <1>4
    <2>2. {port[n] : n \in running} \ {port[m]} = {port[n] : n \in running \ {m}}
      BY <1>1, <1>4
    <2>3. {port'[n] : n \in running' \ {m}} = {port[n] : n \in running \ {m}}
      BY <1>1, <1>2, <1>3
    <2>4. {port'[n] : n \in running'}
          = {port'[n] : n \in running' \ {m}} \cup (IF m \in running' THEN {p} ELSE {})
      BY <1>3
    <2> QED
      BY <1>7, <2>1, <2>2, <2>3, <2>4
  <1>12. port[m] \in {port[n] : n \in Listed} /\ p \notin {port[n] : n \in Listed} \ {port[m]}
    OBVIOUS
  <1> QED
    BY <1>6, <1>9, <1>10, <1>11, <1>12 DEF Table!Update

LEMMA RemoveDoes ==
    ASSUME ListOK, TableOK, FileOK, NEW m \in Listed, NEW p, p = port[m],
           RemovePortConfig(m), SaveDone \/ SaveFails
    PROVE  TableOK' /\ Table!Delete(p, "ok")
  <1>1. Listed \subseteq Maps /\ running \subseteq Listed
    BY ListedFacts DEF TableOK, RunningIsListed
  <1>2. /\ ListOK'
        /\ Listed' = Listed \ {m}
        /\ running' = running \ {m}
        /\ \A n \in Maps \ {m} : port'[n] = port[n]
        /\ (selected' = selected /\ selected # m) \/ selected' \in Listed' \cup {None}
    BY <1>1, RemoveFacts
  <1>3. \A n \in Listed \ {m} : port'[n] = port[n]
    BY <1>1, <1>2
  <1>4. \A n, k \in Listed : port[n] = port[k] => n = k
    BY UniqueFacts DEF TableOK
  <1>5. UniquePorts'
    <2>1. \A n, k \in Listed' : port'[n] = port'[k] => n = k
      BY <1>2, <1>3, <1>4
    <2> QED
      BY <1>2, <2>1, UniqueNext
  <1>6. IsInjective(disk') /\ Table!Written
    BY <1>2, <1>5, SaveDoes DEF TableOK
  <1>7. TableOK'
    BY <1>1, <1>2, <1>3, <1>5, <1>6 DEF TableOK, RunningIsListed
  <1>8. {port'[n] : n \in Listed'} = {port[n] : n \in Listed} \ {port[m]}
    BY <1>2, <1>3, <1>4
  <1>9. {port'[n] : n \in running'} = {port[n] : n \in running} \ {port[m]}
    BY <1>1, <1>2, <1>3, <1>4
  <1>10. port[m] \in {port[n] : n \in Listed}
    OBVIOUS
  <1> QED
    BY <1>6, <1>7, <1>8, <1>9, <1>10 DEF Table!Delete

\* Operations that start and stop and leave the list alone.
LEMMA SameTable ==
    ASSUME TableOK, UNCHANGED <<services, port, selected, file>>, running' \subseteq Listed,
           \A n \in running' : port[n] \notin Foreign
    PROVE  TableOK'
  BY DEF TableOK, UniquePorts, RunningIsListed, Listed, file

LEMMA OneStopped ==
    ASSUME ListOK, TableOK, NEW m \in Listed
    PROVE  {port[n] : n \in running \ {m}} = {port[n] : n \in running} \ {port[m]}
  BY UniqueFacts DEF TableOK, RunningIsListed

LEMMA RaisesDoes ==
    ASSUME ListOK, TableOK, NEW m \in Listed, NEW p, p = port[m], StopOneRaises(m)
    PROVE  TableOK' /\ Table!Raises(p, "refused")
  <1>1. m \in running /\ running' = running \ {m} /\ UNCHANGED <<services, port, selected, file>>
    BY DEF StopOneRaises
  <1>2. TableOK'
    BY <1>1, SameTable DEF TableOK, RunningIsListed
  <1>3. {port[n] : n \in running'} = {port[n] : n \in running} \ {port[m]}
    BY <1>1, OneStopped
  <1> QED
    BY <1>1, <1>2, <1>3 DEF Table!Raises, file, Listed

LEMMA StartDoes ==
    ASSUME ListOK, TableOK, NEW m \in Listed, NEW p, p = port[m],
           running' = Started(port, running, m),
           UNCHANGED <<services, port, selected, file>>,
           NEW res, res = IF m \in running' THEN "ok" ELSE "refused"
    PROVE  TableOK' /\ Table!Start(p, res)
  <1>1. running \subseteq Listed /\ \A n \in running : port[n] \notin Foreign
    BY DEF TableOK, RunningIsListed
  <1>2. \A n, k \in Listed : port[n] = port[k] => n = k
    BY UniqueFacts DEF TableOK
  <1>3. running' = IF port[m] \in Foreign THEN running ELSE running \cup {m}
    BY <1>1, <1>2 DEF Started
  <1>4. TableOK'
    BY <1>1, <1>3, SameTable
  <1>5. m \in running' <=> port[m] \notin Foreign
    BY <1>1, <1>3
  <1>6. port[m] \notin Foreign => {port[n] : n \in running'} = {port[n] : n \in running} \cup {port[m]}
    BY <1>3
  <1>7. UNCHANGED <<services, port, disk>> /\ Listed' = Listed
    BY DEF file, Listed
  <1>8. CASE port[m] \in Foreign
    BY <1>3, <1>4, <1>5, <1>7, <1>8 DEF Table!Start, Table!Unchanged, Table!ports
  <1>9. CASE port[m] \notin Foreign
    BY <1>4, <1>5, <1>6, <1>7, <1>9 DEF Table!Start
  <1> QED
    BY <1>8, <1>9

LEMMA StopDoes ==
    ASSUME ListOK, TableOK, NEW m \in Listed, NEW p, p = port[m], running' = running \ {m},
           UNCHANGED <<services, port, selected, file>>
    PROVE  TableOK' /\ Table!Stop(p, "ok")
  <1>1. TableOK'
    BY SameTable DEF TableOK, RunningIsListed
  <1>2. {port[n] : n \in running'} = {port[n] : n \in running} \ {port[m]}
    BY OneStopped
  <1> QED
    BY <1>1, <1>2 DEF Table!Stop, file, Listed

LEMMA StartAllDoes ==
    ASSUME ListOK, TableOK, running' = StartedAll(port, running, services, Listed),
           UNCHANGED <<services, port, selected, file>>,
           NEW res, res = IF Listed \subseteq running' THEN "ok" ELSE "errors"
    PROVE  TableOK' /\ Table!StartAll(res)
  <1>1. running \subseteq Listed /\ \A n \in running : port[n] \notin Foreign
    BY DEF TableOK, RunningIsListed
  <1>2. \A n, k \in Listed : port[n] = port[k] => n = k
    BY UniqueFacts DEF TableOK
  <1>3. /\ running \subseteq running' /\ running' \subseteq running \cup Listed
        /\ \A n \in running' \ running : port[n] \notin Foreign
    BY StartedAllFacts DEF ListOK, Listed
  <1>4. TableOK'
    BY <1>1, <1>3, SameTable
  <1>5. ASSUME NEW m \in Listed, port[m] \notin Foreign PROVE m \in running'
    <2>1. CASE m \in running
      BY <1>3, <2>1
    <2>2. CASE m \notin running
      <3>1. PICK i \in DOMAIN services : services[i] = m
        BY DEF Listed, Range
      <3>2. \A n \in running : port[n] # port[m]
        BY <1>1, <1>2, <2>2
      <3>3. \A j \in 1 .. i - 1 : j \in DOMAIN services /\ j # i
        BY ListedFacts
      <3>4. \A j \in 1 .. i - 1 : port[services[j]] # port[m]
        BY <3>1, <3>3 DEF TableOK, UniquePorts
      <3> QED
        BY <1>5, <3>1, <3>2, <3>4 DEF StartedAll
    <2> QED
      BY <2>1, <2>2
  <1>6. \A m \in running' : m \in Listed /\ port[m] \notin Foreign
    BY <1>1, <1>3
  <1>7. /\ {port[n] : n \in running'}
           = {port[n] : n \in running} \cup ({port[n] : n \in Listed} \ Foreign)
        /\ Listed \subseteq running' <=> {port[n] : n \in Listed} \cap Foreign = {}
    BY <1>1, <1>3, <1>5, <1>6
  <1> QED
    BY <1>4, <1>7 DEF Table!StartAll, file, Listed

LEMMA StopAllDoes ==
    ASSUME ListOK, TableOK, UNCHANGED <<services, port, selected, file>>
    PROVE  /\ StopAllDone => TableOK' /\ Table!StopAll("ok")
           /\ (\E k \in DOMAIN services : StopRaises(k)) => TableOK' /\ Table!StopAll("refused")
  <1>1. running \subseteq Listed /\ \A n \in running : port[n] \notin Foreign
    BY DEF TableOK, RunningIsListed
  <1>2. \A n, k \in Listed : port[n] = port[k] => n = k
    BY UniqueFacts DEF TableOK
  <1>3. ASSUME StopAllDone PROVE TableOK' /\ Table!StopAll("ok")
    <2>1. running' = {}
      BY <1>1, <1>3 DEF StopAllDone
    <2> QED
      BY <2>1, SameTable DEF Table!StopAll, file, Listed
  <1>4. ASSUME NEW k \in DOMAIN services, StopRaises(k) PROVE TableOK' /\ Table!StopAll("refused")
    <2> DEFINE m == services[k]
    <2>1. m \in running /\ m \notin running' /\ running' \subseteq running
      <3>1. k \in 1 .. k
        BY ListedFacts
      <3> QED
        BY <1>4, <3>1 DEF StopRaises
    <2> HIDE DEF m
    <2>2. TableOK'
      BY <1>1, <2>1, SameTable
    <2>3. {port[n] : n \in running'} \in SUBSET {port[n] : n \in running}
      BY <2>1
    <2>4. port[m] \in {port[n] : n \in running} /\ port[m] \notin {port[n] : n \in running'}
      BY <1>1, <1>2, <2>1
    <2>5. {port[n] : n \in running'} # {port[n] : n \in running}
      BY <2>4
    <2>6. UNCHANGED <<services, port, disk>> /\ Listed' = Listed
      BY DEF file, Listed
    <2>7. {port'[n] : n \in running'} \in (SUBSET {port[n] : n \in running})
                                         \ {{port[n] : n \in running}}
      BY <2>3, <2>5, <2>6
    <2> QED
      BY <2>2, <2>6, <2>7 DEF Table!StopAll, Listed
  <1> QED
    BY <1>3, <1>4

LEMMA LoadDoes ==
    ASSUME ListOK, TableOK, FileOK, Load(running \ Listed), UNCHANGED file
    PROVE  TableOK' /\ Table!Reload
  <1>1. running \ Listed = {}
    BY DEF TableOK, RunningIsListed
  <1>2. /\ ListOK'
        /\ DOMAIN services' = DOMAIN disk
        /\ \A i \in DOMAIN disk : port'[services'[i]] = disk[i]
        /\ running' \subseteq Listed'
        /\ \A n \in running' : port'[n] \notin Foreign
        /\ selected' \in Listed' \cup {None}
    BY <1>1, LoadFacts DEF FileOK
  <1>3. IsInjective(disk) /\ disk' = disk
    BY DEF TableOK, file
  <1>4. UniquePorts'
    BY <1>2, <1>3 DEF UniquePorts, IsInjective
  <1>5. TableOK'
    BY <1>2, <1>3, <1>4 DEF TableOK, RunningIsListed
  <1>6. {port'[n] : n \in Listed'} = Range(disk)
    BY <1>2 DEF Range, Listed
  <1>7. {port'[n] : n \in running'} \in SUBSET (Range(disk) \ Foreign)
    BY <1>2, <1>6
  <1> QED
    BY <1>3, <1>5, <1>6, <1>7 DEF Table!Reload

-----------------------------------------------------------------------------
(***************************************************************************)
(* Every step is one of MappingTable or changes nothing it speaks of.      *)
(***************************************************************************)

\* The requests that have not been carried out.
Waiting == IF current # None /\ box = None THEN <<current>> \o calls ELSE calls

LEMMA SameRequests == UNCHANGED <<loop, request>> => UNCHANGED Table!asked
  BY DEF loop, request, Table!asked

\* What is done by hand is what a request could ask for.
LEMMA ByHand ==
    ASSUME NEW p \in Ports, NEW res \in Table!Results,
           \/ Table!Create(p, res) \/ Table!Delete(p, res)
           \/ Table!Start(p, res) \/ Table!Stop(p, res)
           \/ \E q \in Ports : Table!Update(p, q, res)
    PROVE  Table!Operate
  <1>1. ASSUME Table!Create(p, res) PROVE Table!Operate
    <2> DEFINE o == [kind |-> "create", tcp |-> p, to |-> None]
    <2>1. o \in Table!Ops /\ Table!Do(o, res)
      BY <1>1 DEF Table!Ops, Table!Do
    <2> QED
      BY <2>1 DEF Table!Operate
  <1>2. ASSUME NEW q \in Ports, Table!Update(p, q, res) PROVE Table!Operate
    <2> DEFINE o == [kind |-> "update", tcp |-> p, to |-> q]
    <2>1. o \in Table!Ops /\ Table!Do(o, res)
      BY <1>2 DEF Table!Ops, Table!Do
    <2> QED
      BY <2>1 DEF Table!Operate
  <1>3. ASSUME Table!Delete(p, res) PROVE Table!Operate
    <2> DEFINE o == [kind |-> "delete", tcp |-> p, to |-> None]
    <2>1. o \in Table!Ops /\ Table!Do(o, res)
      BY <1>3 DEF Table!Ops, Table!Do
    <2> QED
      BY <2>1 DEF Table!Operate
  <1>4. ASSUME Table!Start(p, res) PROVE Table!Operate
    <2> DEFINE o == [kind |-> "start", tcp |-> p, to |-> None]
    <2>1. o \in Table!Ops /\ Table!Do(o, res)
      BY <1>4 DEF Table!Ops, Table!Do
    <2> QED
      BY <2>1 DEF Table!Operate
  <1>5. ASSUME Table!Stop(p, res) PROVE Table!Operate
    <2> DEFINE o == [kind |-> "stop", tcp |-> p, to |-> None]
    <2>1. o \in Table!Ops /\ Table!Do(o, res)
      BY <1>5 DEF Table!Ops, Table!Do
    <2> QED
      BY <2>1 DEF Table!Operate
  <1> QED
    BY <1>1, <1>2, <1>3, <1>4, <1>5

LEMMA AllByHand ==
    ASSUME NEW res \in Table!Results, Table!StartAll(res) \/ Table!StopAll(res)
    PROVE  Table!Operate
  <1>1. ASSUME Table!StartAll(res) PROVE Table!Operate
    <2> DEFINE o == [kind |-> "startAll", tcp |-> None, to |-> None]
    <2>1. o \in Table!Ops /\ Table!Do(o, res)
      BY <1>1 DEF Table!Ops, Table!Do
    <2> QED
      BY <2>1 DEF Table!Operate
  <1>2. ASSUME Table!StopAll(res) PROVE Table!Operate
    <2> DEFINE o == [kind |-> "stopAll", tcp |-> None, to |-> None]
    <2>1. o \in Table!Ops /\ Table!Do(o, res)
      BY <1>2 DEF Table!Ops, Table!Do
    <2> QED
      BY <2>1 DEF Table!Operate
  <1> QED
    BY <1>1, <1>2

\* With no call being carried out the user's operations are MappingTable's.
LEMMA HandDoes ==
    ASSUME current = None, UNCHANGED <<loop, request>>,
           Table!Operate \/ Table!SaveAgain \/ Table!Reload \/ Table!Close
    PROVE  Table!Next
  <1>1. UNCHANGED Table!asked
    BY SameRequests
  <1> QED
    BY <1>1 DEF Table!Next, Table!User

LEMMA StutterDoes ==
    ASSUME TableOK, UNCHANGED <<services, port, running, file, loop, request>>,
           selected' \in Listed \cup {None}
    PROVE  TableOK' /\ UNCHANGED Table!vars
  <1>1. UNCHANGED Table!asked
    BY SameRequests
  <1>2. UNCHANGED Table!ports
    BY DEF Table!ports, Listed, file
  <1>3. TableOK'
    BY DEF TableOK, UniquePorts, RunningIsListed, Listed, file
  <1> QED
    BY <1>1, <1>2, <1>3 DEF Table!vars

\* The user.
LEMMA UserDoes ==
    ASSUME BaseInv, BaseInv', TableOK, DialogOK, User
    PROVE  TableOK' /\ (Table!Next \/ UNCHANGED Table!vars)
  <1> USE DEF BaseInv, Rest
  <1>1. {"ok", "errors", "refused"} = Table!Results
    BY DEF Table!Results
  <1>2. \A m \in Listed : port[m] \in Ports
    BY DEF ListOK
  <1>3. ASSUME NEW m \in Maps, Select(m) PROVE TableOK' /\ UNCHANGED Table!vars
    BY <1>3, StutterDoes DEF Select
  <1>4. CASE OpenAdd \/ OpenEdit \/ AskRemove \/ AskReload \/ Cancel
    <2>1. UNCHANGED <<table, file>> /\ Rest
      BY <1>4 DEF OpenAdd, OpenEdit, AskRemove, AskReload, Cancel
    <2> QED
      BY <2>1, StutterDoes DEF table, TableOK
  <1>5. CASE StartSelected \/ StopSelected
    <2>1. /\ current = None /\ UNCHANGED <<loop, request>>
          /\ UNCHANGED <<services, port, selected, file>>
      BY <1>5 DEF StartSelected, StopSelected, UiIdle, UiFree
    <2>2. CASE selected = None
      <3>1. running' = running
        BY <1>5, <2>2, PortManagerAssumption DEF StartSelected, StopSelected, ListOK
      <3> QED
        BY <2>1, <3>1, StutterDoes DEF TableOK
    <2>3. CASE selected # None
      <3>1. selected \in Listed
        BY <2>3 DEF TableOK
      <3>2. PICK m \in Listed, p \in Ports : m = selected /\ p = port[m]
        BY <1>2, <3>1
      <3>3. CASE running' = Started(port, running, selected)
        <4>1. PICK res \in Table!Results : res = IF m \in running' THEN "ok" ELSE "refused"
          BY <1>1
        <4>2. running' = Started(port, running, m)
          BY <3>2, <3>3 DEF Started
        <4>3. TableOK' /\ Table!Start(p, res)
          BY <2>1, <3>2, <4>1, <4>2, StartDoes
        <4>4. Table!Operate
          BY <4>3, ByHand
        <4> QED
          BY <2>1, <4>3, <4>4, HandDoes
      <3>4. CASE running' = running \ {selected}
        <4>1. TableOK' /\ Table!Stop(p, "ok")
          BY <2>1, <3>2, <3>4, StopDoes
        <4>2. Table!Operate
          BY <1>1, <4>1, ByHand
        <4> QED
          BY <2>1, <4>1, <4>2, HandDoes
      <3> QED
        BY <1>5, <3>3, <3>4 DEF StartSelected, StopSelected
    <2> QED
      BY <2>2, <2>3
  <1>6. CASE StartAll \/ StopAll
    <2>1. /\ current = None /\ UNCHANGED <<loop, request>>
          /\ UNCHANGED <<services, port, selected, file>>
      BY <1>6 DEF StartAll, StopAll, UiIdle, UiFree
    <2>2. CASE running' = StartedAll(port, running, services, Listed)
      <3>1. PICK res \in Table!Results : res = IF Listed \subseteq running' THEN "ok" ELSE "errors"
        BY <1>1
      <3>2. TableOK' /\ Table!StartAll(res)
        BY <2>1, <2>2, <3>1, StartAllDoes
      <3>3. Table!Operate
        BY <3>2, AllByHand
      <3> QED
        BY <2>1, <3>2, <3>3, HandDoes
    <2>3. CASE StopAllDone \/ \E k \in DOMAIN services : StopRaises(k)
      <3>1. TableOK' /\ (Table!StopAll("ok") \/ Table!StopAll("refused"))
        BY <2>1, <2>3, StopAllDoes
      <3>2. Table!Operate
        BY <1>1, <3>1, AllByHand
      <3> QED
        BY <2>1, <3>1, <3>2, HandDoes
    <2> QED
      BY <1>6, <2>2, <2>3 DEF StartAll, StopAll
  <1>7. ASSUME NEW p \in Ports, SaveAdd(p) PROVE TableOK' /\ Table!Next
    <2>1. PICK m \in Maps : AddPortConfig(m, p) /\ selected' = m
      BY <1>7 DEF SaveAdd
    <2>2. \A n \in Listed : port[n] # p
      BY <1>7 DEF SaveAdd, DialogOK
    <2>3. TableOK' /\ Table!Create(p, "ok")
      BY <1>7, <2>1, <2>2, AddDoes DEF SaveAdd, Save
    <2>4. Table!Operate
      BY <1>1, <2>3, ByHand
    <2> QED
      BY <1>7, <2>3, <2>4, HandDoes DEF SaveAdd, UiFree
  <1>8. ASSUME NEW p \in Ports, SaveEdit(p) PROVE TableOK' /\ Table!Next
    <2> DEFINE m == modal.subject
    <2>1. /\ m \in Listed /\ \A n \in Listed \ {m} : port[n] # p
          /\ current = None /\ UNCHANGED <<loop, request>>
      BY <1>8 DEF SaveEdit, DialogOK, UiFree
    <2>2. \/ StopOneRaises(m)
          \/ UpdatePortConfig(m, p) /\ selected' \in {selected, m} /\ Save
      BY <1>8 DEF SaveEdit, Save
    <2> HIDE DEF m
    <2>3. PICK from \in Ports : from = port[m]
      BY <1>2, <2>1
    <2>4. TableOK' /\ \E res \in {"ok", "refused"} : Table!Update(from, p, res)
      <3>1. CASE StopOneRaises(m)
        <4>1. TableOK' /\ Table!Raises(from, "refused")
          BY <2>1, <2>3, <3>1, RaisesDoes
        <4>2. p \notin {port[n] : n \in Listed} \ {from}
          BY <2>1, <2>3
        <4>3. Table!Update(from, p, "refused")
          BY <4>1, <4>2 DEF Table!Update
        <4> QED
          BY <4>1, <4>3
      <3>2. CASE UpdatePortConfig(m, p) /\ selected' \in {selected, m} /\ Save
        BY <2>1, <2>3, <3>2, UpdateDoes DEF Save
      <3> QED
        BY <2>2, <3>1, <3>2
    <2>5. Table!Operate
      BY <1>1, <2>4, ByHand
    <2> QED
      BY <2>1, <2>4, <2>5, HandDoes
  <1>9. CASE ConfirmRemove
    <2> DEFINE m == modal.subject
    <2>1. m \in Listed /\ current = None /\ UNCHANGED <<loop, request>>
      BY <1>9 DEF ConfirmRemove, DialogOK, UiFree
    <2>2. StopOneRaises(m) \/ (RemovePortConfig(m) /\ Save)
      BY <1>9, <2>1 DEF ConfirmRemove
    <2> HIDE DEF m
    <2>3. PICK p \in Ports : p = port[m]
      BY <1>2, <2>1
    <2>4. TableOK' /\ (Table!Raises(p, "refused") \/ Table!Delete(p, "ok"))
      BY <2>1, <2>2, <2>3, RaisesDoes, RemoveDoes DEF Save
    <2>5. Table!Delete(p, "refused") \/ Table!Delete(p, "ok")
      BY <2>4 DEF Table!Delete
    <2>6. Table!Operate
      BY <1>1, <2>5, ByHand
    <2> QED
      BY <2>1, <2>4, <2>6, HandDoes
  <1>10. CASE ConfirmReload
    <2>1. current = None /\ UNCHANGED <<loop, request>> /\ UNCHANGED file
      BY <1>10 DEF ConfirmReload, UiFree
    <2>2. CASE Load(running \ Listed)
      BY <2>1, <2>2, LoadDoes, HandDoes
    <2>3. CASE (\E k \in DOMAIN services : StopRaises(k)) /\ UNCHANGED <<services, port, selected>>
      <3>1. TableOK' /\ Table!StopAll("refused")
        BY <2>1, <2>3, StopAllDoes
      <3> QED
        BY <1>1, <2>1, <3>1, AllByHand, HandDoes
    <2> QED
      BY <1>10, <2>2, <2>3 DEF ConfirmReload
  <1>11. CASE SaveConfiguration
    <2>1. /\ current = None /\ UNCHANGED <<loop, request>> /\ (SaveDone \/ SaveFails)
          /\ UNCHANGED <<services, port, running, selected>>
      BY <1>11 DEF SaveConfiguration, UiIdle, UiFree, table, Save
    <2>2. UniquePorts' /\ Listed' = Listed
      BY <2>1 DEF TableOK, UniquePorts, Listed
    <2>3. IsInjective(disk') /\ Table!Written
      BY <2>1, <2>2, SaveDoes DEF TableOK
    <2>4. TableOK'
      BY <2>1, <2>2, <2>3 DEF TableOK, RunningIsListed
    <2>5. Table!SaveAgain
      BY <2>1, <2>2, <2>3 DEF Table!SaveAgain
    <2> QED
      BY <2>1, <2>4, <2>5, HandDoes
  <1>12. CASE Close
    BY <1>12, StutterDoes DEF Close, table, TableOK
  <1>13. CASE CloseDone
    <2>1. current = None /\ UNCHANGED <<loop, request, selected>>
      BY <1>13 DEF CloseDone, LifeOK
    <2>2. CASE running' = running \ Listed /\ UNCHANGED <<services, port>> /\ Save
      <3>1. running' = {}
        BY <2>2 DEF TableOK, RunningIsListed
      <3>2. UniquePorts' /\ Listed' = Listed
        BY <2>2 DEF TableOK, UniquePorts, Listed
      <3>3. IsInjective(disk') /\ Table!Written
        BY <2>2, <3>2, SaveDoes DEF TableOK, Save
      <3>4. TableOK'
        BY <2>1, <3>1, <3>2, <3>3 DEF TableOK, RunningIsListed
      <3>5. Table!Close
        BY <2>2, <3>1, <3>2, <3>3 DEF Table!Close
      <3> QED
        BY <2>1, <3>4, <3>5, HandDoes
    <2>3. CASE (\E k \in DOMAIN services : StopRaises(k)) /\ UNCHANGED <<services, port, file>>
      <3>1. TableOK' /\ Table!StopAll("refused")
        BY <2>1, <2>3, StopAllDoes
      <3> QED
        BY <1>1, <2>1, <3>1, AllByHand, HandDoes
    <2> QED
      BY <1>13, <2>2, <2>3 DEF CloseDone
  <1>14. CASE DismissBox
    <2>1. /\ box # None /\ current # None /\ Answer(box) /\ UNCHANGED calls
          /\ UNCHANGED <<services, port, running, selected, file>>
      BY <1>14 DEF DismissBox, table, AskedOK
    <2>2. TableOK'
      BY <2>1 DEF TableOK, UniquePorts, RunningIsListed, Listed, file
    <2>3. UNCHANGED Table!ports
      BY <2>1 DEF Table!ports, Listed, file
    <2>4. Table!Answer
      BY <2>1, <2>3 DEF Answer, Table!Answer, Table!Answered
    <2> QED
      BY <2>2, <2>4 DEF Table!Next
  <1>15. CASE DismissSaveFailed
    <2>1. selected' \in Listed
      BY <1>15 DEF DismissSaveFailed, DialogOK
    <2> QED
      BY <1>15, <2>1, StutterDoes DEF DismissSaveFailed
  <1> QED
    BY <1>3, <1>4, <1>5, <1>6, <1>7, <1>8, <1>9, <1>10, <1>11, <1>12, <1>13, <1>14, <1>15
       DEF User

\* A call that is carried out was the first of those that wait; with its answer, or with
\* the message it shows before, it is not one of them any more.
LEMMA WaitingFacts ==
    ASSUME AskedOK, current # None, box = None
    PROVE  Waiting # << >> /\ Head(Waiting) = current /\ Tail(Waiting) = calls
  BY DEF AskedOK, Waiting

LEMMA CarriedOut ==
    ASSUME AskedOK, current # None, box = None, UNCHANGED calls,
           NEW o, o = op[current], NEW res \in Table!Results, Table!Do(o, res),
           Answer(res) \/ (box' = res /\ UNCHANGED <<current, request>>)
    PROVE  Table!Perform(res)
  <1>1. Waiting # << >> /\ Head(Waiting) = current /\ Tail(Waiting) = calls
    BY WaitingFacts
  <1>2. Table!Do(op[Head(Waiting)], res)
    <2>1. op[Head(Waiting)] = o
      BY <1>1
    <2>2. CASE o.kind = "create" /\ Table!Create(o.tcp, res)
      BY <2>1, <2>2 DEF Table!Do, Table!Create, Table!Written, Table!Unchanged, Table!ports
    <2>3. CASE o.kind = "update" /\ Table!Update(o.tcp, o.to, res)
      BY <2>1, <2>3 DEF Table!Do, Table!Update, Table!Raises, Table!Written, Table!Unchanged, Table!ports
    <2>4. CASE o.kind = "delete" /\ Table!Delete(o.tcp, res)
      BY <2>1, <2>4 DEF Table!Do, Table!Delete, Table!Raises, Table!Written, Table!Unchanged, Table!ports
    <2>5. CASE o.kind = "start" /\ Table!Start(o.tcp, res)
      BY <2>1, <2>5 DEF Table!Do, Table!Start, Table!Unchanged, Table!ports
    <2>6. CASE o.kind = "stop" /\ Table!Stop(o.tcp, res)
      BY <2>1, <2>6 DEF Table!Do, Table!Stop, Table!Raises, Table!Unchanged, Table!ports
    <2>7. CASE o.kind = "startAll" /\ Table!StartAll(res)
      BY <2>1, <2>7 DEF Table!Do
    <2>8. CASE o.kind = "stopAll" /\ Table!StopAll(res)
      BY <2>1, <2>8 DEF Table!Do
    <2> QED
      BY <2>2, <2>3, <2>4, <2>5, <2>6, <2>7, <2>8 DEF Table!Do
  <1>3. res # None
    BY PortManagerAssumption DEF Table!Results
  <1>4. Waiting' = calls
    BY <1>3 DEF Answer, Waiting
  <1>5. CASE Answer(res)
    BY <1>1, <1>2, <1>4, <1>5 DEF Table!Perform, Table!Answered, Answer, Waiting
  <1>6. CASE box' = res /\ UNCHANGED <<current, request>>
    BY <1>1, <1>2, <1>3, <1>4, <1>6 DEF Table!Perform, Waiting, request
  <1> QED
    BY <1>5, <1>6

\* A port is looked up among those of the list.
LEMMA FoundFacts ==
    ASSUME ListOK, NEW p
    PROVE  Lookup(p) # None <=> p \in {port[m] : m \in Listed}
  BY LookupFacts

\* Requests are asked, given up, looked up and taken from the queue.
LEMMA QueueDoes ==
    ASSUME BaseInv, TableOK,
           \/ \E r \in Requests : \/ GiveUp(r)
                                  \/ \E o \in Table!Ops : Post(r, o)
                                  \/ \E p \in Ports \cup {None} : Look(r, p)
           \/ Tick
    PROVE  TableOK' /\ (Table!Next \/ UNCHANGED Table!vars)
  <1>1. UNCHANGED <<services, port, running, selected, file, box>>
    BY DEF GiveUp, Post, Look, Tick, table, loop
  <1>2. TableOK' /\ UNCHANGED Table!ports
    BY <1>1 DEF TableOK, UniquePorts, RunningIsListed, Listed, file, Table!ports
  <1>3. ASSUME NEW r \in Requests, GiveUp(r) PROVE Table!GiveUp(r)
    BY <1>2, <1>3 DEF GiveUp, Table!GiveUp, Table!ports, loop
  <1>4. ASSUME NEW r \in Requests, r # current, r \notin Range(calls) PROVE op[r] = None
    BY <1>4 DEF BaseInv, AskedOK
  <1>5. ASSUME NEW r \in Requests, NEW o \in Table!Ops, Post(r, o) PROVE Table!Ask(r, o)
    <2>1. /\ status[r] # "waiting" /\ op[r] = None
          /\ calls' = Append(calls, r) /\ UNCHANGED <<current, box>>
          /\ op' = [op EXCEPT ![r] = o] /\ status' = [status EXCEPT ![r] = "waiting"]
      BY <1>4, <1>5 DEF Post
    <2>2. calls \in Seq(Requests) /\ (current # None => current \in Requests)
      BY DEF BaseInv, AskedOK
    <2>3. current # None => Append(<<current>> \o calls, r) = <<current>> \o Append(calls, r)
      BY <2>2
    <2>4. Waiting' = Append(Waiting, r)
      BY <2>1, <2>3 DEF Waiting
    <2> QED
      BY <1>2, <2>1, <2>4 DEF Table!Ask, Waiting
  <1>6. ASSUME NEW r \in Requests, NEW p \in Ports \cup {None}, Look(r, p) PROVE Table!Look(r, p)
    <2>1. /\ status[r] # "waiting" /\ op[r] = None /\ UNCHANGED <<calls, current, box, op>>
          /\ status' = [status EXCEPT ![r] = IF p = None \/ Lookup(p) # None
                                            THEN "ok" ELSE "refused"]
      BY <1>4, <1>6 DEF Look, loop
    <2>2. p = None \/ Lookup(p) # None <=> p \in {port[m] : m \in Listed} \cup {None}
      BY FoundFacts DEF BaseInv
    <2>3. status' = [status EXCEPT ![r] = IF p \in {port[m] : m \in Listed} \cup {None}
                                          THEN "ok" ELSE "refused"]
      BY <2>1, <2>2
    <2> QED
      BY <1>2, <2>1, <2>3 DEF Table!Look, Table!ports
  <1>7. CASE Tick
    <2>1. /\ calls # << >> /\ current' = Head(calls) /\ calls' = Tail(calls)
          /\ current = None /\ UNCHANGED <<box, op, status>>
      BY <1>7 DEF Tick, UiFree, request
    <2>2. box = None /\ calls \in Seq(Requests) /\ None \notin Requests
      BY <2>1, PortManagerAssumption DEF BaseInv, AskedOK
    <2>3. <<Head(calls)>> \o Tail(calls) = calls /\ Head(calls) \in Requests
      BY <2>1, <2>2
    <2>4. Waiting' = Waiting
      BY <2>1, <2>2, <2>3 DEF Waiting
    <2> QED
      BY <1>2, <2>1, <2>2, <2>4 DEF Table!vars, Table!asked, Waiting
  <1> QED
    BY <1>2, <1>3, <1>5, <1>6, <1>7 DEF Table!Next

\* Requests are carried out.
LEMMA CallDoes ==
    ASSUME BaseInv, TableOK,
           \/ CreatePort \/ UpdatePort \/ DeletePort \/ StartPort \/ StopPort
           \/ StartAllPorts \/ StopAllPorts
    PROVE  TableOK' /\ Table!Next
  <1>1. UNCHANGED <<modal, calls, life>> /\ current # None /\ box = None
    BY DEF CreatePort, UpdatePort, DeletePort, StartPort, StopPort, StartAllPorts, StopAllPorts,
           Running
  <1>2. {"ok", "errors", "refused"} = Table!Results
    BY DEF Table!Results
  <1>3. PICK o \in Table!Ops : o = op[current]
    BY <1>1 DEF BaseInv, AskedOK
  <1>4. /\ o.kind \in {"create", "update", "delete", "start", "stop"} => o.tcp \in Ports
        /\ o.kind = "update" => o.to \in Ports
    BY DEF Table!Ops
  <1>5. ListOK /\ FileOK
    BY DEF BaseInv
  <1>6. ASSUME NEW res \in Table!Results, Table!Do(o, res),
               Answer(res) \/ (box' = res /\ UNCHANGED <<current, request>>)
        PROVE  Table!Next
    <2>1. Table!Perform(res)
      BY <1>1, <1>3, <1>6, CarriedOut DEF BaseInv
    <2> QED
      BY <2>1 DEF Table!Next
  <1>7. ASSUME SaveAndAnswer, Table!Do(o, "ok") PROVE Table!Next
    BY <1>2, <1>6, <1>7 DEF SaveAndAnswer
  <1>8. SaveAndAnswer => SaveDone \/ SaveFails
    BY DEF SaveAndAnswer
  <1>9. ASSUME Refuse, UNCHANGED Table!ports => Table!Do(o, "refused")
        PROVE  TableOK' /\ Table!Next
    <2>1. UNCHANGED <<services, port, running, selected, file>> /\ Answer("refused")
      BY <1>9 DEF Refuse, table
    <2>2. TableOK' /\ UNCHANGED Table!ports
      BY <2>1 DEF TableOK, UniquePorts, RunningIsListed, Listed, file, Table!ports
    <2> QED
      BY <1>2, <1>6, <1>9, <2>1, <2>2
  <1>10. ASSUME NEW s, s = Lookup(o.tcp), s # None
         PROVE  s \in Listed /\ port[s] = o.tcp /\ o.tcp \in {port[m] : m \in Listed}
    BY <1>5, <1>10, LookupFacts
  <1>11. ASSUME Lookup(o.tcp) = None PROVE o.tcp \notin {port[m] : m \in Listed}
    BY <1>5, <1>11, FoundFacts
  <1>12. PICK s : s = Lookup(o.tcp)
    OBVIOUS
  <1>13. Subject = s
    BY <1>3, <1>12 DEF Subject
  <1>14. CASE CreatePort
    <2>1. o.kind = "create" /\ o.tcp \in Ports
      BY <1>3, <1>4, <1>14 DEF CreatePort, Running
    <2>2. CASE s # None
      <3>1. UNCHANGED Table!ports => Table!Do(o, "refused")
        BY <1>10, <1>12, <2>1, <2>2 DEF Table!Do, Table!Create, Table!Unchanged
      <3> QED
        BY <1>9, <1>13, <1>14, <2>2, <3>1 DEF CreatePort
    <2>3. CASE s = None
      <3>1. PICK m \in Maps : AddPortConfig(m, o.tcp)
        BY <1>3, <1>13, <1>14, <2>3 DEF CreatePort
      <3>2. UNCHANGED selected /\ SaveAndAnswer
        BY <1>13, <1>14, <2>3 DEF CreatePort
      <3>3. \A n \in Listed : port[n] # o.tcp
        BY <1>11, <1>12, <2>3
      <3>4. TableOK' /\ Table!Create(o.tcp, "ok")
        BY <1>5, <1>8, <2>1, <3>1, <3>2, <3>3, AddDoes
      <3>5. Table!Do(o, "ok")
        BY <2>1, <3>4 DEF Table!Do
      <3> QED
        BY <1>7, <3>2, <3>4, <3>5
    <2> QED
      BY <2>2, <2>3
  <1>15. CASE UpdatePort
    <2>1. o.kind = "update" /\ o.tcp \in Ports /\ o.to \in Ports
      BY <1>3, <1>4, <1>15 DEF UpdatePort, Running
    <2> DEFINE q == Lookup(o.to)
    <2>2. q # None => q \in Listed /\ port[q] = o.to
      BY <1>5, LookupFacts
    <2>3. q = None => \A m \in Listed : port[m] # o.to
      BY <1>5, LookupFacts
    <2>4. o.to = o.tcp => q = s
      BY <1>12
    <2>5. CASE s = None \/ q \notin {None, s}
      <3>1. o.tcp \notin {port[m] : m \in Listed} \/ o.to \in {port[m] : m \in Listed} \ {o.tcp}
        <4> HIDE DEF q
        <4> QED
          BY <1>11, <1>12, <2>2, <2>4, <2>5
      <3>2. UNCHANGED Table!ports => Table!Do(o, "refused")
        BY <2>1, <3>1 DEF Table!Do, Table!Update, Table!Unchanged
      <3> QED
        BY <1>3, <1>9, <1>13, <1>15, <2>5, <3>2 DEF UpdatePort
    <2>6. CASE s # None /\ q \in {None, s}
      <3>1. s \in Listed /\ port[s] = o.tcp
        BY <1>10, <1>12, <2>6
      <3>2. \A n \in Listed \ {s} : port[n] # o.to
        <4> HIDE DEF q
        <4>1. \A m, n \in Listed : port[m] = port[n] => m = n
          BY <1>5, UniqueFacts DEF TableOK
        <4> QED
          BY <2>2, <2>3, <2>6, <3>1, <4>1
      <3>3. o.to \notin {port[m] : m \in Listed} \ {o.tcp}
        BY <3>1, <3>2
      <3>4. CASE StopOneRaises(s) /\ Answer("refused")
        <4>1. TableOK' /\ Table!Raises(o.tcp, "refused")
          BY <1>5, <3>1, <3>4, RaisesDoes
        <4>2. Table!Do(o, "refused")
          BY <2>1, <3>3, <4>1 DEF Table!Do, Table!Update
        <4> QED
          BY <1>2, <1>6, <3>4, <4>1, <4>2
      <3>5. CASE UpdatePortConfig(s, o.to) /\ UNCHANGED selected /\ SaveAndAnswer
        <4>1. TableOK' /\ Table!Update(o.tcp, o.to, "ok")
          BY <1>5, <1>8, <2>1, <3>1, <3>2, <3>5, UpdateDoes
        <4>2. Table!Do(o, "ok")
          BY <2>1, <4>1 DEF Table!Do
        <4> QED
          BY <1>7, <3>5, <4>1, <4>2
      <3> QED
        BY <1>3, <1>13, <1>15, <2>6, <3>4, <3>5 DEF UpdatePort
    <2> QED
      BY <2>5, <2>6
  <1>16. CASE DeletePort
    <2>1. o.kind = "delete" /\ o.tcp \in Ports
      BY <1>3, <1>4, <1>16 DEF DeletePort, Running
    <2>2. CASE s = None
      <3>1. UNCHANGED Table!ports => Table!Do(o, "refused")
        BY <1>11, <1>12, <2>1, <2>2 DEF Table!Do, Table!Delete, Table!Unchanged
      <3> QED
        BY <1>9, <1>13, <1>16, <2>2, <3>1 DEF DeletePort
    <2>3. CASE s # None
      <3>1. s \in Listed /\ port[s] = o.tcp
        BY <1>10, <1>12, <2>3
      <3>2. CASE StopOneRaises(s) /\ Answer("refused")
        <4>1. TableOK' /\ Table!Raises(o.tcp, "refused")
          BY <1>5, <3>1, <3>2, RaisesDoes
        <4>2. Table!Do(o, "refused")
          BY <2>1, <4>1 DEF Table!Do, Table!Delete
        <4> QED
          BY <1>2, <1>6, <3>2, <4>1, <4>2
      <3>3. CASE RemovePortConfig(s) /\ SaveAndAnswer
        <4>1. TableOK' /\ Table!Delete(o.tcp, "ok")
          BY <1>5, <1>8, <3>1, <3>3, RemoveDoes
        <4>2. Table!Do(o, "ok")
          BY <2>1, <4>1 DEF Table!Do
        <4> QED
          BY <1>7, <3>3, <4>1, <4>2
      <3> QED
        BY <1>13, <1>16, <2>3, <3>2, <3>3 DEF DeletePort
    <2> QED
      BY <2>2, <2>3
  <1>17. CASE StartPort
    <2>1. o.kind = "start" /\ o.tcp \in Ports
      BY <1>3, <1>4, <1>17 DEF StartPort, Running
    <2>2. CASE s = None
      <3>1. UNCHANGED Table!ports => Table!Do(o, "refused")
        BY <1>11, <1>12, <2>1, <2>2 DEF Table!Do, Table!Start, Table!Unchanged
      <3> QED
        BY <1>9, <1>13, <1>17, <2>2, <3>1 DEF StartPort
    <2>3. CASE s # None
      <3>1. s \in Listed /\ port[s] = o.tcp
        BY <1>10, <1>12, <2>3
      <3>2. /\ running' = Started(port, running, s)
            /\ Answer(IF s \in running' THEN "ok" ELSE "refused")
            /\ UNCHANGED <<services, port, selected, file>>
        BY <1>13, <1>17, <2>3 DEF StartPort
      <3>3. PICK res \in Table!Results : res = IF s \in running' THEN "ok" ELSE "refused"
        BY <1>2
      <3>4. TableOK' /\ Table!Start(o.tcp, res)
        BY <1>5, <3>1, <3>2, <3>3, StartDoes
      <3>5. Table!Do(o, res)
        BY <2>1, <3>4 DEF Table!Do
      <3>6. Answer(res)
        BY <3>2, <3>3
      <3> QED
        BY <1>6, <3>4, <3>5, <3>6
    <2> QED
      BY <2>2, <2>3
  <1>18. CASE StopPort
    <2>1. o.kind = "stop" /\ o.tcp \in Ports
      BY <1>3, <1>4, <1>18 DEF StopPort, Running
    <2>2. CASE s = None
      <3>1. UNCHANGED Table!ports => Table!Do(o, "refused")
        BY <1>11, <1>12, <2>1, <2>2 DEF Table!Do, Table!Stop, Table!Unchanged
      <3> QED
        BY <1>9, <1>13, <1>18, <2>2, <3>1 DEF StopPort
    <2>3. CASE s # None
      <3>1. s \in Listed /\ port[s] = o.tcp
        BY <1>10, <1>12, <2>3
      <3>2. CASE StopOneRaises(s) /\ Answer("refused")
        <4>1. TableOK' /\ Table!Raises(o.tcp, "refused")
          BY <1>5, <3>1, <3>2, RaisesDoes
        <4>2. Table!Do(o, "refused")
          BY <2>1, <4>1 DEF Table!Do, Table!Stop
        <4> QED
          BY <1>2, <1>6, <3>2, <4>1, <4>2
      <3>3. CASE /\ running' = running \ {s} /\ Answer("ok")
                 /\ UNCHANGED <<services, port, selected, file, faults>>
        <4>1. TableOK' /\ Table!Stop(o.tcp, "ok")
          BY <1>5, <3>1, <3>3, StopDoes
        <4>2. Table!Do(o, "ok")
          BY <2>1, <4>1 DEF Table!Do
        <4> QED
          BY <1>2, <1>6, <3>3, <4>1, <4>2
      <3> QED
        BY <1>13, <1>18, <2>3, <3>2, <3>3 DEF StopPort
    <2> QED
      BY <2>2, <2>3
  <1>19. CASE StartAllPorts
    <2>1. /\ o.kind = "startAll" /\ running' = StartedAll(port, running, services, Listed)
          /\ Answer(IF Listed \subseteq running' THEN "ok" ELSE "errors")
          /\ UNCHANGED <<services, port, selected, file>>
      BY <1>3, <1>19 DEF StartAllPorts, Running
    <2>2. PICK res \in Table!Results : res = IF Listed \subseteq running' THEN "ok" ELSE "errors"
      BY <1>2
    <2>3. TableOK' /\ Table!StartAll(res)
      BY <1>5, <2>1, <2>2, StartAllDoes
    <2>4. Table!Do(o, res)
      BY <2>1, <2>3 DEF Table!Do
    <2>5. Answer(res)
      BY <2>1, <2>2
    <2> QED
      BY <1>6, <2>3, <2>4, <2>5
  <1>20. CASE StopAllPorts
    <2>1. o.kind = "stopAll" /\ UNCHANGED <<services, port, selected, file>>
      BY <1>3, <1>20 DEF StopAllPorts, Running
    <2>2. PICK res \in {"ok", "refused"} :
             /\ Answer(res)
             /\ res = "ok" => StopAllDone
             /\ res = "refused" => \E k \in DOMAIN services : StopRaises(k)
      BY <1>20 DEF StopAllPorts
    <2>3. TableOK' /\ Table!StopAll(res)
      BY <1>5, <2>1, <2>2, StopAllDoes
    <2>4. Table!Do(o, res)
      BY <2>1, <2>3 DEF Table!Do
    <2> QED
      BY <1>2, <1>6, <2>2, <2>3, <2>4
  <1> QED
    BY <1>14, <1>15, <1>16, <1>17, <1>18, <1>19, <1>20

\* A dialog that opens is told of the list, and one that is open when the list does not
\* change under it knows it still.
LEMMA DialogStep ==
    ASSUME TableOK, DialogOK, Next, ~Overlaps
    PROVE  DialogOK'
  <1>1. CASE modal' = NoModal
    BY <1>1 DEF DialogOK, NoModal
  <1>2. CASE modal' = modal /\ modal # NoModal
    <2>1. UNCHANGED <<services, port>>
      BY <1>2 DEF Overlaps
    <2> QED
      BY <1>2, <2>1 DEF DialogOK, Listed
  <1>3. CASE OpenAdd \/ OpenEdit \/ AskRemove \/ AskReload
    <2>1. UNCHANGED <<services, port>> /\ Listed' = Listed
      BY <1>3 DEF OpenAdd, OpenEdit, AskRemove, AskReload, table, Listed
    <2>2. CASE OpenAdd
      BY <2>1, <2>2 DEF OpenAdd, DialogOK
    <2>3. CASE OpenEdit
      <3>1. selected \in Listed
        BY <2>3 DEF OpenEdit, TableOK
      <3> QED
        BY <2>1, <2>3, <3>1 DEF OpenEdit, DialogOK
    <2>4. CASE AskRemove
      <3>1. selected \in Listed
        BY <2>4 DEF AskRemove, TableOK
      <3> QED
        BY <2>1, <2>4, <3>1 DEF AskRemove, DialogOK, NoModal
    <2>5. CASE AskReload
      BY <2>5 DEF AskReload, DialogOK, NoModal
    <2> QED
      BY <1>3, <2>2, <2>3, <2>4, <2>5
  <1>4. CASE User /\ ~(OpenAdd \/ OpenEdit \/ AskRemove \/ AskReload)
             /\ ~\E p \in Ports : SaveEdit(p)
    <2>1. modal' = NoModal \/ modal' = modal
      BY <1>4 DEF User, Select, Cancel, SaveAdd, DismissSaveFailed, ConfirmRemove, ConfirmReload,
                  StartSelected, StopSelected, StartAll, StopAll, SaveConfiguration,
                  Close, CloseDone, DismissBox
    <2> QED
      BY <1>1, <1>2, <2>1
  <1>6. ASSUME NEW p \in Ports, SaveEdit(p), modal' # NoModal PROVE DialogOK'
    <2>1. /\ services' = services
          /\ modal' = [NoModal EXCEPT !.kind = "saveFailed", !.subject = modal.subject]
      BY <1>6 DEF SaveEdit, UpdatePortConfig
    <2>2. modal.subject \in Listed /\ Listed' = Listed
      BY <1>6, <2>1 DEF SaveEdit, DialogOK, Listed
    <2> QED
      BY <2>1, <2>2 DEF DialogOK, NoModal
  <1>5. CASE Api
    <2>1. modal' = modal
      BY <1>5 DEF Api, GiveUp, Post, Look, Tick, CreatePort, UpdatePort, DeletePort,
                  StartPort, StopPort, StartAllPorts, StopAllPorts
    <2> QED
      BY <1>1, <1>2, <2>1
  <1> QED
    BY <1>1, <1>3, <1>4, <1>5, <1>6 DEF Next

\* As long as no dialog has been overtaken, the table is as it should be and an open dialog
\* knows it.
SoundInv ==
    /\ BaseInv
    /\ overlapped \in BOOLEAN
    /\ ~overlapped => TableOK /\ DialogOK

LEMMA InitSound == HistoryInit => SoundInv /\ Table!Init
  <1> SUFFICES ASSUME Init, overlapped = FALSE PROVE SoundInv /\ Table!Init
    BY DEF HistoryInit
  <1>1. BaseInv
    BY InitBase
  <1>2. /\ IsInjective(disk) /\ DOMAIN disk = DOMAIN services
        /\ \A i \in DOMAIN disk : port[services[i]] = disk[i]
        /\ running \subseteq Listed /\ \A m \in running : port[m] \notin Foreign
        /\ selected \in Listed \cup {None}
    BY InitList
  <1>3. UniquePorts
    BY <1>2 DEF UniquePorts, IsInjective
  <1>4. TableOK
    BY <1>2, <1>3 DEF TableOK, RunningIsListed
  <1>5. DialogOK
    BY DEF Init, DialogOK, NoModal
  <1>6. SoundInv
    BY <1>1, <1>4, <1>5 DEF SoundInv
  <1>7. {port[m] : m \in Listed} = Range(disk)
    BY <1>2 DEF Listed, Range
  <1>8. {port[m] : m \in Listed} \in SUBSET Ports
    BY <1>1 DEF BaseInv, ListOK
  <1>9. {port[m] : m \in running} \in SUBSET ({port[m] : m \in Listed} \ Foreign)
    BY <1>2
  <1>10. /\ calls = << >> /\ current = None /\ box = None
         /\ op = [r \in Requests |-> None] /\ status = [r \in Requests |-> "idle"]
    BY DEF Init
  <1>11. Table!Init
    BY <1>7, <1>8, <1>9, <1>10 DEF Table!Init
  <1> QED
    BY <1>6, <1>11

LEMMA StepSound ==
    SoundInv /\ [/\ Next /\ Behind /\ overlapped' = (overlapped \/ Overlaps)]_<<vars, overlapped>>
    => SoundInv' /\ [overlapped' \/ Table!Next]_<<Table!vars>>
  <1> SUFFICES ASSUME SoundInv,
                      [/\ Next /\ Behind
                       /\ overlapped' = (overlapped \/ Overlaps)]_<<vars, overlapped>>
               PROVE  SoundInv' /\ (overlapped' \/ Table!Next \/ UNCHANGED Table!vars)
    OBVIOUS
  <1>1. BaseInv'
    BY StepBase DEF SoundInv
  <1>2. CASE Next /\ overlapped' = (overlapped \/ Overlaps)
    <2>1. overlapped' \in BOOLEAN
      BY <1>2 DEF SoundInv
    <2>2. CASE overlapped'
      BY <1>1, <2>1, <2>2 DEF SoundInv
    <2>3. CASE ~overlapped'
      <3>1. ~overlapped /\ ~Overlaps
        BY <1>2, <2>3
      <3>2. TableOK /\ DialogOK
        BY <3>1 DEF SoundInv
      <3>3. TableOK' /\ (Table!Next \/ UNCHANGED Table!vars)
        <4>1. CASE User
          BY <1>1, <3>2, <4>1, UserDoes DEF SoundInv
        <4>2. CASE Api
          BY <3>2, <4>2, QueueDoes, CallDoes DEF Api, SoundInv
        <4> QED
          BY <1>2, <4>1, <4>2 DEF Next
      <3>4. DialogOK'
        BY <1>2, <3>1, <3>2, DialogStep
      <3> QED
        BY <1>1, <2>1, <3>3, <3>4 DEF SoundInv
    <2> QED
      BY <2>2, <2>3
  <1>3. CASE UNCHANGED <<vars, overlapped>>
    <2>1. /\ UNCHANGED <<services, port, running, selected, file, loop, request>>
          /\ UNCHANGED <<modal, overlapped>>
      BY <1>3 DEF vars, table
    <2>2. ~overlapped => TableOK' /\ UNCHANGED Table!vars
      BY <2>1, StutterDoes DEF SoundInv, TableOK
    <2>3. UNCHANGED Table!vars
      <3>1. UNCHANGED Table!asked
        BY <2>1, SameRequests
      <3>2. UNCHANGED Table!ports
        BY <2>1 DEF Table!ports, Listed, file
      <3> QED
        BY <3>1, <3>2 DEF Table!vars
    <2>4. ~overlapped => DialogOK'
      BY <2>1 DEF SoundInv, DialogOK, Listed
    <2> QED
      BY <1>1, <2>1, <2>2, <2>3, <2>4 DEF SoundInv
  <1> QED
    BY <1>2, <1>3

\* As long as no request changes the list under an open dialog, no two mappings have one TCP
\* port and whatever runs is on the list.
THEOREM TableStaysSound == HistorySpec => []TableSound
  <1>1. SoundInv => TableSound
    BY DEF SoundInv, TableOK, TableSound
  <1> QED
    BY <1>1, InitSound, StepSound, PTL DEF HistorySpec

\* As long as that holds, what the user and the requests do to the mappings, the file and
\* the answers are steps of MappingTable.
THEOREM ManagerImplementsTable == HistorySpec => ImplementsTable
  BY InitSound, StepSound, PTL DEF HistorySpec, ImplementsTable
=============================================================================
