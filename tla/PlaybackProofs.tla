---------------------------- MODULE PlaybackProofs ----------------------------
(***************************************************************************)
(* The player, proved for every pool, every queue size and any number of   *)
(* events and requests in flight.                                          *)
(***************************************************************************)
EXTENDS Playback, DataProofs

(***************************************************************************)
(* The lists of the engine.                                                *)
(***************************************************************************)

\* The front of a list is the list when it is long enough.
LEMMA FirstNFacts ==
    ASSUME NEW S, NEW s \in Seq(S), NEW n \in Nat
    PROVE  /\ FirstN(s, n) \in Seq(S)
           /\ Len(FirstN(s, n)) = IF n < Len(s) THEN n ELSE Len(s)
           /\ \A i \in 1 .. Len(FirstN(s, n)) : FirstN(s, n)[i] = s[i]
           /\ Len(s) <= n => FirstN(s, n) = s
<1> DEFINE k == IF n < Len(s) THEN n ELSE Len(s)
<1>1. Len(s) \in Nat /\ k \in Nat /\ k <= Len(s) /\ \A i \in 1 .. Len(s) : s[i] \in S
  OBVIOUS
<1>2. FirstN(s, n) = SubSeq(s, 1, k)
  BY DEF FirstN
<1>3. \A i \in 1 .. k : s[i] \in S
  BY <1>1
<1>4. /\ SubSeq(s, 1, k) \in Seq(S)
      /\ Len(SubSeq(s, 1, k)) = IF 1 <= k THEN k - 1 + 1 ELSE 0
      /\ \A i \in 1 .. k - 1 + 1 : SubSeq(s, 1, k)[i] = s[1 + i - 1]
  <2> HIDE DEF k
  <2>1. 1 \in Int /\ k \in Int
    BY <1>1
  <2> QED  BY <1>3, <2>1, SubSeqProperties
<1>5. Len(SubSeq(s, 1, k)) = k /\ \A i \in 1 .. k : SubSeq(s, 1, k)[i] = s[i]
  <2> HIDE DEF k
  <2> QED  BY <1>1, <1>4
<1>6. ASSUME Len(s) <= n  PROVE SubSeq(s, 1, k) = s
  <2>1. k = Len(s)
    BY <1>1, <1>6
  <2> QED  BY <2>1, SubSeqFull
<1> QED  BY <1>2, <1>4, <1>5, <1>6

\* pushFront: a list of tokens, no longer than the history may be.
LEMMA PushFrontFacts ==
    ASSUME NEW list \in Seq(Tokens), NEW ids \in Seq(Tokens)
    PROVE  PushFront(list, ids) \in Seq(Tokens) /\ Len(PushFront(list, ids)) <= HistoryMax
<1> DEFINE all == ids \o list
           I == {i \in DOMAIN all : \A j \in 1 .. i - 1 : all[j] # all[i]}
<1>1. all \in Seq(Tokens)
  OBVIOUS
<1>2. I \in SUBSET DOMAIN all
  OBVIOUS
<1>3. Only(all, I) \in Seq(Tokens)
  <2> HIDE DEF all, I
  <2> QED  BY <1>1, <1>2, OnlyKeeps
<1>4. PushFront(list, ids) = FirstN(Only(all, I), HistoryMax)
  BY DEF PushFront, FirstOfEach
<1>5. HistoryMax \in Nat
  BY SizesAssumption
<1> HIDE DEF all, I
<1>6. /\ FirstN(Only(all, I), HistoryMax) \in Seq(Tokens)
      /\ Len(FirstN(Only(all, I), HistoryMax))
            = IF HistoryMax < Len(Only(all, I)) THEN HistoryMax ELSE Len(Only(all, I))
  BY <1>3, <1>5, FirstNFacts
<1>7. Len(Only(all, I)) \in Nat
  BY <1>3
<1> QED  BY <1>4, <1>5, <1>6, <1>7

\* An entry's tokens are tokens, and its file is one of them.
LEMMA EntryTokens ==
    ASSUME NEW e \in Entries
    PROVE  /\ e.file \in Files /\ e.rec \in Tokens /\ e.file \in Tokens
           /\ IdentityTokens(e) \in Seq(Tokens)
           /\ e.file \in Range(IdentityTokens(e))
<1>1. e.file \in Files /\ e.rec \in Tokens /\ e.file \in Tokens
  BY DEF Entries, Tokens
<1>2. IdentityTokens(e) \in Seq(Tokens)
  BY <1>1 DEF IdentityTokens
<1>3. 1 \in DOMAIN IdentityTokens(e) /\ IdentityTokens(e)[1] = e.file
  BY <1>1 DEF IdentityTokens
<1> QED  BY <1>1, <1>2, <1>3 DEF Range

\* The tokens of a queue are tokens.
LEMMA TokensOfTyped ==
    ASSUME NEW queue \in Seq(Entries)
    PROVE  TokensOf(queue) \in Seq(Tokens)
<1> DEFINE all == [k \in 1 .. 2 * Len(queue) |->
                      IF k % 2 = 1 THEN queue[(k + 1) \div 2].file ELSE queue[k \div 2].rec]
           I == {k \in DOMAIN all : all[k] # NoRec}
<1>1. Len(queue) \in Nat /\ 2 * Len(queue) \in Nat
  OBVIOUS
<1>2. \A i \in 1 .. Len(queue) : queue[i].file \in Tokens /\ queue[i].rec \in Tokens
  BY EntryTokens
<1>3. ASSUME NEW k \in 1 .. 2 * Len(queue)  PROVE all[k] \in Tokens
  <2>1. CASE k % 2 = 1
    <3>1. (k + 1) \div 2 \in 1 .. Len(queue)
      BY <1>1, <2>1
    <3> QED  BY <1>2, <2>1, <3>1
  <2>2. CASE k % 2 # 1
    <3>1. k \div 2 \in 1 .. Len(queue)
      BY <1>1, <2>2
    <3> QED  BY <1>2, <2>2, <3>1
  <2> QED  BY <2>1, <2>2
<1>4. all \in [1 .. 2 * Len(queue) -> Tokens]
  BY <1>3
<1>5. all \in Seq(Tokens)
  <2> HIDE DEF all
  <2> QED  BY <1>1, <1>4, SeqDef
<1>6. I \in SUBSET DOMAIN all
  OBVIOUS
<1>7. TokensOf(queue) = Only(all, I)
  BY DEF TokensOf
<1> HIDE DEF all, I
<1> QED  BY <1>5, <1>6, <1>7, OnlyKeeps

(***************************************************************************)
(* The tail: which entries go in.                                          *)
(***************************************************************************)

Lawful(s, auto, in, m) == \A n \in 1 .. m : n \in in <=> Admits(s, auto, in, n)

\* Whether an entry is admitted depends on the places before it alone.
LEMMA AdmitsLooksBack ==
    ASSUME NEW s, NEW auto, NEW in, NEW ni, NEW n, {i \in in : i < n} = {i \in ni : i < n}
    PROVE  Admits(s, auto, in, n) <=> Admits(s, auto, ni, n)
BY DEF Admits

\* However long the list, some places are lawful, ...
LEMMA LawfulExists ==
    ASSUME NEW s, NEW auto, NEW m \in Nat
    PROVE  \E in \in SUBSET (1 .. m) : Lawful(s, auto, in, m)
<1> DEFINE Has(k) == \E in \in SUBSET (1 .. k) : Lawful(s, auto, in, k)
           T == {k \in Nat : ~Has(k)}
<1>1. SUFFICES ASSUME T # {}  PROVE FALSE
  <2>1. T = {} => Has(m)
    <3> HIDE DEF Has
    <3> QED  OBVIOUS
  <2> QED  BY <2>1
<1>2. PICK k \in T : \A j \in T : k <= j
  <2>1. T \in SUBSET Nat
    OBVIOUS
  <2> HIDE DEF T
  <2> QED  BY <1>1, <2>1, LeastNatural
<1>3. k # 0
  <2>1. {} \in SUBSET (1 .. 0) /\ Lawful(s, auto, {}, 0)
    BY DEF Lawful
  <2>2. Has(0)
    BY <2>1
  <2> QED  BY <2>2
<1> DEFINE h == k - 1
<1>4. k \in Nat /\ h \in Nat /\ k = h + 1 /\ ~Has(k)
  BY <1>3
<1>5. Has(h)
  <2>1. ~(k <= h)
    BY <1>4
  <2>2. h \notin T
    <3> HIDE DEF T, h
    <3> QED  BY <1>2, <2>1
  <2> HIDE DEF Has
  <2> QED  BY <1>4, <2>2
<1>6. PICK in \in SUBSET (1 .. h) : Lawful(s, auto, in, h)
  BY <1>5
<1> DEFINE ni == IF Admits(s, auto, in, k) THEN in \cup {k} ELSE in
<1> HIDE DEF h
<1>7. \A i \in in : i \in Nat /\ 1 <= i /\ i < k
  BY <1>4, <1>6
<1>8. \A i \in ni : i \in in \/ i = k
  OBVIOUS
<1>9. ni \in SUBSET (1 .. k)
  <2>1. \A i \in ni : i \in 1 .. k
    BY <1>4, <1>7, <1>8
  <2> HIDE DEF ni
  <2> QED  BY <2>1
<1>10. \A i \in in : i \in ni
  OBVIOUS
<1>11. ASSUME NEW n \in 1 .. k  PROVE {i \in in : i < n} = {i \in ni : i < n}
  <2> HIDE DEF ni
  <2>1. \A i \in ni : i < n => i \in in
    BY <1>4, <1>8
  <2> QED  BY <1>10, <2>1
<1>12. ASSUME NEW n \in 1 .. k  PROVE n \in ni <=> Admits(s, auto, ni, n)
  <2>1. Admits(s, auto, in, n) <=> Admits(s, auto, ni, n)
    BY <1>11, AdmitsLooksBack
  <2>2. CASE n = k
    <3>1. k \notin in
      BY <1>4, <1>7
    <3>2. k \in ni <=> Admits(s, auto, in, k)
      BY <3>1
    <3> QED  BY <2>1, <2>2, <3>2
  <2>3. CASE n # k
    <3>1. n \in 1 .. h /\ (n \in ni <=> n \in in)
      BY <1>4, <2>3
    <3> QED  BY <1>6, <2>1, <3>1 DEF Lawful
  <2> QED  BY <2>2, <2>3
<1>13. Has(k)
  <2> HIDE DEF ni
  <2> QED  BY <1>9, <1>12 DEF Lawful
<1> QED  BY <1>4, <1>13

\* ... and no others are.
LEMMA LawfulUnique ==
    ASSUME NEW s, NEW auto, NEW m \in Nat, NEW in \in SUBSET (1 .. m), NEW ni \in SUBSET (1 .. m),
           Lawful(s, auto, in, m), Lawful(s, auto, ni, m)
    PROVE  in = ni
<1> DEFINE T == {n \in 1 .. m : ~(n \in in <=> n \in ni)}
<1>1. SUFFICES ASSUME T # {}  PROVE FALSE
  OBVIOUS
<1>2. PICK n \in T : \A j \in T : n <= j
  <2>1. T \in SUBSET Nat
    OBVIOUS
  <2> HIDE DEF T
  <2> QED  BY <1>1, <2>1, LeastNatural
<1>3. n \in 1 .. m /\ ~(n \in in <=> n \in ni)
  OBVIOUS
<1>4. \A i \in 1 .. m : i < n => (i \in in <=> i \in ni)
  BY <1>2, <1>3
<1>5. {i \in in : i < n} = {i \in ni : i < n}
  BY <1>4
<1>6. Admits(s, auto, in, n) <=> Admits(s, auto, ni, n)
  BY <1>5, AdmitsLooksBack
<1> QED  BY <1>3, <1>6 DEF Lawful

\* What a tail admits is the one lawful set of places of its list.
LEMMA AdmittedLawful ==
    ASSUME NEW s, NEW S, NEW auto \in Seq(S)
    PROVE  /\ Admitted(s, auto) \in SUBSET DOMAIN auto
           /\ Lawful(s, auto, Admitted(s, auto), Len(auto))
           /\ \A in \in SUBSET DOMAIN auto :
                 Lawful(s, auto, in, Len(auto)) => in = Admitted(s, auto)
<1>1. Len(auto) \in Nat /\ DOMAIN auto = 1 .. Len(auto)
  OBVIOUS
<1>2. \E in \in SUBSET DOMAIN auto : Lawful(s, auto, in, Len(auto))
  BY <1>1, LawfulExists
<1>3. Admitted(s, auto) = CHOOSE in \in SUBSET DOMAIN auto : Lawful(s, auto, in, Len(auto))
  BY <1>1 DEF Admitted, Lawful
<1>4. Admitted(s, auto) \in SUBSET DOMAIN auto /\ Lawful(s, auto, Admitted(s, auto), Len(auto))
  BY <1>2, <1>3
<1> QED  BY <1>1, <1>4, LawfulUnique

(***************************************************************************)
(* The assembled queue.                                                    *)
(***************************************************************************)

\* No file twice.
Distinct(queue) == \A i, j \in DOMAIN queue : queue[i].file = queue[j].file => i = j

\* The pins of a state: none twice, none that plays, and all of them fit.
PinsFit(s) ==
    /\ Len(s.intent) <= Slots(s)
    /\ Distinct(s.intent)
    /\ s.current # Nothing => \A i \in DOMAIN s.intent : s.intent[i].file # s.current.file

\* The fields of a state, and the room its pins have.
LEMMA StateFields ==
    ASSUME NEW s \in States
    PROVE  /\ s.current \in Entries \cup {Nothing} /\ s.intent \in Seq(Entries)
           /\ s.method \in Methods
           /\ s.history \in Seq(Tokens) /\ s.failed \in Seq(Tokens) /\ s.suppressed \in Seq(Tokens)
           /\ Len(s.intent) \in Nat /\ Slots(s) \in Nat /\ Need(s) \in Nat
           /\ Slots(s) = QueueMax - FirstAddressable(s)
           /\ FirstAddressable(s) \in {0, 1}
           /\ Len(s.intent) <= Slots(s) => Need(s) = Slots(s) - Len(s.intent)
<1>1. /\ s.current \in Entries \cup {Nothing} /\ s.intent \in Seq(Entries) /\ s.method \in Methods
      /\ s.history \in Seq(Tokens) /\ s.failed \in Seq(Tokens) /\ s.suppressed \in Seq(Tokens)
  BY DEF States
<1>2. Len(s.intent) \in Nat
  BY <1>1
<1>3. Slots(s) \in Nat /\ Slots(s) = QueueMax - FirstAddressable(s) /\ FirstAddressable(s) \in {0, 1}
  BY SizesAssumption DEF Slots, FirstAddressable
<1>4. Need(s) \in Nat /\ (Len(s.intent) <= Slots(s) => Need(s) = Slots(s) - Len(s.intent))
  BY <1>2, <1>3 DEF Need
<1> QED  BY <1>1, <1>2, <1>3, <1>4

\* An entry with a file of the state is excluded from its tail.
LEMMA StateExcludes ==
    ASSUME NEW s \in States, NEW e \in Entries
    PROVE  /\ (\E i \in DOMAIN s.intent : s.intent[i].file = e.file) => IsTaken(ExcludedKeys(s), e)
           /\ s.current # Nothing /\ s.current.file = e.file => IsTaken(ExcludedKeys(s), e)
<1>1. \A d \in Range(s.intent) \cup ({s.current} \ {Nothing}) :
         Range(IdentityTokens(d)) \subseteq ExcludedKeys(s)
  BY DEF ExcludedKeys
<1>2. ASSUME NEW d \in Range(s.intent) \cup ({s.current} \ {Nothing}), d \in Entries, d.file = e.file
      PROVE  IsTaken(ExcludedKeys(s), e)
  <2>1. e.file \in Range(IdentityTokens(e)) /\ d.file \in Range(IdentityTokens(d))
    BY <1>2, EntryTokens
  <2>2. e.file \in ExcludedKeys(s)
    BY <1>1, <1>2, <2>1
  <2> QED  BY <2>1, <2>2 DEF IsTaken
<1>3. \A i \in DOMAIN s.intent : s.intent[i] \in Range(s.intent) /\ s.intent[i] \in Entries
  <2>1. s.intent \in Seq(Entries)
    BY StateFields
  <2> QED  BY <2>1 DEF Range
<1>4. s.current # Nothing => s.current \in Entries
  BY StateFields
<1> QED  BY <1>2, <1>3, <1>4

\* The tail is of the list's entries, no longer than there is room, and none
\* has a token of the state or of an entry before it.
LEMMA TailFacts ==
    ASSUME NEW s \in States, NEW auto \in Seq(Entries)
    PROVE  /\ FreshTail(s, auto) \in Seq(Entries)
           /\ Len(FreshTail(s, auto)) \in Nat /\ Len(FreshTail(s, auto)) <= Need(s)
           /\ \A i \in 1 .. Len(FreshTail(s, auto)) :
                 /\ ~IsTaken(ExcludedKeys(s), FreshTail(s, auto)[i])
                 /\ \E k \in DOMAIN auto : FreshTail(s, auto)[i] = auto[k]
           /\ \A i, j \in 1 .. Len(FreshTail(s, auto)) :
                 i < j => ~IsTaken(Range(IdentityTokens(FreshTail(s, auto)[i])), FreshTail(s, auto)[j])
<1> DEFINE K == Admitted(s, auto)
           F == Only(auto, K)
           c == Cardinality(K)
<1>1. K \in SUBSET DOMAIN auto /\ Lawful(s, auto, K, Len(auto))
  BY AdmittedLawful
<1>2. Len(auto) \in Nat /\ DOMAIN auto = 1 .. Len(auto) /\ K \in SUBSET (1 .. Len(auto))
  BY <1>1
<1>3. \A n \in K : Admits(s, auto, K, n)
  BY <1>1, <1>2 DEF Lawful
<1> HIDE DEF K
<1>9. \A n \in K : n \in Nat /\ 1 <= n
  BY <1>2
<1>10. \A i \in Nat : /\ Place(K, i) \in 0 .. c
                       /\ Place(K, i + 1) = IF i + 1 \in K THEN Place(K, i) + 1 ELSE Place(K, i)
  <2> DEFINE m == Len(auto)
  <2>1. m \in Nat /\ K \in SUBSET (1 .. m)
    BY <1>2
  <2> HIDE DEF m
  <2> QED  BY <2>1, PlaceFacts
<1>4. /\ F \in Seq(Entries) /\ Len(F) = c /\ c \in Nat
      /\ \A n \in 1 .. c : Nth(K, n) \in K /\ F[n] = auto[Nth(K, n)]
      /\ \A a, b \in 1 .. c : a < b => Nth(K, a) < Nth(K, b)
  BY <1>1, OnlyKeeps
<1>5. c <= Need(s)
  <2>1. CASE c = 0
    BY <2>1, StateFields
  <2>2. CASE c # 0
    <3>1. c \in 1 .. c
      BY <1>4, <2>2
    <3> DEFINE n == Nth(K, c)
               h == n - 1
    <3>2. n \in K /\ Place(K, n) = c
      BY <1>2, <3>1, NthMember
    <3>3. n \in Nat /\ h \in Nat /\ n = h + 1
      BY <1>9, <3>2
    <3>4. Place(K, h + 1) = Place(K, h) + 1 /\ Place(K, h) \in Nat
      <4> HIDE DEF n, h
      <4>1. Place(K, h + 1) = IF h + 1 \in K THEN Place(K, h) + 1 ELSE Place(K, h)
        BY <1>10, <3>3
      <4>2. Place(K, h) \in 0 .. c
        BY <1>10, <3>3
      <4> QED  BY <1>4, <3>2, <3>3, <4>1, <4>2
    <3>5. {i \in K : i < n} = {i \in K : i <= h}
      <4> HIDE DEF n, h
      <4>1. \A i \in K : i \in Nat
        BY <1>2
      <4> QED  BY <3>3, <4>1
    <3>6. Cardinality({i \in K : i < n}) < Need(s)
      <4> HIDE DEF n
      <4> QED  BY <1>3, <3>2 DEF Admits
    <3>7. Place(K, h) < Need(s)
      <4> HIDE DEF n, h
      <4> QED  BY <3>5, <3>6 DEF Place
    <3> HIDE DEF n, h
    <3> QED  BY <1>4, <3>2, <3>3, <3>4, <3>7, StateFields
  <2> QED  BY <2>1, <2>2
<1>6. ASSUME NEW i \in 1 .. c
      PROVE  ~IsTaken(ExcludedKeys(s), F[i]) /\ \E k \in DOMAIN auto : F[i] = auto[k]
  <2>1. Nth(K, i) \in K /\ Nth(K, i) \in DOMAIN auto /\ F[i] = auto[Nth(K, i)]
    BY <1>1, <1>4
  <2>2. ~IsTaken(ExcludedKeys(s), auto[Nth(K, i)])
    BY <1>3, <2>1 DEF Admits
  <2> HIDE DEF F
  <2> QED  BY <2>1, <2>2
<1>7. ASSUME NEW i \in 1 .. c, NEW j \in 1 .. c, i < j
      PROVE  ~IsTaken(Range(IdentityTokens(F[i])), F[j])
  <2>1. /\ Nth(K, i) \in K /\ F[i] = auto[Nth(K, i)]
        /\ Nth(K, j) \in K /\ F[j] = auto[Nth(K, j)]
        /\ Nth(K, i) < Nth(K, j)
    BY <1>4, <1>7
  <2>2. ~IsTaken(Range(IdentityTokens(auto[Nth(K, i)])), auto[Nth(K, j)])
    BY <1>3, <2>1 DEF Admits
  <2> HIDE DEF F
  <2> QED  BY <2>1, <2>2
<1>8. FreshTail(s, auto) = F
  BY DEF FreshTail, K
<1> HIDE DEF F, c
<1> QED  BY <1>4, <1>5, <1>6, <1>7, <1>8

\* The queue is the current track, the pins and the tail, cut nowhere.
LEMMA Assembled ==
    ASSUME NEW s \in States, PinsFit(s), NEW auto \in Seq(Entries)
    PROVE  LET queue == AssembleQueue(s, auto)
               tail  == FreshTail(s, auto)
               at    == FirstAddressable(s)
           IN  /\ queue \in Seq(Entries)
               /\ Len(queue) = at + Len(s.intent) + Len(tail) /\ Len(queue) <= QueueMax
               /\ s.current # Nothing => queue[1] = s.current
               /\ \A i \in 1 .. Len(s.intent) : queue[at + i] = s.intent[i]
               /\ \A i \in 1 .. Len(tail) : queue[at + Len(s.intent) + i] = tail[i]
<1> DEFINE tail == FreshTail(s, auto)
           at == FirstAddressable(s)
           head == IF s.current = Nothing THEN <<>> ELSE <<s.current>>
           pins == s.intent
<1>1. tail \in Seq(Entries) /\ Len(tail) \in Nat /\ Len(tail) <= Need(s)
  BY TailFacts
<1>2. head \in Seq(Entries) /\ Len(head) = at /\ (s.current # Nothing => head[1] = s.current)
  BY StateFields DEF FirstAddressable
<1>3. /\ pins \in Seq(Entries) /\ Len(pins) \in Nat /\ Slots(s) \in Nat /\ at \in {0, 1}
      /\ Len(pins) <= Slots(s) /\ Need(s) = Slots(s) - Len(pins) /\ Slots(s) = QueueMax - at
  BY StateFields DEF PinsFit
<1>4. FirstN(pins, Slots(s)) = pins
  BY <1>3, FirstNFacts
<1>5. AssembleQueue(s, auto) = FirstN(head \o pins \o tail, QueueMax)
  BY <1>4 DEF AssembleQueue
<1> HIDE DEF tail, at, head, pins
<1>6. /\ head \o pins \in Seq(Entries) /\ Len(head \o pins) = at + Len(pins)
      /\ \A i \in 1 .. at + Len(pins) :
            (head \o pins)[i] = IF i <= at THEN head[i] ELSE pins[i - at]
  BY <1>2, <1>3, ConcatProperties
<1>7. /\ head \o pins \o tail \in Seq(Entries)
      /\ Len(head \o pins \o tail) = at + Len(pins) + Len(tail)
      /\ \A i \in 1 .. at + Len(pins) + Len(tail) :
            (head \o pins \o tail)[i] =
                IF i <= at + Len(pins) THEN (head \o pins)[i] ELSE tail[i - (at + Len(pins))]
  BY <1>1, <1>6, ConcatProperties
<1>8. at + Len(pins) + Len(tail) <= QueueMax /\ QueueMax \in Nat
  BY <1>1, <1>3, SizesAssumption
<1>9. AssembleQueue(s, auto) = head \o pins \o tail
  BY <1>5, <1>7, <1>8, FirstNFacts
<1> DEFINE queue == head \o pins \o tail
<1>10. s.current # Nothing => queue[1] = s.current
  <2>1. s.current # Nothing => at = 1
    BY DEF at, FirstAddressable
  <2> QED  BY <1>1, <1>2, <1>3, <1>6, <1>7, <2>1
<1>11. ASSUME NEW i \in 1 .. Len(pins)  PROVE queue[at + i] = pins[i]
  <2> DEFINE k == at + i
  <2>1. k \in 1 .. at + Len(pins) /\ k \in 1 .. at + Len(pins) + Len(tail)
        /\ ~(k <= at) /\ k <= at + Len(pins) /\ k - at = i
    BY <1>1, <1>3
  <2> HIDE DEF k
  <2>2. queue[k] = (head \o pins)[k] /\ (head \o pins)[k] = pins[k - at]
    BY <1>6, <1>7, <2>1
  <2> QED  BY <2>1, <2>2 DEF k
<1>12. ASSUME NEW i \in 1 .. Len(tail)  PROVE queue[at + Len(pins) + i] = tail[i]
  <2> DEFINE k == at + Len(pins) + i
  <2>1. k \in 1 .. at + Len(pins) + Len(tail) /\ ~(k <= at + Len(pins)) /\ k - (at + Len(pins)) = i
    BY <1>1, <1>3
  <2> HIDE DEF k
  <2>2. queue[k] = tail[k - (at + Len(pins))]
    BY <1>7, <2>1
  <2> QED  BY <2>1, <2>2 DEF k
<1> HIDE DEF queue
<1>13. AssembleQueue(s, auto) = queue /\ queue \in Seq(Entries)
       /\ Len(queue) = at + Len(pins) + Len(tail) /\ Len(queue) <= QueueMax
  BY <1>7, <1>8, <1>9 DEF queue
<1> QED  BY <1>10, <1>11, <1>12, <1>13 DEF tail, at, pins

\* No file is twice in an assembled queue.
LEMMA AssembledDistinct ==
    ASSUME NEW s \in States, PinsFit(s), NEW auto \in Seq(Entries)
    PROVE  Distinct(AssembleQueue(s, auto))
<1> DEFINE queue == AssembleQueue(s, auto)
           tail == FreshTail(s, auto)
           at == FirstAddressable(s)
           p == Len(s.intent)
<1>1. /\ queue \in Seq(Entries) /\ Len(queue) = at + p + Len(tail)
      /\ s.current # Nothing => queue[1] = s.current
      /\ \A i \in 1 .. p : queue[at + i] = s.intent[i]
      /\ \A i \in 1 .. Len(tail) : queue[at + p + i] = tail[i]
  BY Assembled
<1>2. /\ at \in {0, 1} /\ p \in Nat /\ Len(tail) \in Nat /\ s.intent \in Seq(Entries)
      /\ at = 1 => s.current # Nothing
  BY StateFields, TailFacts DEF FirstAddressable
<1>3. /\ \A i, j \in 1 .. p : s.intent[i].file = s.intent[j].file => i = j
      /\ s.current # Nothing => \A i \in 1 .. p : s.intent[i].file # s.current.file
  BY <1>2 DEF PinsFit, Distinct
<1>4. tail \in Seq(Entries) /\ \A l \in 1 .. Len(tail) : tail[l] \in Entries
  BY TailFacts
<1>5. ASSUME NEW l \in 1 .. Len(tail)
      PROVE  /\ \A i \in 1 .. p : s.intent[i].file # tail[l].file
             /\ s.current # Nothing => s.current.file # tail[l].file
             /\ \A k \in 1 .. Len(tail) : k < l => tail[k].file # tail[l].file
  <2>1. tail[l] \in Entries /\ ~IsTaken(ExcludedKeys(s), tail[l])
    BY <1>4, TailFacts
  <2>2. /\ \A i \in 1 .. p : s.intent[i].file # tail[l].file
        /\ s.current # Nothing => s.current.file # tail[l].file
    BY <1>2, <2>1, StateExcludes
  <2>3. ASSUME NEW k \in 1 .. Len(tail), k < l, tail[k].file = tail[l].file  PROVE FALSE
    <3>1. ~IsTaken(Range(IdentityTokens(tail[k])), tail[l])
      BY <2>3, TailFacts
    <3>2. tail[k].file \in Range(IdentityTokens(tail[k])) /\ tail[l].file \in Range(IdentityTokens(tail[l]))
      BY <1>4, EntryTokens
    <3> QED  BY <2>3, <3>1, <3>2 DEF IsTaken
  <2> QED  BY <2>2, <2>3
<1> HIDE DEF queue, tail, at, p
<1>6. ASSUME NEW i \in 1 .. Len(queue), NEW j \in 1 .. Len(queue), i < j
      PROVE  queue[i].file # queue[j].file
  <2>1. \/ i = 1 /\ at = 1
        \/ \E k \in 1 .. p : i = at + k
        \/ \E k \in 1 .. Len(tail) : i = at + p + k
    <3>1. CASE i <= at
      BY <1>2, <3>1
    <3>2. CASE at < i /\ i <= at + p
      <4>1. i - at \in 1 .. p /\ i = at + (i - at)
        BY <1>2, <3>2
      <4> QED  BY <4>1
    <3>3. CASE at + p < i
      <4>1. i - (at + p) \in 1 .. Len(tail) /\ i = at + p + (i - (at + p))
        BY <1>1, <1>2, <3>3
      <4> QED  BY <4>1
    <3> QED  BY <1>2, <3>1, <3>2, <3>3
  <2>2. \/ \E k \in 1 .. p : j = at + k
        \/ \E k \in 1 .. Len(tail) : j = at + p + k
    <3>1. CASE j <= at + p
      <4>1. j - at \in 1 .. p /\ j = at + (j - at)
        BY <1>2, <1>6, <3>1
      <4> QED  BY <4>1
    <3>2. CASE at + p < j
      <4>1. j - (at + p) \in 1 .. Len(tail) /\ j = at + p + (j - (at + p))
        BY <1>1, <1>2, <3>2
      <4> QED  BY <4>1
    <3> QED  BY <1>2, <3>1, <3>2
  <2>3. CASE \E l \in 1 .. p : j = at + l
    <3>1. PICK l \in 1 .. p : j = at + l
      BY <2>3
    <3>2. queue[j] = s.intent[l]
      BY <1>1, <3>1
    <3>3. CASE i = 1 /\ at = 1
      BY <1>1, <1>2, <1>3, <3>2, <3>3
    <3>4. CASE \E k \in 1 .. p : i = at + k
      <4>1. PICK k \in 1 .. p : i = at + k
        BY <3>4
      <4>2. queue[i] = s.intent[k] /\ k # l
        BY <1>1, <1>6, <3>1, <4>1
      <4> QED  BY <1>3, <3>2, <4>2
    <3>5. ASSUME NEW k \in 1 .. Len(tail), i = at + p + k  PROVE FALSE
      BY <1>2, <1>6, <3>1, <3>5
    <3> QED  BY <2>1, <3>3, <3>4, <3>5
  <2>4. CASE \E l \in 1 .. Len(tail) : j = at + p + l
    <3>1. PICK l \in 1 .. Len(tail) : j = at + p + l
      BY <2>4
    <3>2. queue[j] = tail[l]
      BY <1>1, <3>1
    <3>3. CASE i = 1 /\ at = 1
      BY <1>1, <1>2, <1>5, <3>2, <3>3
    <3>4. CASE \E k \in 1 .. p : i = at + k
      <4>1. PICK k \in 1 .. p : i = at + k
        BY <3>4
      <4>2. queue[i] = s.intent[k]
        BY <1>1, <4>1
      <4> QED  BY <1>5, <3>2, <4>2
    <3>5. CASE \E k \in 1 .. Len(tail) : i = at + p + k
      <4>1. PICK k \in 1 .. Len(tail) : i = at + p + k
        BY <3>5
      <4>2. queue[i] = tail[k] /\ k < l
        BY <1>1, <1>2, <1>6, <3>1, <4>1
      <4> QED  BY <1>5, <3>2, <4>2
    <3> QED  BY <2>1, <3>3, <3>4, <3>5
  <2> QED  BY <2>2, <2>3, <2>4
<1>7. ASSUME NEW i \in 1 .. Len(queue), NEW j \in 1 .. Len(queue), queue[i].file = queue[j].file
      PROVE  i = j
  <2>1. ~(i < j) /\ ~(j < i)
    BY <1>6, <1>7
  <2>2. Len(queue) \in Nat
    BY <1>1
  <2> QED  BY <2>1, <2>2
<1>8. DOMAIN queue = 1 .. Len(queue)
  BY <1>1
<1>9. Distinct(queue)
  BY <1>7, <1>8 DEF Distinct
<1> QED  BY <1>9 DEF queue

\* Lists of tail entries.
Tails == {x \in Seq(Entries) : \A k \in DOMAIN x : x[k].origin = "auto"}

\* What is read back from a queue is a list of tail entries.
LEMMA AutoTailFacts ==
    ASSUME NEW queue \in Seq(Entries)
    PROVE  AutoTail(queue) \in Tails
<1> DEFINE I == {i \in DOMAIN queue : queue[i].origin = "auto"}
<1>1. I \in SUBSET DOMAIN queue
  OBVIOUS
<1>2. \A i \in I : queue[i].origin = "auto"
  OBVIOUS
<1>3. AutoTail(queue) = Only(queue, I)
  BY DEF AutoTail
<1> HIDE DEF I
<1>4. /\ Only(queue, I) \in Seq(Entries)
      /\ DOMAIN Only(queue, I) = 1 .. Cardinality(I)
      /\ \A n \in 1 .. Cardinality(I) : Nth(I, n) \in I /\ Only(queue, I)[n] = queue[Nth(I, n)]
  BY <1>1, OnlyKeeps
<1> QED  BY <1>2, <1>3, <1>4 DEF Tails

\* Re-assembled from its own tail, a queue stays as it is.  What its tail
\* keeps of the pins (one may have come from a tail) is excluded again; the
\* rest is the old tail, of which everything goes in again.
LEMMA TailAgain ==
    ASSUME NEW s \in States, PinsFit(s), NEW auto \in Tails
    PROVE  FreshTail(s, AutoTail(AssembleQueue(s, auto))) = FreshTail(s, auto)
<1> DEFINE queue == AssembleQueue(s, auto)
           tail == FreshTail(s, auto)
           at == FirstAddressable(s)
           p == at + Len(s.intent)
           I == {i \in DOMAIN queue : queue[i].origin = "auto"}
           G == Only(queue, I)
           K == {n \in DOMAIN G : p < Nth(I, n)}
<1>1. auto \in Seq(Entries) /\ \A k \in DOMAIN auto : auto[k].origin = "auto"
  BY DEF Tails
<1>2. /\ queue \in Seq(Entries) /\ Len(queue) = p + Len(tail)
      /\ s.current # Nothing => queue[1] = s.current
      /\ \A i \in 1 .. Len(s.intent) : queue[at + i] = s.intent[i]
      /\ \A i \in 1 .. Len(tail) : queue[p + i] = tail[i]
  BY <1>1, Assembled
<1>3. /\ at \in {0, 1} /\ Len(s.intent) \in Nat /\ p \in Nat /\ Need(s) \in Nat
      /\ s.intent \in Seq(Entries) /\ (at = 1 => s.current # Nothing)
      /\ s.current # Nothing => s.current \in Entries
  <2>1. /\ at \in {0, 1} /\ Len(s.intent) \in Nat /\ Need(s) \in Nat /\ s.intent \in Seq(Entries)
        /\ s.current # Nothing => s.current \in Entries
    BY StateFields
  <2>2. at = 1 => s.current # Nothing
    BY DEF FirstAddressable
  <2> QED  BY <2>1, <2>2
<1>4. /\ tail \in Seq(Entries) /\ Len(tail) \in Nat /\ Len(tail) <= Need(s)
      /\ \A i \in 1 .. Len(tail) : /\ ~IsTaken(ExcludedKeys(s), tail[i])
                                   /\ tail[i].origin = "auto"
      /\ \A i, j \in 1 .. Len(tail) : i < j => ~IsTaken(Range(IdentityTokens(tail[i])), tail[j])
  <2> HIDE DEF tail
  <2>1. /\ tail \in Seq(Entries) /\ Len(tail) \in Nat /\ Len(tail) <= Need(s)
        /\ \A i \in 1 .. Len(tail) : /\ ~IsTaken(ExcludedKeys(s), tail[i])
                                     /\ \E k \in DOMAIN auto : tail[i] = auto[k]
        /\ \A i, j \in 1 .. Len(tail) : i < j => ~IsTaken(Range(IdentityTokens(tail[i])), tail[j])
    BY <1>1, TailFacts DEF tail
  <2>2. \A i \in 1 .. Len(tail) : tail[i].origin = "auto"
    BY <1>1, <2>1
  <2> QED  BY <2>1, <2>2
<1>5. I \in SUBSET DOMAIN queue /\ DOMAIN queue = 1 .. Len(queue)
      /\ \A i \in 1 .. Len(queue) : i \in I <=> queue[i].origin = "auto"
  BY <1>2
<1>6. G = AutoTail(queue)
  BY DEF AutoTail
<1> HIDE DEF queue, tail, at, p, I
<1>7. /\ G \in Seq(Entries) /\ Len(G) = Cardinality(I) /\ DOMAIN G = 1 .. Cardinality(I)
      /\ Cardinality(I) \in Nat
      /\ \A n \in 1 .. Cardinality(I) : Nth(I, n) \in I /\ G[n] = queue[Nth(I, n)]
      /\ \A i \in I : Place(I, i) \in 1 .. Cardinality(I) /\ G[Place(I, i)] = queue[i]
      /\ \A a, b \in 1 .. Cardinality(I) : a < b => Nth(I, a) < Nth(I, b)
  BY <1>2, <1>5, OnlyKeeps
<1>8. I \in SUBSET (1 .. Len(queue)) /\ Len(queue) \in Nat /\ \A i \in I : i \in Nat
  BY <1>2, <1>5
<1> HIDE DEF G
\* The part before the tail is excluded; the part behind is the tail.
<1>9. ASSUME NEW n \in 1 .. Cardinality(I), ~(p < Nth(I, n))
      PROVE  IsTaken(ExcludedKeys(s), G[n])
  <2>1. G[n] = queue[Nth(I, n)] /\ G[n] \in Entries /\ Nth(I, n) \in 1 .. Len(queue)
    BY <1>5, <1>7
  <2> DEFINE i == Nth(I, n)
  <2> HIDE DEF i
  <2>2. CASE Nth(I, n) <= at
    <3>1. Nth(I, n) = 1 /\ at = 1
      BY <1>3, <2>1, <2>2
    <3>2. G[n] = s.current /\ s.current # Nothing
      BY <1>2, <1>3, <2>1, <3>1
    <3> QED  BY <2>1, <3>2, StateExcludes
  <2>3. CASE at < Nth(I, n)
    <3> DEFINE k == Nth(I, n) - at
    <3>1. k \in 1 .. Len(s.intent) /\ Nth(I, n) = at + k
      BY <1>3, <1>9, <2>1, <2>3 DEF p
    <3> HIDE DEF k
    <3>2. G[n] = s.intent[k] /\ k \in DOMAIN s.intent
      BY <1>2, <1>3, <2>1, <3>1
    <3> QED  BY <2>1, <3>2, StateExcludes
  <2> QED  BY <1>3, <2>1, <2>2, <2>3
<1>10. ASSUME NEW n \in K
       PROVE  /\ n \in 1 .. Cardinality(I) /\ n \in DOMAIN G
              /\ Nth(I, n) - p \in 1 .. Len(tail) /\ G[n] = tail[Nth(I, n) - p]
  <2>1. n \in 1 .. Cardinality(I) /\ p < Nth(I, n) /\ Nth(I, n) \in 1 .. Len(queue)
    BY <1>5, <1>7
  <2> DEFINE k == Nth(I, n) - p
  <2>2. k \in 1 .. Len(tail) /\ Nth(I, n) = p + k
    BY <1>2, <1>3, <1>4, <2>1
  <2> HIDE DEF k
  <2>3. G[n] = tail[k]
    BY <1>2, <1>7, <2>1, <2>2
  <2> QED  BY <1>7, <2>1, <2>2, <2>3 DEF k
<1>11. ASSUME NEW n \in 1 .. Len(G)  PROVE n \in K <=> Admits(s, G, K, n)
  <2>1. n \in 1 .. Cardinality(I) /\ n \in DOMAIN G
    BY <1>7
  <2>2. CASE n \notin K
    <3>1. ~(p < Nth(I, n))
      BY <2>1, <2>2
    <3>2. IsTaken(ExcludedKeys(s), G[n])
      BY <1>9, <2>1, <3>1
    <3> QED  BY <2>2, <3>2 DEF Admits
  <2>3. CASE n \in K
    <3> DEFINE before == {i \in K : i < n}
               f(i) == Nth(I, i) - p
               h == f(n) - 1
    <3>1. f(n) \in 1 .. Len(tail) /\ G[n] = tail[f(n)] /\ h \in Nat /\ h < Need(s)
      BY <1>3, <1>4, <1>10, <2>3
    <3>2. ASSUME NEW i \in before
          PROVE  i \in K /\ f(i) \in 1 .. Len(tail) /\ f(i) < f(n) /\ G[i] = tail[f(i)]
      <4>1. i \in K /\ i < n /\ i \in 1 .. Cardinality(I)
        BY <1>10
      <4>2. Nth(I, i) < Nth(I, n)
        BY <1>7, <2>1, <4>1
      <4>3. Nth(I, i) - p \in 1 .. Len(tail) /\ Nth(I, n) - p \in 1 .. Len(tail) /\ G[i] = tail[Nth(I, i) - p]
        BY <1>10, <2>3, <4>1
      <4>4. Nth(I, i) \in Nat /\ Nth(I, n) \in Nat
        BY <1>7, <1>8, <2>1, <4>1
      <4> QED  BY <1>3, <4>1, <4>2, <4>3, <4>4
    <3>3. Cardinality(before) <= h
      <4> DEFINE m == [i \in before |-> f(i)]
      <4>1. \A i \in before : f(i) \in 1 .. h
        BY <3>1, <3>2
      <4>2. \A a, b \in before : f(a) = f(b) => a = b
        <5> SUFFICES ASSUME NEW a \in before, NEW b \in before, f(a) = f(b)  PROVE a = b
          OBVIOUS
        <5>1. a \in 1 .. Cardinality(I) /\ b \in 1 .. Cardinality(I)
          BY <1>10, <3>2
        <5>2. Nth(I, a) \in Nat /\ Nth(I, b) \in Nat
          BY <1>7, <1>8, <5>1
        <5>3. Nth(I, a) = Nth(I, b)
          BY <1>3, <5>2
        <5>4. ~(a < b) /\ ~(b < a)
          BY <1>7, <5>1, <5>2, <5>3
        <5> QED  BY <1>7, <5>1, <5>4
      <4>3. m \in Injection(before, 1 .. h)
        <5> HIDE DEF before, f, h
        <5> QED  BY <4>1, <4>2 DEF Injection, IsInjective
      <4>4. IsFiniteSet(1 .. h) /\ Cardinality(1 .. h) = h
        <5>1. IsFiniteSet(1 .. h) /\ Cardinality(1 .. h) = IF 1 > h THEN 0 ELSE h - 1 + 1
          <6> HIDE DEF h
          <6> QED  BY <3>1, FS_Interval
        <5> HIDE DEF h
        <5> QED  BY <3>1, <5>1
      <4> HIDE DEF m, before, h
      <4> QED  BY <4>3, <4>4, FS_Injection
    <3>4. Cardinality(before) < Need(s)
      <4>1. IsFiniteSet(before)
        <5>1. \A i \in before : i \in Nat /\ i <= Cardinality(I)
          BY <1>7, <1>10
        <5>2. before \in SUBSET Nat
          BY <5>1
        <5> HIDE DEF before
        <5> QED  BY <1>7, <5>1, <5>2, FS_BoundedSetOfNaturals
      <4>2. Cardinality(before) \in Nat
        BY <4>1, FS_CardinalityType
      <4> HIDE DEF before, h
      <4> QED  BY <1>3, <3>1, <3>3, <4>2
    <3>5. ~IsTaken(ExcludedKeys(s), G[n])
      BY <1>4, <3>1
    <3>6. \A i \in before : ~IsTaken(Range(IdentityTokens(G[i])), G[n])
      <4> HIDE DEF before, f
      <4> QED  BY <1>4, <3>1, <3>2
    <3>7. Admits(s, G, K, n)
      BY <3>4, <3>5, <3>6 DEF Admits
    <3> QED  BY <2>3, <3>7
  <2> QED  BY <2>2, <2>3
<1>12. K \in SUBSET DOMAIN G
  OBVIOUS
<1>13. Admitted(s, G) = K
  <2>1. Lawful(s, G, K, Len(G))
    BY <1>11 DEF Lawful
  <2> HIDE DEF K
  <2> QED  BY <1>7, <1>12, <2>1, AdmittedLawful
<1>14. Only(G, K) = tail
  <2> DEFINE g == [k \in 1 .. Len(tail) |-> Place(I, p + k)]
  <2>1. ASSUME NEW k \in 1 .. Len(tail)
        PROVE  p + k \in I /\ p + k \in Nat /\ g[k] \in K /\ tail[k] = G[g[k]]
    <3>1. p + k \in 1 .. Len(queue) /\ p + k \in Nat /\ p < p + k
      BY <1>2, <1>3, <1>4
    <3>2. p + k \in I
      BY <1>2, <1>4, <1>5, <3>1
    <3>3. Place(I, p + k) \in 1 .. Cardinality(I) /\ G[Place(I, p + k)] = queue[p + k]
      BY <1>7, <3>2
    <3>4. Nth(I, Place(I, p + k)) = p + k
      BY <1>8, <3>2, NthOfPlace
    <3>5. Place(I, p + k) \in K
      BY <1>7, <3>1, <3>3, <3>4
    <3> QED  BY <1>2, <3>1, <3>2, <3>3, <3>5
  <2>2. g \in [1 .. Len(tail) -> K]
    BY <2>1
  <2>3. ASSUME NEW a \in 1 .. Len(tail), NEW b \in 1 .. Len(tail), a < b  PROVE g[a] < g[b]
    <3>1. p + a < p + b /\ p + a \in Nat /\ p + b \in I
      BY <1>3, <1>4, <2>1, <2>3
    <3>2. \A i \in Nat, k \in I : i < k => Place(I, i) < Place(I, k)
      BY <1>8, PlaceFacts
    <3> QED  BY <3>1, <3>2
  <2>4. ASSUME NEW n \in K  PROVE \E k \in 1 .. Len(tail) : g[k] = n
    <3> DEFINE k == Nth(I, n) - p
    <3>1. n \in 1 .. Cardinality(I) /\ k \in 1 .. Len(tail)
      BY <1>10
    <3>2. Nth(I, n) \in I /\ Nth(I, n) \in Nat /\ Place(I, Nth(I, n)) = n
      <4>1. Nth(I, n) \in I /\ Nth(I, n) \in Nat
        BY <1>7, <1>8, <3>1
      <4>2. Place(I, Nth(I, n)) = n
        BY <1>8, <3>1, NthMember
      <4> QED  BY <4>1, <4>2
    <3>3. p + k = Nth(I, n)
      BY <1>3, <3>2
    <3>4. Place(I, p + k) = n
      BY <3>2, <3>3
    <3> HIDE DEF k
    <3> QED  BY <3>1, <3>4
  <2> HIDE DEF g, K
  <2>5. \A k \in 1 .. Len(tail) : tail[k] = G[g[k]]
    BY <2>1
  <2>6. G \in Seq(Entries) /\ tail \in Seq(Entries)
    BY <1>4, <1>7
  <2> QED  BY ONLY <1>12, <2>2, <2>3, <2>4, <2>5, <2>6, OnlyIs
<1> HIDE DEF K
<1>15. FreshTail(s, G) = tail
  BY <1>13, <1>14 DEF FreshTail
<1> QED  BY <1>6, <1>15 DEF queue, tail

\* Assembling a queue with the tail read back from it gives the same queue:
\* the page may do so at every event (apply, site.ts).
LEMMA AssembledAgain ==
    ASSUME NEW s \in States, PinsFit(s), NEW auto \in Tails
    PROVE  AssembleQueue(s, AutoTail(AssembleQueue(s, auto))) = AssembleQueue(s, auto)
BY TailAgain DEF AssembleQueue

\* What a regeneration resolves with is assembled from a tail.
LEMMA RegeneratedFacts ==
    ASSUME NEW s \in States, NEW answered \in BOOLEAN, NEW queue \in Regenerated(s, answered)
    PROVE  \E auto \in Tails : queue = AssembleQueue(s, auto)
<1> DEFINE fresh == CollapseByRecording(
                        {f \in Files : ~IsTaken(ExcludedKeys(s), QueueEntry(f, "auto"))})
           size == IF Need(s) < Cardinality(fresh) THEN Need(s) ELSE Cardinality(fresh)
           picks == {t \in [1 .. size -> fresh] : IsInjective(t)}
<1>1. <<>> \in Tails
  BY DEF Tails
<1>2. fresh \in SUBSET Files
  BY DEF CollapseByRecording
<1>3. size \in Nat
  <2>1. Cardinality(fresh) \in Nat
    <3> HIDE DEF fresh
    <3> QED  BY <1>2, SizesAssumption, FS_Subset, FS_CardinalityType
  <2> HIDE DEF fresh
  <2> QED  BY <2>1, StateFields
<1>4. CASE s.method = "off" \/ Need(s) = 0 \/ ~answered
  BY <1>1, <1>4 DEF Regenerated
<1>5. CASE ~(s.method = "off" \/ Need(s) = 0 \/ ~answered)
  <2>1. queue \in {AssembleQueue(s, [i \in 1 .. size |-> QueueEntry(t[i], "auto")]) : t \in picks}
    BY <1>5 DEF Regenerated
  <2>2. PICK t \in picks : queue = AssembleQueue(s, [i \in 1 .. size |-> QueueEntry(t[i], "auto")])
    BY <2>1
  <2> DEFINE auto == [i \in 1 .. size |-> QueueEntry(t[i], "auto")]
  <2>3. \A i \in 1 .. size : t[i] \in Files
    BY <1>2
  <2> HIDE DEF size, fresh
  <2>4. \A i \in 1 .. size : QueueEntry(t[i], "auto") \in Entries /\ QueueEntry(t[i], "auto").origin = "auto"
    BY <2>3 DEF QueueEntry, Entries, Origins
  <2>5. auto \in [1 .. size -> Entries] /\ \A i \in 1 .. size : auto[i].origin = "auto"
    BY <2>4
  <2>6. auto \in Seq(Entries) /\ DOMAIN auto = 1 .. size
    <3> HIDE DEF auto
    <3> QED  BY <1>3, <2>5, SeqDef
  <2>7. auto \in Tails
    <3> HIDE DEF auto
    <3> QED  BY <2>5, <2>6 DEF Tails
  <2> QED  BY <2>2, <2>7
<1> QED  BY <1>4, <1>5

(***************************************************************************)
(* The reducer keeps the state sound.                                      *)
(***************************************************************************)

\* Lists of pins: no file twice.
Lists1 == {q \in Seq(Entries) : Distinct(q)}

\* Queues the drawer may show.
Queues == {q \in Lists1 : Len(q) <= QueueMax}

Sound(s) ==
    /\ s \in States /\ PinsFit(s)
    /\ Len(s.history) <= HistoryMax /\ Len(s.failed) <= HistoryMax /\ Len(s.suppressed) <= HistoryMax

\* q is a list of elements of list, in any order.
Among(q, list) == \A i \in DOMAIN q : \E j \in DOMAIN list : q[i] = list[j]

\* Chosen entries of a list are entries of it, none twice when the list or
\* the choice has none twice.
LEMMA OnlyAmong ==
    ASSUME NEW q \in Seq(Entries), NEW I \in SUBSET DOMAIN q
    PROVE  /\ Only(q, I) \in Seq(Entries) /\ Len(Only(q, I)) <= Len(q)
           /\ \A n \in DOMAIN Only(q, I) : \E i \in I : Only(q, I)[n] = q[i]
           /\ Distinct(q) => Distinct(Only(q, I))
           /\ (\A i, j \in I : q[i].file = q[j].file => i = j) => Distinct(Only(q, I))
<1>1. /\ Only(q, I) \in Seq(Entries) /\ Len(Only(q, I)) = Cardinality(I) /\ Cardinality(I) <= Len(q)
      /\ DOMAIN Only(q, I) = 1 .. Cardinality(I) /\ Cardinality(I) \in Nat
      /\ \A n \in 1 .. Cardinality(I) : Nth(I, n) \in I /\ Only(q, I)[n] = q[Nth(I, n)]
      /\ \A a, b \in 1 .. Cardinality(I) : a < b => Nth(I, a) < Nth(I, b)
  BY OnlyKeeps
<1>2. \A i \in I : i \in Nat
  OBVIOUS
<1>3. ASSUME \A i, j \in I : q[i].file = q[j].file => i = j  PROVE Distinct(Only(q, I))
  <2> SUFFICES ASSUME NEW a \in 1 .. Cardinality(I), NEW b \in 1 .. Cardinality(I),
                      Only(q, I)[a].file = Only(q, I)[b].file
               PROVE  a = b
    BY <1>1 DEF Distinct
  <2>1. Nth(I, a) = Nth(I, b) /\ Nth(I, a) \in Nat
    BY <1>1, <1>2, <1>3
  <2>2. ~(a < b) /\ ~(b < a)
    BY <1>1, <2>1
  <2> QED  BY <1>1, <2>2
<1>4. Distinct(q) => \A i, j \in I : q[i].file = q[j].file => i = j
  BY DEF Distinct
<1> QED  BY <1>1, <1>3, <1>4

\* So are the first ones.
LEMMA FirstNAmong ==
    ASSUME NEW q \in Seq(Entries), NEW n \in Nat
    PROVE  /\ FirstN(q, n) \in Seq(Entries) /\ Len(FirstN(q, n)) <= n /\ Len(FirstN(q, n)) <= Len(q)
           /\ Among(FirstN(q, n), q)
           /\ Distinct(q) => Distinct(FirstN(q, n))
<1>1. /\ FirstN(q, n) \in Seq(Entries)
      /\ Len(FirstN(q, n)) = IF n < Len(q) THEN n ELSE Len(q)
      /\ \A i \in 1 .. Len(FirstN(q, n)) : FirstN(q, n)[i] = q[i]
  BY FirstNFacts
<1> DEFINE f == FirstN(q, n)
<1> HIDE DEF f
<1>2. Len(q) \in Nat /\ Len(f) \in Nat /\ DOMAIN q = 1 .. Len(q) /\ DOMAIN f = 1 .. Len(f)
  BY <1>1 DEF f
<1>3. f \in Seq(Entries) /\ Len(f) <= n /\ Len(f) <= Len(q) /\ \A i \in 1 .. Len(f) : f[i] = q[i]
  BY <1>1, <1>2 DEF f
<1>4. \A i \in DOMAIN f : i \in DOMAIN q /\ f[i] = q[i]
  BY <1>2, <1>3
<1> QED  BY <1>3, <1>4 DEF Among, Distinct, f

\* dedupe: each file once.
LEMMA DedupeFacts ==
    ASSUME NEW q \in Seq(Entries)
    PROVE  /\ DedupeByFile(q) \in Seq(Entries) /\ Len(DedupeByFile(q)) <= Len(q)
           /\ Distinct(DedupeByFile(q)) /\ Among(DedupeByFile(q), q)
<1> DEFINE keys == [i \in DOMAIN q |-> q[i].file]
           I == {i \in DOMAIN q : \A j \in 1 .. i - 1 : keys[j] # keys[i]}
<1>1. DedupeByFile(q) = Only(q, I)
  BY DEF DedupeByFile, FirstOfEach
<1>2. I \in SUBSET DOMAIN q
  OBVIOUS
<1>3. DOMAIN q = 1 .. Len(q) /\ Len(q) \in Nat
  OBVIOUS
<1>4. ASSUME NEW i \in I, NEW j \in I, q[i].file = q[j].file  PROVE i = j
  <2>1. i \in 1 .. Len(q) /\ j \in 1 .. Len(q) /\ keys[i] = keys[j]
    BY <1>3, <1>4
  <2>2. (\A k \in 1 .. i - 1 : keys[k] # keys[i]) /\ (\A k \in 1 .. j - 1 : keys[k] # keys[j])
    OBVIOUS
  <2> HIDE DEF keys
  <2>3. ~(i < j) /\ ~(j < i)
    BY <1>3, <2>1, <2>2
  <2> QED  BY <1>3, <2>1, <2>3
<1> HIDE DEF I
<1> QED  BY <1>1, <1>2, <1>4, OnlyAmong DEF Among

\* Without a file, the other entries remain.
LEMMA WithoutFacts ==
    ASSUME NEW q \in Seq(Entries), NEW file
    PROVE  /\ Without(q, file) \in Seq(Entries) /\ Len(Without(q, file)) <= Len(q)
           /\ Among(Without(q, file), q)
           /\ \A n \in DOMAIN Without(q, file) : Without(q, file)[n].file # file
           /\ Distinct(q) => Distinct(Without(q, file))
<1> DEFINE I == {i \in DOMAIN q : q[i].file # file}
<1>1. Without(q, file) = Only(q, I) /\ I \in SUBSET DOMAIN q /\ \A i \in I : q[i].file # file
  BY DEF Without
<1> HIDE DEF I
<1> QED  BY <1>1, OnlyAmong DEF Among

\* moveItem: the same entries in another order.
LEMMA MoveItemFacts ==
    ASSUME NEW q \in Seq(Entries), NEW from \in 0 .. Len(q) - 1, NEW to \in Int
    PROVE  /\ MoveItem(q, from, to) \in Seq(Entries) /\ Len(MoveItem(q, from, to)) = Len(q)
           /\ Among(MoveItem(q, from, to), q)
           /\ Distinct(q) => Distinct(MoveItem(q, from, to))
<1> DEFINE last == Len(q) - 1
           dest == IF to < 0 THEN 0 ELSE IF to > last THEN last ELSE to
           a == from + 1
           b == dest + 1
           r == RemoveAt(q, a)
           m == InsertAt(r, b, q[a])
           \* where the element at i stood
           old(i) == IF i = b THEN a
                     ELSE LET k == IF i < b THEN i ELSE i - 1 IN IF k < a THEN k ELSE k + 1
<1>1. /\ Len(q) \in Nat /\ DOMAIN q = 1 .. Len(q) /\ a \in 1 .. Len(q) /\ b \in 1 .. Len(q)
      /\ q[a] \in Entries
  OBVIOUS
<1>2. MoveItem(q, from, to) = m
  BY DEF MoveItem
<1> HIDE DEF a, b
<1>3. /\ r \in Seq(Entries) /\ Len(r) = Len(q) - 1
      /\ \A i \in 1 .. Len(q) - 1 : r[i] = IF i < a THEN q[i] ELSE q[i + 1]
  BY <1>1, RemoveAtFacts
<1> HIDE DEF r
<1>4. /\ m \in Seq(Entries) /\ Len(m) = Len(r) + 1
      /\ \A i \in 1 .. Len(r) + 1 : m[i] = IF i < b THEN r[i] ELSE IF i = b THEN q[a] ELSE r[i - 1]
  <2>1. b \in 1 .. Len(r) + 1
    BY <1>1, <1>3
  <2> QED  BY <1>1, <1>3, <2>1, InsertAtFacts
<1> HIDE DEF m
<1>5. Len(m) = Len(q) /\ DOMAIN m = 1 .. Len(q)
  BY <1>1, <1>3, <1>4
<1>6. ASSUME NEW i \in 1 .. Len(q)  PROVE old(i) \in 1 .. Len(q) /\ m[i] = q[old(i)]
  <2>1. CASE i = b
    BY <1>1, <1>3, <1>4, <2>1
  <2>2. CASE i < b
    <3>1. i \in 1 .. Len(q) - 1 /\ m[i] = r[i]
      BY <1>1, <1>3, <1>4, <2>2
    <3> QED  BY <1>1, <1>3, <2>2, <3>1
  <2>3. CASE i > b
    <3> DEFINE k == i - 1
    <3>1. k \in 1 .. Len(q) - 1 /\ m[i] = r[k]
      BY <1>1, <1>3, <1>4, <2>3
    <3>2. r[k] = IF k < a THEN q[k] ELSE q[k + 1]
      <4> HIDE DEF k
      <4> QED  BY <1>3, <3>1
    <3> QED  BY <1>1, <2>3, <3>1, <3>2
  <2> QED  BY <1>1, <2>1, <2>2, <2>3
<1>7. \A i, j \in 1 .. Len(q) : old(i) = old(j) => i = j
  BY <1>1
<1>8. Distinct(q) => Distinct(m)
  <2> SUFFICES ASSUME Distinct(q), NEW i \in 1 .. Len(q), NEW j \in 1 .. Len(q), m[i].file = m[j].file
               PROVE  i = j
    BY <1>5 DEF Distinct
  <2>1. old(i) \in DOMAIN q /\ old(j) \in DOMAIN q /\ q[old(i)].file = q[old(j)].file
    BY <1>1, <1>6
  <2>2. old(i) = old(j)
    <3> HIDE DEF old
    <3> QED  BY <2>1 DEF Distinct
  <2> QED  BY <1>7, <2>2
<1>9. Among(m, q)
  <2> HIDE DEF old
  <2> QED  BY <1>1, <1>5, <1>6 DEF Among
<1> QED  BY <1>2, <1>4, <1>5, <1>8, <1>9

(***************************************************************************)
(* Each event of the page leaves a sound state sound.                      *)
(***************************************************************************)

\* The entry that becomes current is the one it was, but for its origin.
LEMMA AsCurrentFacts ==
    ASSUME NEW e \in Entries
    PROVE  AsCurrent(e) \in Entries /\ AsCurrent(e).file = e.file
BY DEF AsCurrent, Entries, Origins

\* A state with another current track and other pins, that fit.
LEMMA PlayingSound ==
    ASSUME NEW s, Sound(s), NEW current \in Entries \cup {Nothing}, NEW pins \in Seq(Entries),
           NEW history \in Seq(Tokens), Len(history) <= HistoryMax,
           Len(pins) <= QueueMax - (IF current = Nothing THEN 0 ELSE 1), Distinct(pins),
           current # Nothing => \A i \in DOMAIN pins : pins[i].file # current.file
    PROVE  /\ Sound(Playing(s, current, pins, history))
           /\ Playing(s, current, pins, history).current = current
           /\ Playing(s, current, pins, history).intent = pins
<1> DEFINE r == Playing(s, current, pins, history)
<1>1. /\ r.current = current /\ r.intent = pins /\ r.history = history
      /\ r.failed = s.failed /\ r.suppressed = s.suppressed
  BY DEF Playing
<1>2. r \in States
  BY DEF Playing, Sound, States
<1>3. Slots(r) = QueueMax - (IF current = Nothing THEN 0 ELSE 1)
  BY <1>1 DEF Slots
<1> HIDE DEF r
<1>4. PinsFit(r)
  BY <1>1, <1>3 DEF PinsFit
<1> QED  BY <1>1, <1>2, <1>4 DEF Sound, r

\* A state with other pins, that fit.
LEMMA PinnedSound ==
    ASSUME NEW s, Sound(s), NEW pins \in Seq(Entries),
           Len(pins) <= Slots(s), Distinct(pins),
           s.current # Nothing => \A i \in DOMAIN pins : pins[i].file # s.current.file
    PROVE  /\ Sound([s EXCEPT !.intent = pins])
           /\ [s EXCEPT !.intent = pins].current = s.current
<1> DEFINE r == [s EXCEPT !.intent = pins]
<1>1. s \in States
  BY DEF Sound
<1>2. /\ r.current = s.current /\ r.intent = pins /\ r.history = s.history
      /\ r.failed = s.failed /\ r.suppressed = s.suppressed /\ r \in States
  BY <1>1 DEF States
<1>3. Slots(r) = Slots(s)
  BY <1>2 DEF Slots
<1> HIDE DEF r
<1>4. PinsFit(r)
  BY <1>2, <1>3 DEF PinsFit
<1> QED  BY <1>1, <1>2, <1>4 DEF Sound, r

\* A state in which something failed, or was thrown out of the tail.
LEMMA MarkedSound ==
    ASSUME NEW s, Sound(s), NEW ids \in Seq(Tokens)
    PROVE  /\ Sound([s EXCEPT !.failed = PushFront(@, ids)])
           /\ [s EXCEPT !.failed = PushFront(@, ids)].current = s.current
           /\ [s EXCEPT !.failed = PushFront(@, ids)].intent = s.intent
           /\ Sound([s EXCEPT !.suppressed = PushFront(@, ids)])
           /\ [s EXCEPT !.suppressed = PushFront(@, ids)].current = s.current
<1>1. s \in States /\ s.failed \in Seq(Tokens) /\ s.suppressed \in Seq(Tokens)
  BY StateFields DEF Sound
<1> DEFINE f == PushFront(s.failed, ids)
           u == PushFront(s.suppressed, ids)
<1>2. f \in Seq(Tokens) /\ Len(f) <= HistoryMax /\ u \in Seq(Tokens) /\ Len(u) <= HistoryMax
  BY <1>1, PushFrontFacts
<1> HIDE DEF f, u
<1> DEFINE r == [s EXCEPT !.failed = f]
           q == [s EXCEPT !.suppressed = u]
<1>3. /\ r.current = s.current /\ r.intent = s.intent /\ r.history = s.history
      /\ r.failed = f /\ r.suppressed = s.suppressed /\ r \in States
  BY <1>1, <1>2 DEF States
<1>4. /\ q.current = s.current /\ q.intent = s.intent /\ q.history = s.history
      /\ q.failed = s.failed /\ q.suppressed = u /\ q \in States
  BY <1>1, <1>2 DEF States
<1> HIDE DEF r, q
<1>5. PinsFit(r) /\ PinsFit(q)
  <2>1. Slots(r) = Slots(s) /\ Slots(q) = Slots(s)
    BY <1>3, <1>4 DEF Slots
  <2> QED  BY <1>3, <1>4, <2>1 DEF PinsFit, Sound
<1>6. Sound(r) /\ Sound(q)
  BY <1>2, <1>3, <1>4, <1>5 DEF Sound
<1> QED  BY <1>3, <1>4, <1>6 DEF r, q, f, u

\* truncateIntent: the first pins, as many as fit.
LEMMA TruncateFacts ==
    ASSUME NEW pins \in Seq(Entries), NEW n \in Int
    PROVE  /\ TruncateIntent(pins, n) \in Seq(Entries)
           /\ Len(TruncateIntent(pins, n)) <= IF n > 0 THEN n ELSE 0
           /\ Len(TruncateIntent(pins, n)) <= Len(pins)
           /\ Among(TruncateIntent(pins, n), pins)
           /\ Distinct(pins) => Distinct(TruncateIntent(pins, n))
<1> DEFINE k == IF n > 0 THEN n ELSE 0
<1>1. k \in Nat /\ TruncateIntent(pins, n) = FirstN(pins, k)
  BY DEF TruncateIntent
<1> HIDE DEF k
<1>2. /\ FirstN(pins, k) \in Seq(Entries) /\ Len(FirstN(pins, k)) <= k
      /\ Len(FirstN(pins, k)) <= Len(pins) /\ Among(FirstN(pins, k), pins)
      /\ Distinct(pins) => Distinct(FirstN(pins, k))
  BY <1>1, FirstNAmong
<1> QED  BY <1>1, <1>2 DEF k

\* PLAY_TRACK and PLAY_CRATE.
LEMMA ReplaceSound ==
    ASSUME NEW s, Sound(s), NEW list \in Seq(Entries), NEW at \in DOMAIN list
    PROVE  /\ Sound(ReplaceWith(s, list, at))
           /\ ReplaceWith(s, list, at).current \in Entries
<1> DEFINE chosen == AsCurrent(list[at])
           I == {i \in at + 1 .. Len(list) : list[i].file # chosen.file}
           rest == Only(list, I)
           pins == TruncateIntent(DedupeByFile(rest), QueueMax - 1)
           heard == IF s.current = Nothing THEN s.history
                    ELSE PushFront(s.history, IdentityTokens(s.current))
<1>1. ReplaceWith(s, list, at) = Playing(s, chosen, pins, heard)
  BY DEF ReplaceWith
<1>2. chosen \in Entries /\ chosen # Nothing
  BY AsCurrentFacts, NothingAssumption
<1>3. heard \in Seq(Tokens) /\ Len(heard) <= HistoryMax
  <2>1. s \in States /\ Len(s.history) <= HistoryMax
    BY DEF Sound
  <2>2. s.history \in Seq(Tokens) /\ s.current \in Entries \cup {Nothing}
    BY <2>1, StateFields
  <2>3. CASE s.current = Nothing
    BY <2>1, <2>2, <2>3
  <2>4. CASE s.current # Nothing
    BY <2>2, <2>4, EntryTokens, PushFrontFacts
  <2> QED  BY <2>3, <2>4
<1>4. I \in SUBSET DOMAIN list /\ \A i \in I : list[i].file # chosen.file
  <2>1. DOMAIN list = 1 .. Len(list) /\ at \in 1 .. Len(list) /\ Len(list) \in Nat
    OBVIOUS
  <2> HIDE DEF chosen
  <2> QED  BY <2>1
<1> HIDE DEF chosen, I, heard
<1>5. rest \in Seq(Entries) /\ \A n \in DOMAIN rest : rest[n].file # chosen.file
  <2>1. rest \in Seq(Entries) /\ \A n \in DOMAIN rest : \E i \in I : rest[n] = list[i]
    BY <1>4, OnlyAmong
  <2> QED  BY <1>4, <2>1
<1> HIDE DEF rest
<1> DEFINE once == DedupeByFile(rest)
<1>6. once \in Seq(Entries) /\ Distinct(once) /\ Among(once, rest)
  BY <1>5, DedupeFacts
<1>7. \A n \in DOMAIN once : once[n].file # chosen.file
  BY <1>5, <1>6 DEF Among
<1> HIDE DEF once
<1>8. QueueMax - 1 \in Nat
  BY SizesAssumption
<1>9. /\ TruncateIntent(once, QueueMax - 1) \in Seq(Entries)
      /\ Len(TruncateIntent(once, QueueMax - 1)) <= QueueMax - 1
      /\ Among(TruncateIntent(once, QueueMax - 1), once)
      /\ Distinct(TruncateIntent(once, QueueMax - 1))
  <2> DEFINE n == QueueMax - 1
  <2>1. n \in Int /\ (IF n > 0 THEN n ELSE 0) = n
    BY <1>8
  <2> HIDE DEF n
  <2>2. Len(TruncateIntent(once, n)) <= n
    BY <1>6, <2>1, TruncateFacts
  <2>3. /\ TruncateIntent(once, n) \in Seq(Entries)
        /\ Among(TruncateIntent(once, n), once) /\ Distinct(TruncateIntent(once, n))
    BY <1>6, <2>1, TruncateFacts
  <2> QED  BY <2>2, <2>3 DEF n
<1>10. pins = TruncateIntent(once, QueueMax - 1)
  BY DEF once
<1> HIDE DEF pins
<1>11. \A n \in DOMAIN pins : pins[n].file # chosen.file
  <2>1. Among(pins, once)
    BY <1>9, <1>10
  <2> QED  BY <1>7, <2>1 DEF Among
<1>12. /\ Sound(Playing(s, chosen, pins, heard))
       /\ Playing(s, chosen, pins, heard).current = chosen
  BY <1>2, <1>3, <1>9, <1>10, <1>11, PlayingSound
<1> QED  BY <1>1, <1>2, <1>12

\* SELECT_QUEUE_ENTRY, SKIP, TRACK_ENDED and the end of TRACK_FAILED: what is
\* left of a queue after a position, less the tail, fits beside its entry.
LEMMA AdvanceSound ==
    ASSUME NEW s, Sound(s), NEW queue \in Queues, NEW index \in Nat
    PROVE  Sound(AdvanceTo(s, queue, index))
<1> DEFINE current == IF index < Len(queue) THEN AsCurrent(queue[index + 1]) ELSE Nothing
           I == {i \in index + 2 .. Len(queue) : queue[i].file \in FilesOf(s.intent)}
           pins == Only(queue, I)
           heard == PushFront(s.history, TokensOf(FirstN(queue, index)))
<1>1. AdvanceTo(s, queue, index) = Playing(s, current, pins, heard)
  BY DEF AdvanceTo
<1>2. /\ queue \in Seq(Entries) /\ Distinct(queue) /\ Len(queue) <= QueueMax
      /\ Len(queue) \in Nat /\ DOMAIN queue = 1 .. Len(queue)
  BY DEF Queues, Lists1
<1>3. I \in SUBSET DOMAIN queue /\ \A i \in I : index + 1 < i
  BY <1>2
<1>4. heard \in Seq(Tokens) /\ Len(heard) <= HistoryMax
  <2>1. FirstN(queue, index) \in Seq(Entries)
    BY <1>2, FirstNFacts
  <2>2. s.history \in Seq(Tokens)
    BY StateFields DEF Sound
  <2> QED  BY <2>1, <2>2, TokensOfTyped, PushFrontFacts
<1>5. current \in Entries \cup {Nothing}
      /\ (current # Nothing => index < Len(queue) /\ current.file = queue[index + 1].file)
  <2>1. CASE index < Len(queue)
    <3>1. queue[index + 1] \in Entries
      BY <1>2, <2>1
    <3> QED  BY <2>1, <3>1, AsCurrentFacts
  <2>2. CASE ~(index < Len(queue))
    BY <2>2
  <2> QED  BY <2>1, <2>2
<1>6. /\ pins \in Seq(Entries) /\ Len(pins) = Cardinality(I) /\ Distinct(pins)
      /\ \A n \in DOMAIN pins : \E i \in I : pins[n] = queue[i]
  <2> HIDE DEF I
  <2>1. Len(pins) = Cardinality(I)
    BY <1>2, <1>3, OnlyKeeps
  <2> QED  BY <1>2, <1>3, <2>1, OnlyAmong
<1> HIDE DEF pins, heard, current
<1>7. Cardinality(I) <= QueueMax - 1 /\ (~(index < Len(queue)) => Cardinality(I) = 0)
  <2> DEFINE n == Len(queue)
  <2>1. CASE ~(index < n)
    <3>1. I = {}
      BY <1>2, <2>1
    <3>2. Cardinality(I) = 0
      BY <3>1, FS_EmptySet
    <3> QED  BY <2>1, <3>2, SizesAssumption
  <2>2. CASE index < n
    <3>1. n \in Nat /\ 2 \in Int /\ n <= QueueMax /\ 1 <= n
      BY <1>2, <2>2
    <3>2. I \in SUBSET (2 .. n)
      BY <1>2, <1>3
    <3> HIDE DEF I, n
    <3>3. IsFiniteSet(2 .. n) /\ Cardinality(2 .. n) = IF 2 > n THEN 0 ELSE n - 2 + 1
      BY <3>1, FS_Interval
    <3>4. Cardinality(I) <= Cardinality(2 .. n)
      BY <3>2, <3>3, FS_Subset
    <3>5. Cardinality(I) \in Nat
      BY <3>2, <3>3, FS_Subset, FS_CardinalityType
    <3> QED  BY <2>2, <3>1, <3>3, <3>4, <3>5, SizesAssumption DEF n
  <2> QED  BY <2>1, <2>2
<1>8. current # Nothing => \A n \in DOMAIN pins : pins[n].file # current.file
  <2> SUFFICES ASSUME current # Nothing, NEW n \in DOMAIN pins  PROVE pins[n].file # current.file
    OBVIOUS
  <2>1. PICK i \in I : pins[n] = queue[i]
    BY <1>6
  <2>2. i \in DOMAIN queue /\ index + 1 \in DOMAIN queue /\ i # index + 1
    BY <1>2, <1>3, <1>5
  <2> QED  BY <1>2, <1>5, <2>1, <2>2 DEF Distinct
<1>9. Len(pins) <= QueueMax - (IF current = Nothing THEN 0 ELSE 1)
  <2>1. QueueMax \in Nat
    BY SizesAssumption
  <2> QED  BY <1>5, <1>6, <1>7, <2>1
<1> HIDE DEF I
<1> QED  BY <1>1, <1>4, <1>5, <1>6, <1>8, <1>9, PlayingSound

\* ADD_TO_QUEUE: what is added is not there yet, and no more than fits.
LEMMA AddSound ==
    ASSUME NEW s, Sound(s), NEW entries \in Seq(Entries)
    PROVE  /\ Sound(AddToQueue(s, entries))
           /\ AddToQueue(s, entries).current = s.current
<1> DEFINE taken == FilesOf(s.intent) \cup (IF s.current = Nothing THEN {} ELSE {s.current.file})
           I == {i \in DOMAIN entries : entries[i].file \notin taken}
           untaken == Only(entries, I)
           fresh == DedupeByFile(untaken)
           room == Slots(s) - Len(s.intent)
           added == TruncateIntent(fresh, room)
           pins == s.intent \o added
<1>1. AddToQueue(s, entries) = [s EXCEPT !.intent = pins]
  BY DEF AddToQueue
<1>2. /\ s \in States /\ s.intent \in Seq(Entries) /\ Len(s.intent) \in Nat /\ Slots(s) \in Nat
      /\ Distinct(s.intent) /\ Len(s.intent) <= Slots(s) /\ DOMAIN s.intent = 1 .. Len(s.intent)
      /\ s.current # Nothing => \A i \in DOMAIN s.intent : s.intent[i].file # s.current.file
  BY StateFields DEF Sound, PinsFit
<1>3. untaken \in Seq(Entries) /\ \A n \in DOMAIN untaken : untaken[n].file \notin taken
  <2>1. I \in SUBSET DOMAIN entries /\ \A i \in I : entries[i].file \notin taken
    OBVIOUS
  <2> HIDE DEF I, taken
  <2> QED  BY <2>1, OnlyAmong
<1> HIDE DEF untaken, taken
<1>4. fresh \in Seq(Entries) /\ Distinct(fresh) /\ \A n \in DOMAIN fresh : fresh[n].file \notin taken
  BY <1>3, DedupeFacts DEF Among
<1> HIDE DEF fresh
<1>5. room \in Nat /\ room \in Int /\ (IF room > 0 THEN room ELSE 0) = room
  BY <1>2
<1> HIDE DEF room
<1>6. /\ added \in Seq(Entries) /\ Distinct(added)
      /\ \A n \in DOMAIN added : added[n].file \notin taken
  BY <1>4, <1>5, TruncateFacts DEF Among
<1>7. Len(added) <= room /\ Len(added) \in Nat /\ DOMAIN added = 1 .. Len(added)
  <2>1. Len(added) <= room
    BY <1>4, <1>5, TruncateFacts
  <2> HIDE DEF added
  <2> QED  BY <1>6, <2>1
<1> HIDE DEF added
<1>8. /\ pins \in Seq(Entries) /\ Len(pins) = Len(s.intent) + Len(added)
      /\ \A i \in 1 .. Len(s.intent) + Len(added) :
            pins[i] = IF i <= Len(s.intent) THEN s.intent[i] ELSE added[i - Len(s.intent)]
  BY <1>2, <1>6, ConcatProperties
<1>9. /\ \A i \in DOMAIN s.intent : s.intent[i].file \in taken
      /\ s.current # Nothing => s.current.file \in taken
  BY DEF taken, FilesOf
<1> HIDE DEF pins
<1> DEFINE p == Len(s.intent)
           a == Len(added)
<1>10. /\ p \in Nat /\ a \in Nat /\ DOMAIN pins = 1 .. p + a
       /\ \A i \in 1 .. p + a :
             \/ i \in 1 .. p /\ pins[i] = s.intent[i]
             \/ i - p \in 1 .. a /\ pins[i] = added[i - p]
  BY <1>2, <1>7, <1>8
<1>11. /\ \A i, j \in 1 .. p : s.intent[i].file = s.intent[j].file => i = j
       /\ \A i, j \in 1 .. a : added[i].file = added[j].file => i = j
       /\ \A i \in 1 .. p, j \in 1 .. a : s.intent[i].file # added[j].file
  BY <1>2, <1>6, <1>7, <1>9 DEF Distinct
<1> HIDE DEF p, a
<1>12. Distinct(pins)
  <2> SUFFICES ASSUME NEW i \in 1 .. p + a, NEW j \in 1 .. p + a, pins[i].file = pins[j].file
               PROVE  i = j
    BY <1>10 DEF Distinct
  <2>1. CASE i \in 1 .. p /\ pins[i] = s.intent[i]
    BY <1>10, <1>11, <2>1
  <2>2. CASE i - p \in 1 .. a /\ pins[i] = added[i - p]
    <3>1. j - p \in 1 .. a /\ pins[j] = added[j - p]
      BY <1>10, <1>11, <2>2
    <3>2. i - p = j - p
      BY <1>11, <2>2, <3>1
    <3> QED  BY <1>10, <3>2
  <2> QED  BY <1>10, <2>1, <2>2
<1>13. s.current # Nothing => \A i \in DOMAIN pins : pins[i].file # s.current.file
  <2> SUFFICES ASSUME s.current # Nothing, NEW i \in 1 .. p + a  PROVE pins[i].file # s.current.file
    BY <1>10
  <2>1. CASE i \in 1 .. p /\ pins[i] = s.intent[i]
    BY <1>2, <2>1 DEF p
  <2>2. CASE i - p \in 1 .. a /\ pins[i] = added[i - p]
    BY <1>6, <1>7, <1>9, <2>2 DEF a
  <2> QED  BY <1>10, <2>1, <2>2
<1>14. Len(pins) <= Slots(s)
  BY <1>2, <1>7, <1>8 DEF room
<1>15. /\ Sound([s EXCEPT !.intent = pins]) /\ [s EXCEPT !.intent = pins].current = s.current
  BY <1>8, <1>12, <1>13, <1>14, PinnedSound
<1> QED  BY <1>1, <1>15

\* REMOVE_QUEUE_ENTRY.
LEMMA RemoveSound ==
    ASSUME NEW s, Sound(s), NEW queue \in Queues, NEW index \in Nat, index < Len(queue)
    PROVE  /\ Sound(RemoveEntry(s, queue, index))
           /\ RemoveEntry(s, queue, index).current = s.current
<1> DEFINE target == queue[index + 1]
           pins == Without(s.intent, target.file)
<1>1. target \in Entries
  BY DEF Queues, Lists1
<1> HIDE DEF target
<1>2. /\ s.intent \in Seq(Entries) /\ Distinct(s.intent) /\ Len(s.intent) <= Slots(s)
      /\ Len(s.intent) \in Nat /\ Slots(s) \in Nat
      /\ s.current # Nothing => \A i \in DOMAIN s.intent : s.intent[i].file # s.current.file
  BY StateFields DEF Sound, PinsFit
<1>3. /\ pins \in Seq(Entries) /\ Len(pins) <= Len(s.intent) /\ Among(pins, s.intent)
      /\ Distinct(pins)
  BY <1>2, WithoutFacts
<1> HIDE DEF pins
<1>4. s.current # Nothing => \A i \in DOMAIN pins : pins[i].file # s.current.file
  BY <1>2, <1>3 DEF Among
<1>5. Len(pins) <= Slots(s)
  <2>1. Len(pins) \in Nat
    BY <1>3
  <2> QED  BY <1>2, <1>3, <2>1
<1>6. Sound([s EXCEPT !.intent = pins]) /\ [s EXCEPT !.intent = pins].current = s.current
  BY <1>3, <1>4, <1>5, PinnedSound
<1> DEFINE ids == IdentityTokens(target)
<1>7. ids \in Seq(Tokens)
  BY <1>1, EntryTokens
<1> HIDE DEF ids
<1>8. /\ Sound([s EXCEPT !.suppressed = PushFront(@, ids)])
      /\ [s EXCEPT !.suppressed = PushFront(@, ids)].current = s.current
  BY <1>7, MarkedSound
<1>9. RemoveEntry(s, queue, index) = IF target.file \in FilesOf(s.intent)
                                     THEN [s EXCEPT !.intent = pins]
                                     ELSE [s EXCEPT !.suppressed = PushFront(@, ids)]
  BY DEF RemoveEntry, target, pins, ids
<1> QED  BY <1>6, <1>8, <1>9

\* MOVE_QUEUE_ENTRY.
LEMMA MoveSound ==
    ASSUME NEW s, Sound(s), NEW queue \in Queues, NEW index \in Nat, NEW to \in Int
    PROVE  /\ Sound(MoveEntry(s, queue, index, to))
           /\ MoveEntry(s, queue, index, to).current = s.current
<1> DEFINE file == queue[index + 1].file
           at == CHOOSE i \in DOMAIN s.intent : s.intent[i].file = file
           from == at - 1
           dest == to - FirstAddressable(s)
           pins == MoveItem(s.intent, from, dest)
<1>1. MoveEntry(s, queue, index, to) = IF file \in FilesOf(s.intent)
                                       THEN [s EXCEPT !.intent = pins] ELSE s
  BY DEF MoveEntry
<1>2. CASE file \notin FilesOf(s.intent)
  BY <1>1, <1>2
<1>3. CASE file \in FilesOf(s.intent)
  <2>1. at \in DOMAIN s.intent
    <3>1. \E i \in DOMAIN s.intent : s.intent[i].file = file
      BY <1>3 DEF FilesOf
    <3> HIDE DEF file
    <3> QED  BY <3>1
  <2>2. /\ s.intent \in Seq(Entries) /\ Distinct(s.intent) /\ Len(s.intent) <= Slots(s)
        /\ s.current # Nothing => \A i \in DOMAIN s.intent : s.intent[i].file # s.current.file
        /\ FirstAddressable(s) \in {0, 1}
    BY StateFields DEF Sound, PinsFit
  <2>3. from \in 0 .. Len(s.intent) - 1 /\ dest \in Int
    <3> HIDE DEF at
    <3> QED  BY <2>1, <2>2
  <2> HIDE DEF file, at, from, dest
  <2>4. /\ pins \in Seq(Entries) /\ Len(pins) = Len(s.intent) /\ Among(pins, s.intent)
        /\ Distinct(pins)
    BY <2>2, <2>3, MoveItemFacts
  <2> HIDE DEF pins
  <2>5. s.current # Nothing => \A i \in DOMAIN pins : pins[i].file # s.current.file
    BY <2>2, <2>4 DEF Among
  <2>6. Sound([s EXCEPT !.intent = pins]) /\ [s EXCEPT !.intent = pins].current = s.current
    BY <2>2, <2>4, <2>5, PinnedSound
  <2> QED  BY <1>1, <1>3, <2>6
<1> QED  BY <1>2, <1>3

\* TRACK_FAILED.
LEMMA FailSound ==
    ASSUME NEW s, Sound(s), NEW queue \in Queues, NEW file \in Files
    PROVE  Sound(FailTrack(s, queue, file))
<1> DEFINE marked == [s EXCEPT !.failed = PushFront(@, <<file>>)]
<1>1. <<file>> \in Seq(Tokens)
  BY DEF Tokens
<1>2. Sound(marked)
  BY <1>1, MarkedSound
<1>3. FailTrack(s, queue, file) = IF s.current = Nothing THEN marked ELSE AdvanceTo(marked, queue, 1)
  BY DEF FailTrack
<1> HIDE DEF marked
<1>4. Sound(AdvanceTo(marked, queue, 1))
  BY <1>2, AdvanceSound
<1> QED  BY <1>2, <1>3, <1>4

\* RESTORE_CURRENT.
LEMMA RestoreSound ==
    ASSUME NEW s, Sound(s), NEW entry \in Entries
    PROVE  /\ Sound(RestoreCurrent(s, entry))
           /\ RestoreCurrent(s, entry).current \in Entries
           /\ RestoreCurrent(s, entry).current.file = entry.file
<1> DEFINE chosen == AsCurrent(entry)
           left == Without(s.intent, entry.file)
           pins == TruncateIntent(left, QueueMax - 1)
<1>1. chosen \in Entries /\ chosen.file = entry.file /\ chosen # Nothing
  BY AsCurrentFacts, NothingAssumption
<1>2. /\ s.current \in Entries \cup {Nothing} /\ s.intent \in Seq(Entries) /\ Distinct(s.intent)
      /\ s.history \in Seq(Tokens) /\ Len(s.history) <= HistoryMax
  BY StateFields DEF Sound, PinsFit
<1>3. RestoreCurrent(s, entry) = IF s.current # Nothing /\ s.current.file = entry.file THEN s
                                 ELSE Playing(s, chosen, pins, s.history)
  BY DEF RestoreCurrent
<1> HIDE DEF chosen
<1>4. /\ left \in Seq(Entries) /\ Distinct(left)
      /\ \A n \in DOMAIN left : left[n].file # entry.file
  BY <1>2, WithoutFacts
<1> HIDE DEF left
<1>5. /\ pins \in Seq(Entries) /\ Len(pins) <= QueueMax - 1 /\ Distinct(pins) /\ Among(pins, left)
  <2> DEFINE n == QueueMax - 1
  <2>1. n \in Int /\ (IF n > 0 THEN n ELSE 0) = n
    BY SizesAssumption
  <2> HIDE DEF n
  <2>2. Len(TruncateIntent(left, n)) <= n
    BY <1>4, <2>1, TruncateFacts
  <2>3. /\ TruncateIntent(left, n) \in Seq(Entries)
        /\ Among(TruncateIntent(left, n), left) /\ Distinct(TruncateIntent(left, n))
    BY <1>4, <2>1, TruncateFacts
  <2> QED  BY <2>2, <2>3 DEF n
<1> HIDE DEF pins
<1>6. \A i \in DOMAIN pins : pins[i].file # chosen.file
  BY <1>1, <1>4, <1>5 DEF Among
<1>7. /\ Sound(Playing(s, chosen, pins, s.history))
      /\ Playing(s, chosen, pins, s.history).current = chosen
  BY <1>1, <1>2, <1>5, <1>6, PlayingSound
<1> QED  BY <1>1, <1>2, <1>3, <1>7

\* A new page's state is sound.
LEMMA EmptySound ==
    Sound(EmptyState) /\ EmptyState.current = Nothing /\ EmptyState.intent = <<>>
<1> DEFINE s == EmptyState
<1>1. /\ s.current = Nothing /\ s.intent = <<>> /\ s.history = <<>>
      /\ s.failed = <<>> /\ s.suppressed = <<>> /\ s.method = "off"
  BY DEF EmptyState
<1>2. s \in States
  BY PlaybackAssumption DEF EmptyState, States
<1>3. QueueMax \in Nat /\ HistoryMax \in Nat /\ Slots(s) = QueueMax
  BY <1>1, SizesAssumption DEF Slots
<1> HIDE DEF s
<1>4. PinsFit(s)
  BY <1>1, <1>3 DEF PinsFit, Distinct
<1> QED  BY <1>1, <1>2, <1>3, <1>4 DEF Sound, s

\* saveQueue: the state that is written is sound, and all of its current
\* track, its pins, its method and its history is in it.
LEMMA SerializedFacts ==
    ASSUME NEW s, Sound(s)
    PROVE  /\ Sound(Serialized(s)) /\ Serialized(s) # Nothing
           /\ Serialized(s).current = s.current /\ Serialized(s).intent = s.intent
           /\ Serialized(s).method = s.method /\ Serialized(s).history = s.history
<1> DEFINE r == Serialized(s)
<1>1. /\ s \in States /\ s.intent \in Seq(Entries) /\ Slots(s) \in Nat /\ PinsFit(s)
      /\ Len(s.intent) <= Slots(s)
  BY StateFields DEF Sound, PinsFit
<1>2. TruncateIntent(s.intent, Slots(s)) = s.intent
  <2>1. (IF Slots(s) > 0 THEN Slots(s) ELSE 0) = Slots(s)
    BY <1>1
  <2>2. FirstN(s.intent, Slots(s)) = s.intent
    BY <1>1, FirstNFacts
  <2> QED  BY <2>1, <2>2 DEF TruncateIntent
<1>3. r = [current |-> s.current, intent |-> s.intent, method |-> s.method,
           history |-> s.history, failed |-> <<>>, suppressed |-> <<>>]
  BY <1>2 DEF Serialized
<1> HIDE DEF r
<1>4. /\ r.current = s.current /\ r.intent = s.intent /\ r.method = s.method
      /\ r.history = s.history /\ r.failed = <<>> /\ r.suppressed = <<>> /\ r \in States
  BY <1>1, <1>3 DEF States
<1>5. Slots(r) = Slots(s)
  BY <1>4 DEF Slots
<1>6. PinsFit(r)
  BY <1>1, <1>4, <1>5 DEF PinsFit
<1>7. Len(s.history) <= HistoryMax /\ HistoryMax \in Nat
  BY SizesAssumption DEF Sound
<1>8. r # Nothing
  BY <1>4, PlaybackAssumption
<1> QED  BY <1>4, <1>6, <1>7, <1>8 DEF Sound, r

\* loadQueue: what is read back is what was written.
LEMMA ParsedFacts ==
    ASSUME NEW s, Sound(s)
    PROVE  /\ Sound(ParseState(s))
           /\ ParseState(s).current = s.current /\ ParseState(s).intent = s.intent
           /\ ParseState(s).method = s.method /\ ParseState(s).history = s.history
<1>1. s \in States /\ s.history \in Seq(Tokens) /\ Len(s.history) <= HistoryMax /\ HistoryMax \in Nat
  BY StateFields, SizesAssumption DEF Sound
<1>2. FirstN(s.history, HistoryMax) = s.history
  BY <1>1, FirstNFacts
<1>3. ParseState(s) = Serialized(s)
  BY <1>2 DEF ParseState, Serialized
<1> QED  BY <1>3, SerializedFacts

\* Every queue assembled from a sound state may be shown.
LEMMA AssembledShown ==
    ASSUME NEW s, Sound(s), NEW auto \in Tails
    PROVE  /\ AssembleQueue(s, auto) \in Queues
           /\ AssembleQueue(s, auto) = AssembleQueue(s, AutoTail(AssembleQueue(s, auto)))
<1>1. s \in States /\ PinsFit(s) /\ auto \in Seq(Entries)
  BY DEF Sound, Tails
<1>2. AssembleQueue(s, auto) \in Seq(Entries) /\ Len(AssembleQueue(s, auto)) <= QueueMax
  BY <1>1, Assembled
<1>3. Distinct(AssembleQueue(s, auto))
  BY <1>1, AssembledDistinct
<1>4. AssembleQueue(s, AutoTail(AssembleQueue(s, auto))) = AssembleQueue(s, auto)
  BY <1>1, AssembledAgain
<1> QED  BY <1>2, <1>3, <1>4 DEF Queues, Lists1

\* A page with nothing in its queue shows nothing.
LEMMA NothingShown ==
    AssembleQueue(EmptyState, AutoTail(<<>>)) = <<>> /\ <<>> \in Queues
<1> DEFINE s == EmptyState
           x == AutoTail(<<>>)
           queue == AssembleQueue(s, x)
<1>1. s \in States /\ PinsFit(s) /\ s.current = Nothing /\ s.intent = <<>>
  BY EmptySound DEF Sound
<1>2. <<>> \in Seq(Entries) /\ DOMAIN <<>> = {}
  OBVIOUS
<1>3. x \in Seq(Entries) /\ Len(x) = 0
  <2> DEFINE I == {i \in DOMAIN <<>> : <<>>[i].origin = "auto"}
             e == <<>>
  <2>1. I = {} /\ I \in SUBSET DOMAIN e
    OBVIOUS
  <2>2. x = Only(e, I)
    BY DEF AutoTail
  <2>3. Cardinality(I) = 0
    BY <2>1, FS_EmptySet
  <2>4. e \in Seq(Entries)
    OBVIOUS
  <2> HIDE DEF x, I, e
  <2>5. Only(e, I) \in Seq(Entries) /\ Len(Only(e, I)) = Cardinality(I)
    BY <2>1, <2>4, OnlyKeeps
  <2> QED  BY <2>2, <2>3, <2>5
<1> HIDE DEF s, x
<1>4. /\ queue \in Seq(Entries)
      /\ Len(queue) = FirstAddressable(s) + Len(s.intent) + Len(FreshTail(s, x))
      /\ Len(queue) <= QueueMax
  BY <1>1, <1>3, Assembled
<1>5. FirstAddressable(s) = 0 /\ Len(s.intent) = 0
  BY <1>1 DEF FirstAddressable
<1>6. Len(FreshTail(s, x)) = 0
  <2> DEFINE n == Len(FreshTail(s, x))
  <2>1. n \in Nat /\ \A i \in 1 .. n : \E k \in DOMAIN x : FreshTail(s, x)[i] = x[k]
    BY <1>1, <1>3, TailFacts
  <2>2. DOMAIN x = {}
    BY <1>3
  <2> HIDE DEF n
  <2>3. ~(1 <= n)
    BY <2>1, <2>2
  <2> QED  BY <2>1, <2>3 DEF n
<1>7. queue = <<>>
  <2> HIDE DEF queue
  <2> QED  BY <1>4, <1>5, <1>6
<1>8. <<>> \in Queues
  BY SizesAssumption DEF Queues, Lists1, Distinct
<1> QED  BY <1>7, <1>8 DEF s, x

(***************************************************************************)
(* The events of the page, as the reducer reads them.                      *)
(***************************************************************************)

\* What each event of Next reduces to.
LEMMA Reductions ==
    ASSUME NEW s
    PROVE  /\ \A list : list # <<>>
                 => Reduce(s, [type |-> "PLAY_CRATE", list |-> list]) = ReplaceWith(s, list, 1)
           /\ \A list : Reduce(s, [type |-> "ADD_TO_QUEUE", list |-> list]) = AddToQueue(s, list)
           /\ \A queue, index :
                 Reduce(s, [type |-> "SELECT_QUEUE_ENTRY", index |-> index, queue |-> queue])
                     = IF Addressable(s, queue, index) THEN AdvanceTo(s, queue, index) ELSE s
           /\ \A queue, index :
                 Reduce(s, [type |-> "REMOVE_QUEUE_ENTRY", index |-> index, queue |-> queue])
                     = IF Addressable(s, queue, index) THEN RemoveEntry(s, queue, index) ELSE s
           /\ \A queue, index, to :
                 Reduce(s, [type |-> "MOVE_QUEUE_ENTRY", index |-> index, to |-> to, queue |-> queue])
                     = IF Addressable(s, queue, index) THEN MoveEntry(s, queue, index, to) ELSE s
           /\ \A queue :
                 Reduce(s, [type |-> "SKIP", queue |-> queue])
                     = IF s.current = Nothing THEN s ELSE AdvanceTo(s, queue, 1)
           /\ \A queue :
                 Reduce(s, [type |-> "TRACK_ENDED", queue |-> queue])
                     = IF s.current = Nothing THEN s ELSE AdvanceTo(s, queue, 1)
           /\ \A queue, file :
                 Reduce(s, [type |-> "TRACK_FAILED", file |-> file, queue |-> queue])
                     = FailTrack(s, queue, file)
           /\ \A m : Reduce(s, [type |-> "SET_METHOD", method |-> m]) = [s EXCEPT !.method = m]
           /\ Reduce(s, [type |-> "CLEAR_QUEUE"]) = [s EXCEPT !.intent = <<>>]
           /\ \A entry : Reduce(s, [type |-> "RESTORE_CURRENT", entry |-> entry])
                             = RestoreCurrent(s, entry)
BY DEF Reduce

\* PLAY_TRACK: the row that is played is one of the list.
LEMMA PlayTrackReduces ==
    ASSUME NEW s, NEW list, NEW file, \E i \in DOMAIN list : list[i].file = file
    PROVE  \E at \in DOMAIN list :
               Reduce(s, [type |-> "PLAY_TRACK", file |-> file, list |-> list])
                   = ReplaceWith(s, list, at)
<1> DEFINE at == CHOOSE i \in DOMAIN list : list[i].file = file
<1>1. at \in DOMAIN list
  OBVIOUS
<1>2. Reduce(s, [type |-> "PLAY_TRACK", file |-> file, list |-> list]) = ReplaceWith(s, list, at)
  BY DEF Reduce
<1> QED  BY <1>1, <1>2

\* A list as a page enters it.
LEMMA EnteredFacts ==
    ASSUME NEW list \in Lists
    PROVE  /\ Entered(list, "pin") \in Seq(Entries)
           /\ DOMAIN Entered(list, "pin") = DOMAIN list
           /\ \A i \in DOMAIN list : Entered(list, "pin")[i].file = list[i]
<1> DEFINE r == Entered(list, "pin")
<1>1. list \in Seq(Files) /\ Len(list) \in Nat /\ DOMAIN list = 1 .. Len(list)
  BY PlaybackAssumption
<1>2. \A i \in 1 .. Len(list) : QueueEntry(list[i], "pin") \in Entries /\ QueueEntry(list[i], "pin").file = list[i]
  BY <1>1 DEF QueueEntry, Entries, Origins
<1>3. r = [i \in 1 .. Len(list) |-> QueueEntry(list[i], "pin")]
  BY <1>1 DEF Entered
<1>4. r \in [1 .. Len(list) -> Entries]
  BY <1>2, <1>3
<1>5. \A i \in DOMAIN list : r[i].file = list[i]
  BY <1>1, <1>2, <1>3
<1> HIDE DEF r
<1>6. r \in Seq(Entries) /\ DOMAIN r = DOMAIN list
  BY <1>1, <1>4, SeqDef
<1> QED  BY <1>5, <1>6 DEF r

\* PLAY_TRACK of a row of the list: a track is current.
LEMMA PlayRowSound ==
    ASSUME NEW s, Sound(s), NEW list \in Lists, NEW file \in Range(list)
    PROVE  LET e == [type |-> "PLAY_TRACK", file |-> file, list |-> Entered(list, "pin")]
           IN  Sound(Reduce(s, e)) /\ Reduce(s, e).current \in Entries
<1> DEFINE q == Entered(list, "pin")
<1>1. q \in Seq(Entries) /\ DOMAIN q = DOMAIN list /\ \A i \in DOMAIN list : q[i].file = list[i]
  BY EnteredFacts
<1>2. PICK i \in DOMAIN list : list[i] = file
  BY DEF Range
<1> HIDE DEF q
<1>3. \E k \in DOMAIN q : q[k].file = file
  BY <1>1, <1>2
<1>4. PICK at \in DOMAIN q :
         Reduce(s, [type |-> "PLAY_TRACK", file |-> file, list |-> q]) = ReplaceWith(s, q, at)
  BY <1>3, PlayTrackReduces
<1>5. Sound(ReplaceWith(s, q, at)) /\ ReplaceWith(s, q, at).current \in Entries
  BY <1>1, ReplaceSound
<1> QED  BY <1>4, <1>5 DEF q

\* PLAY_CRATE of a crate with tracks.
LEMMA PlayCrateSound ==
    ASSUME NEW s, Sound(s), NEW list \in Lists, list # <<>>
    PROVE  LET e == [type |-> "PLAY_CRATE", list |-> Entered(list, "pin")]
           IN  Sound(Reduce(s, e)) /\ Reduce(s, e).current \in Entries
<1> DEFINE q == Entered(list, "pin")
<1>1. q \in Seq(Entries) /\ DOMAIN q = DOMAIN list
  BY EnteredFacts
<1>2. 1 \in DOMAIN list
  BY PlaybackAssumption
<1> HIDE DEF q
<1>3. 1 \in DOMAIN q /\ q # <<>>
  BY <1>1, <1>2
<1>4. Reduce(s, [type |-> "PLAY_CRATE", list |-> q]) = ReplaceWith(s, q, 1)
  BY <1>3, Reductions
<1>5. Sound(ReplaceWith(s, q, 1)) /\ ReplaceWith(s, q, 1).current \in Entries
  BY <1>1, <1>3, ReplaceSound
<1> QED  BY <1>4, <1>5 DEF q

\* The events that leave the transport alone leave the current track alone.
LEMMA QuietSound ==
    ASSUME NEW s, Sound(s), NEW queue \in Queues
    PROVE  /\ \A list \in Lists :
                 LET e == [type |-> "ADD_TO_QUEUE", list |-> Entered(list, "pin")]
                 IN  Sound(Reduce(s, e)) /\ Reduce(s, e).current = s.current
           /\ \A index \in Nat :
                 LET e == [type |-> "REMOVE_QUEUE_ENTRY", index |-> index, queue |-> queue]
                 IN  Sound(Reduce(s, e)) /\ Reduce(s, e).current = s.current
           /\ \A index \in Nat, to \in Int :
                 LET e == [type |-> "MOVE_QUEUE_ENTRY", index |-> index, to |-> to, queue |-> queue]
                 IN  Sound(Reduce(s, e)) /\ Reduce(s, e).current = s.current
           /\ \A m \in Methods :
                 LET e == [type |-> "SET_METHOD", method |-> m]
                 IN  Sound(Reduce(s, e)) /\ Reduce(s, e).current = s.current
           /\ LET e == [type |-> "CLEAR_QUEUE"]
              IN  Sound(Reduce(s, e)) /\ Reduce(s, e).current = s.current
<1>0. s \in States
  BY DEF Sound
<1>1. ASSUME NEW list \in Lists
      PROVE  /\ Sound(AddToQueue(s, Entered(list, "pin")))
             /\ AddToQueue(s, Entered(list, "pin")).current = s.current
  BY EnteredFacts, AddSound
<1>2. ASSUME NEW index \in Nat, Addressable(s, queue, index)
      PROVE  /\ Sound(RemoveEntry(s, queue, index))
             /\ RemoveEntry(s, queue, index).current = s.current
  BY <1>2, RemoveSound DEF Addressable
<1>3. ASSUME NEW index \in Nat, NEW to \in Int
      PROVE  /\ Sound(MoveEntry(s, queue, index, to))
             /\ MoveEntry(s, queue, index, to).current = s.current
  BY MoveSound
<1>4. ASSUME NEW m \in Methods
      PROVE  Sound([s EXCEPT !.method = m]) /\ [s EXCEPT !.method = m].current = s.current
  <2> DEFINE r == [s EXCEPT !.method = m]
  <2>1. /\ r.current = s.current /\ r.intent = s.intent /\ r.history = s.history
        /\ r.failed = s.failed /\ r.suppressed = s.suppressed /\ r \in States
    BY <1>0 DEF States
  <2> HIDE DEF r
  <2>2. PinsFit(r)
    <3>1. Slots(r) = Slots(s)
      BY <2>1 DEF Slots
    <3> QED  BY <2>1, <3>1 DEF PinsFit, Sound
  <2>3. Sound(r)
    BY <2>1, <2>2 DEF Sound
  <2> QED  BY <2>1, <2>3 DEF r
<1>5. Sound([s EXCEPT !.intent = <<>>]) /\ [s EXCEPT !.intent = <<>>].current = s.current
  <2> DEFINE pins == <<>>
  <2>1. pins \in Seq(Entries) /\ Len(pins) = 0 /\ DOMAIN pins = {}
    OBVIOUS
  <2>2. Slots(s) \in Nat
    BY <1>0, StateFields
  <2> HIDE DEF pins
  <2>3. Len(pins) <= Slots(s) /\ Distinct(pins) /\ \A i \in DOMAIN pins : pins[i].file # s.current.file
    BY <2>1, <2>2 DEF Distinct
  <2>4. Sound([s EXCEPT !.intent = pins]) /\ [s EXCEPT !.intent = pins].current = s.current
    BY <2>1, <2>3, PinnedSound
  <2> QED  BY <2>4 DEF pins
<1>6. /\ \A list : Reduce(s, [type |-> "ADD_TO_QUEUE", list |-> list]) = AddToQueue(s, list)
      /\ \A m : Reduce(s, [type |-> "SET_METHOD", method |-> m]) = [s EXCEPT !.method = m]
      /\ Reduce(s, [type |-> "CLEAR_QUEUE"]) = [s EXCEPT !.intent = <<>>]
  BY Reductions
<1>7. \A q, index :
         Reduce(s, [type |-> "REMOVE_QUEUE_ENTRY", index |-> index, queue |-> q])
             = IF Addressable(s, q, index) THEN RemoveEntry(s, q, index) ELSE s
  BY Reductions
<1>8. \A q, index, to :
         Reduce(s, [type |-> "MOVE_QUEUE_ENTRY", index |-> index, to |-> to, queue |-> q])
             = IF Addressable(s, q, index) THEN MoveEntry(s, q, index, to) ELSE s
  BY Reductions
<1>9. ASSUME NEW list \in Lists
      PROVE  LET e == [type |-> "ADD_TO_QUEUE", list |-> Entered(list, "pin")]
             IN  Sound(Reduce(s, e)) /\ Reduce(s, e).current = s.current
  BY <1>1, <1>6
<1>10. ASSUME NEW index \in Nat
       PROVE  LET e == [type |-> "REMOVE_QUEUE_ENTRY", index |-> index, queue |-> queue]
              IN  Sound(Reduce(s, e)) /\ Reduce(s, e).current = s.current
  BY <1>2, <1>7
<1>11. ASSUME NEW index \in Nat, NEW to \in Int
       PROVE  LET e == [type |-> "MOVE_QUEUE_ENTRY", index |-> index, to |-> to, queue |-> queue]
              IN  Sound(Reduce(s, e)) /\ Reduce(s, e).current = s.current
  BY <1>3, <1>8
<1>12. ASSUME NEW m \in Methods
       PROVE  LET e == [type |-> "SET_METHOD", method |-> m]
              IN  Sound(Reduce(s, e)) /\ Reduce(s, e).current = s.current
  <2> DEFINE r == [s EXCEPT !.method = m]
  <2>1. Sound(r) /\ r.current = s.current
    BY <1>4
  <2>2. Reduce(s, [type |-> "SET_METHOD", method |-> m]) = r
    BY <1>6
  <2> HIDE DEF r
  <2> QED  BY <2>1, <2>2
<1>13. LET e == [type |-> "CLEAR_QUEUE"]
       IN  Sound(Reduce(s, e)) /\ Reduce(s, e).current = s.current
  BY <1>5, <1>6
<1> QED  BY <1>9, <1>10, <1>11, <1>12, <1>13

(***************************************************************************)
(* The invariant.                                                          *)
(***************************************************************************)

Known == Files \cup {Nothing}
Elements == [src : Known, on : BOOLEAN]
Refreshes == [file : Known, by : {"nobody", "error", "toggle"}, play : BOOLEAN]
Aheads == {l \in [file : Known, ready : BOOLEAN] : l.file = Nothing => ~l.ready}
Resumes == {r \in [file : Known, body : BOOLEAN] : r.body => r.file # Nothing}

\* A regeneration in flight read a sound state, and holds a ticket of its own.
TicketsOK ==
    /\ regenSeq \in Nat
    /\ \A t \in tickets : Sound(t.st) /\ t.seq \in 1 .. regenSeq
    /\ \A t, u \in tickets : t.seq = u.seq => t = u

\* The drawer shows the state; the regeneration whose answer is awaited read
\* the state there is, unless a resume has overtaken it.
Showing ==
    /\ Sound(st) /\ rendered \in Queues /\ TicketsOK /\ overtaken \in BOOLEAN
    /\ RenderedDescribesState
    /\ ~overtaken => \A t \in tickets : t.seq = regenSeq => t.st = st

\* What a reload restores is what there is to lose.
Saved ==
    /\ queueMem = Nothing \/ Sound(queueMem)
    /\ st.current # Nothing \/ st.intent # <<>>
         => /\ queueMem # Nothing
            /\ queueMem.current = st.current /\ queueMem.intent = st.intent
            /\ queueMem.method = st.method /\ queueMem.history = st.history

\* The transport's variables name files.
Held ==
    /\ claimed \in Known /\ resuming \in Resumes /\ playerMem \in Known
    /\ audio \in Elements /\ refresh \in Refreshes /\ lookahead \in Aheads
    /\ starts \in [Files -> Nat] /\ prefetches \subseteq Files /\ crossed \in BOOLEAN

\* The claimed file is in the element, or a start of it is on its way.
Answered == claimed # Nothing /\ ~crossed => audio.src = claimed \/ starts[claimed] > 0

IInv ==
    /\ Showing /\ Saved /\ Held
    /\ overtaken => resuming = NoResume
    /\ ClaimIsCurrent /\ Answered

(***************************************************************************)
(* The queue's half of a step.                                             *)
(***************************************************************************)

\* hydrateTail: a ticket of the state it read, or the queue without a tail.
LEMMA HydrateKeeps ==
    ASSUME TicketsOK, NEW s, Sound(s), NEW queue \in Queues, Hydrate(s, queue)
    PROVE  /\ TicketsOK' /\ rendered' \in Queues
           /\ \A t \in tickets' : t.seq = regenSeq' => t.st = s
           /\ Settled(s) \/ queue = AssembleQueue(s, AutoTail(queue))
                => rendered' = AssembleQueue(s, AutoTail(rendered'))
<1>1. regenSeq \in Nat /\ regenSeq' = regenSeq + 1
  BY DEF TicketsOK, Hydrate
<1>2. CASE Settled(s)
  <2>1. tickets' = tickets /\ rendered' = AssembleQueue(s, <<>>)
    BY <1>2 DEF Hydrate
  <2>2. <<>> \in Tails
    BY DEF Tails
  <2>3. rendered' \in Queues /\ rendered' = AssembleQueue(s, AutoTail(rendered'))
    BY <2>1, <2>2, AssembledShown
  <2>4. TicketsOK' /\ \A t \in tickets' : t.seq = regenSeq' => t.st = s
    BY <1>1, <2>1 DEF TicketsOK
  <2> QED  BY <2>3, <2>4
<1>3. CASE ~Settled(s)
  <2> DEFINE new == [seq |-> regenSeq', st |-> s]
  <2>1. tickets' = tickets \cup {new} /\ rendered' = queue
    BY <1>3 DEF Hydrate
  <2>2. new.seq = regenSeq' /\ new.st = s
    OBVIOUS
  <2> HIDE DEF new
  <2>3. \A t \in tickets' : (t \in tickets /\ t.seq < regenSeq') \/ t = new
    BY <1>1, <2>1 DEF TicketsOK
  <2>4. TicketsOK'
    <3>1. \A t \in tickets' : Sound(t.st) /\ t.seq \in 1 .. regenSeq'
      BY <1>1, <2>2, <2>3 DEF TicketsOK
    <3>2. \A t, u \in tickets' : t.seq = u.seq => t = u
      BY <1>1, <2>2, <2>3 DEF TicketsOK
    <3> QED  BY <1>1, <3>1, <3>2 DEF TicketsOK
  <2>5. \A t \in tickets' : t.seq = regenSeq' => t.st = s
    BY <1>1, <2>2, <2>3 DEF TicketsOK
  <2> QED  BY <1>3, <2>1, <2>4, <2>5
<1> QED  BY <1>2, <1>3

\* apply: whatever went before, the drawer shows the new state and the new
\* state is saved.
LEMMA ApplyKeeps ==
    ASSUME Showing, NEW e, Apply(e), Sound(Reduce(st, e))
    PROVE  Showing' /\ Saved' /\ overtaken' = FALSE /\ Sound(st') /\ st' = Reduce(st, e)
<1> DEFINE queue == AssembleQueue(st', AutoTail(rendered))
<1>1. /\ st' = Reduce(st, e) /\ Sound(st') /\ queueMem' = Serialized(st')
      /\ Hydrate(st', queue) /\ overtaken' = FALSE /\ TicketsOK
  BY DEF Apply, Showing
<1>2. AutoTail(rendered) \in Tails
  BY AutoTailFacts DEF Showing, Queues, Lists1
<1>3. queue \in Queues /\ queue = AssembleQueue(st', AutoTail(queue))
  BY <1>1, <1>2, AssembledShown
<1> HIDE DEF queue
<1>4. /\ TicketsOK' /\ rendered' \in Queues
      /\ \A t \in tickets' : t.seq = regenSeq' => t.st = st'
      /\ rendered' = AssembleQueue(st', AutoTail(rendered'))
  BY <1>1, <1>3, HydrateKeeps
<1>5. Showing'
  BY <1>1, <1>4 DEF Showing, RenderedDescribesState
<1>6. Saved'
  BY <1>1, SerializedFacts DEF Saved
<1> QED  BY <1>1, <1>5, <1>6

\* hydrateIfDeferred.
LEMMA HydrateIfDeferredKeeps ==
    ASSUME Showing, Saved, Held, HydrateIfDeferred, st' = st, queueMem' = queueMem
    PROVE  Showing' /\ Saved' /\ (overtaken' => overtaken) /\ lookahead' \in {lookahead, NoAhead}
<1>1. CASE deferred
  <2>1. /\ Hydrate(st, rendered) /\ lookahead' = KeptAhead(rendered')
        /\ overtaken' = (overtaken /\ ~Settled(st))
    BY <1>1 DEF HydrateIfDeferred
  <2>2. /\ Sound(st) /\ rendered \in Queues /\ TicketsOK /\ overtaken \in BOOLEAN
        /\ ~overtaken => rendered = AssembleQueue(st, AutoTail(rendered))
    BY DEF Showing, RenderedDescribesState
  <2>3. /\ TicketsOK' /\ rendered' \in Queues
        /\ \A t \in tickets' : t.seq = regenSeq' => t.st = st
        /\ Settled(st) \/ rendered = AssembleQueue(st, AutoTail(rendered))
             => rendered' = AssembleQueue(st, AutoTail(rendered'))
    BY <2>1, <2>2, HydrateKeeps
  <2>4. ~overtaken' => rendered' = AssembleQueue(st, AutoTail(rendered'))
    BY <2>1, <2>2, <2>3
  <2>5. overtaken' \in BOOLEAN /\ (overtaken' => overtaken)
    BY <2>1, <2>2
  <2>6. Showing'
    BY <2>2, <2>3, <2>4, <2>5 DEF Showing, RenderedDescribesState
  <2> QED  BY <2>1, <2>5, <2>6 DEF Saved, KeptAhead
<1>2. CASE ~deferred
  <2>1. UNCHANGED <<regenSeq, tickets, overtaken, rendered, lookahead, st, queueMem>>
    BY <1>2 DEF HydrateIfDeferred, tailVars
  <2> QED  BY <2>1 DEF Showing, Saved, TicketsOK, RenderedDescribesState
<1> QED  BY <1>1, <1>2

\* A regeneration answers.
LEMMA LandingKeeps ==
    ASSUME Showing, NEW t \in tickets, HydrationLands(t)
    PROVE  Showing' /\ (overtaken' => overtaken) /\ lookahead' \in {lookahead, NoAhead}
<1>1. tickets' = tickets \ {t} /\ regenSeq' = regenSeq /\ st' = st
  BY DEF HydrationLands
<1>2. TicketsOK'
  BY <1>1 DEF Showing, TicketsOK
<1>3. CASE t.seq # regenSeq
  <2>1. UNCHANGED <<rendered, lookahead, overtaken>>
    BY <1>3 DEF HydrationLands
  <2> QED  BY <1>1, <1>2, <2>1 DEF Showing, RenderedDescribesState
<1>4. CASE t.seq = regenSeq
  <2>1. /\ \E answered \in BOOLEAN : rendered' \in Regenerated(t.st, answered)
        /\ lookahead' = KeptAhead(rendered') /\ overtaken' = (overtaken /\ t.st # st)
    BY <1>4 DEF HydrationLands
  <2>2. Sound(t.st) /\ t.st \in States
    BY DEF Showing, TicketsOK, Sound
  <2>3. \E auto \in Tails : rendered' = AssembleQueue(t.st, auto)
    BY <2>1, <2>2, RegeneratedFacts
  <2>4. rendered' \in Queues /\ rendered' = AssembleQueue(t.st, AutoTail(rendered'))
    BY <2>2, <2>3, AssembledShown
  <2>5. overtaken \in BOOLEAN /\ (~overtaken => t.st = st)
    BY <1>4 DEF Showing
  <2>6. overtaken' \in BOOLEAN /\ (overtaken' => overtaken) /\ (~overtaken' => t.st = st)
    BY <2>1, <2>5
  <2>7. \A u \in tickets' : u.seq # regenSeq'
    BY <1>1, <1>4 DEF Showing, TicketsOK
  <2>8. Showing'
    BY <1>1, <1>2, <2>4, <2>6, <2>7 DEF Showing, RenderedDescribesState
  <2> QED  BY <2>1, <2>6, <2>8 DEF KeptAhead
<1> QED  BY <1>3, <1>4

(***************************************************************************)
(* The transport's half of a step.                                         *)
(***************************************************************************)

\* The lookahead is kept, or forgotten.
LEMMA AheadKeeps ==
    ASSUME Held
    PROVE  /\ \A queue : KeptAhead(queue) \in {lookahead, NoAhead}
           /\ AheadAfter \in {lookahead, NoAhead}
           /\ NoAhead \in Aheads
<1>1. NoAhead \in Aheads
  BY DEF NoAhead, Aheads, Known
<1>2. \A queue : KeptAhead(queue) \in {lookahead, NoAhead}
  BY DEF KeptAhead
<1>3. AheadAfter \in {lookahead, NoAhead}
  BY <1>2 DEF AheadAfter
<1> QED  BY <1>1, <1>2, <1>3

\* startCurrent: the file is in the element, or a request for it is sent.
LEMMA StartKeeps ==
    ASSUME Held, NEW file \in Files, claimed' = file,
           NEW element \in Elements, NEW cross \in BOOLEAN, StartCurrent(file, element, cross)
    PROVE  /\ audio' \in Elements /\ starts' \in [Files -> Nat] /\ lookahead' \in Aheads
           /\ playerMem' \in Known /\ crossed' \in BOOLEAN
           /\ audio'.src = file \/ starts'[file] > 0
<1> DEFINE shown == KeptAhead(AssembleQueue(st', AutoTail(rendered)))
<1>1. NoAhead \in Aheads /\ AheadAfter \in Aheads
  BY AheadKeeps DEF Held
<1>2. starts \in [Files -> Nat] /\ playerMem \in Known /\ file \in Known
  BY DEF Held, Known
<1>3. CASE shown.file = file /\ shown.ready
  <2>1. /\ audio' = [src |-> file, on |-> TRUE] /\ lookahead' = NoAhead /\ crossed' = FALSE
        /\ playerMem' = claimed' /\ starts' = starts
    BY <1>3 DEF StartCurrent
  <2> QED  BY <1>1, <1>2, <2>1 DEF Elements
<1>4. CASE ~(shown.file = file /\ shown.ready)
  <2>1. /\ starts' = [starts EXCEPT ![file] = @ + 1] /\ lookahead' = AheadAfter
        /\ audio' = element /\ crossed' = cross /\ playerMem' = playerMem
    BY <1>4 DEF StartCurrent
  <2>2. starts' \in [Files -> Nat] /\ starts'[file] > 0
    BY <1>2, <2>1
  <2> QED  BY <1>1, <1>2, <2>1, <2>2
<1> QED  BY <1>3, <1>4

\* The file of the current track, when there is one.
LEMMA CurrentFile ==
    ASSUME Sound(st')
    PROVE  st'.current # Nothing => st'.current.file \in Files
<1>1. st' \in States
  BY DEF Sound
<1>2. st'.current # Nothing => st'.current \in Entries
  BY <1>1 DEF States
<1> QED  BY <1>2 DEF Entries

\* handleAdvance: nothing is claimed when nothing is current; else the claim
\* is the current track, and started when it is another.
LEMMA AdvanceKeeps ==
    ASSUME Showing, Held, ClaimIsCurrent, overtaken => resuming = NoResume,
           NEW e, NEW element \in Elements, NEW cross \in BOOLEAN,
           HandleAdvance(e, element, cross), Sound(Reduce(st, e)), refresh' \in Refreshes,
           claimed # Nothing /\ ~cross => element.src = claimed \/ starts[claimed] > 0
    PROVE  IInv' /\ st' = Reduce(st, e)
<1>1. Apply(e) /\ UNCHANGED <<deferred, prefetches, resuming>>
  BY DEF HandleAdvance
<1>2. Showing' /\ Saved' /\ overtaken' = FALSE /\ Sound(st') /\ st' = Reduce(st, e)
  BY <1>1, ApplyKeeps
<1>3. /\ claimed \in Known /\ resuming \in Resumes /\ playerMem \in Known /\ Nothing \in Known
      /\ lookahead \in Aheads /\ starts \in [Files -> Nat] /\ prefetches \subseteq Files
  BY DEF Held, Known
<1>4. resuming' \in Resumes /\ prefetches' \subseteq Files
  BY <1>1, <1>3
<1>5. AheadAfter \in Aheads /\ NoAhead \in Aheads
  BY <1>3, AheadKeeps
<1>6. CASE st'.current = Nothing
  <2>1. /\ claimed' = Nothing /\ lookahead' = NoAhead /\ playerMem' = Nothing
        /\ audio' = element /\ crossed' = cross /\ starts' = starts
    BY <1>6 DEF HandleAdvance
  <2>2. Held'
    BY <1>3, <1>4, <1>5, <2>1 DEF Held
  <2>3. ClaimIsCurrent' /\ Answered'
    BY <2>1 DEF ClaimIsCurrent, Answered
  <2> QED  BY <1>2, <2>2, <2>3 DEF IInv
<1>7. CASE st'.current # Nothing /\ st.current # Nothing /\ st.current.file = st'.current.file
  <2>1. /\ lookahead' = AheadAfter /\ audio' = element /\ crossed' = cross
        /\ claimed' = claimed /\ starts' = starts /\ playerMem' = playerMem
    BY <1>7 DEF HandleAdvance
  <2>2. Held'
    BY <1>3, <1>4, <1>5, <2>1 DEF Held
  <2>3. ClaimIsCurrent' /\ Answered'
    BY <1>7, <2>1 DEF ClaimIsCurrent, Answered
  <2> QED  BY <1>2, <2>2, <2>3 DEF IInv
<1>8. CASE st'.current # Nothing /\ ~(st.current # Nothing /\ st.current.file = st'.current.file)
  <2> DEFINE file == st'.current.file
  <2>1. file \in Files
    BY <1>2, <1>8, CurrentFile
  <2>2. claimed' = file /\ StartCurrent(claimed', element, cross)
    BY <1>8 DEF HandleAdvance
  <2> HIDE DEF file
  <2>3. StartCurrent(file, element, cross)
    BY <2>2
  <2>4. /\ audio' \in Elements /\ starts' \in [Files -> Nat] /\ lookahead' \in Aheads
        /\ playerMem' \in Known /\ crossed' \in BOOLEAN
        /\ audio'.src = file \/ starts'[file] > 0
    BY <2>1, <2>2, <2>3, StartKeeps
  <2>5. Held'
    BY <1>4, <2>1, <2>2, <2>4 DEF Held, Known
  <2>6. ClaimIsCurrent' /\ Answered'
    BY <1>8, <2>2, <2>4 DEF ClaimIsCurrent, Answered, file
  <2> QED  BY <1>2, <2>5, <2>6 DEF IInv
<1> QED  BY <1>2, <1>6, <1>7, <1>8

\* An event that leaves the transport alone.
LEMMA QuietKeeps ==
    ASSUME IInv, NEW e, JustApply(e), Sound(Reduce(st, e)), Reduce(st, e).current = st.current
    PROVE  IInv'
<1>1. /\ Apply(e) /\ lookahead' = AheadAfter
      /\ UNCHANGED <<claimed, audio, starts, refresh, crossed, prefetches, resuming, playerMem>>
  BY DEF JustApply, sourceVars, memVars
<1>2. Showing' /\ Saved' /\ overtaken' = FALSE /\ st' = Reduce(st, e)
  BY <1>1, ApplyKeeps DEF IInv
<1>3. lookahead' \in Aheads
  BY <1>1, AheadKeeps DEF IInv, Held
<1>4. Held'
  BY <1>1, <1>3 DEF IInv, Held
<1>5. ClaimIsCurrent' /\ Answered'
  BY <1>1, <1>2 DEF IInv, ClaimIsCurrent, Answered
<1> QED  BY <1>2, <1>4, <1>5 DEF IInv

\* A play of the member.
LEMMA PlayKeeps ==
    ASSUME IInv, NEW e, Play(e), Sound(Reduce(st, e)), Reduce(st, e).current \in Entries
    PROVE  IInv'
<1>1. /\ Apply(e) /\ StartCurrent(claimed', audio, crossed)
      /\ claimed' = IF st'.current = Nothing THEN claimed ELSE st'.current.file
      /\ UNCHANGED <<refresh, prefetches, resuming>>
  BY DEF Play
<1>2. Showing' /\ Saved' /\ overtaken' = FALSE /\ Sound(st') /\ st' = Reduce(st, e)
  BY <1>1, ApplyKeeps DEF IInv
<1> DEFINE file == st'.current.file
<1>3. st'.current # Nothing /\ file \in Files /\ claimed' = file
  BY <1>1, <1>2, CurrentFile, NothingAssumption
<1>4. Held /\ audio \in Elements /\ crossed \in BOOLEAN
  BY DEF IInv, Held
<1> HIDE DEF file
<1>5. StartCurrent(file, audio, crossed)
  BY <1>1, <1>3
<1>6. /\ audio' \in Elements /\ starts' \in [Files -> Nat] /\ lookahead' \in Aheads
      /\ playerMem' \in Known /\ crossed' \in BOOLEAN
      /\ audio'.src = file \/ starts'[file] > 0
  BY <1>3, <1>4, <1>5, StartKeeps
<1>7. Held'
  BY <1>1, <1>3, <1>4, <1>6 DEF Held, Known
<1>8. ClaimIsCurrent' /\ Answered'
  BY <1>3, <1>6 DEF ClaimIsCurrent, Answered, file
<1> QED  BY <1>2, <1>7, <1>8 DEF IInv

(***************************************************************************)
(* Every step keeps the invariant.                                         *)
(***************************************************************************)

\* Steps that leave the queue and what is saved of it alone.
LEMMA StillShown ==
    ASSUME Showing, Saved, UNCHANGED queueVars
    PROVE  Showing' /\ Saved' /\ overtaken' = overtaken /\ st' = st
BY DEF queueVars, tailVars, Showing, Saved, TicketsOK, RenderedDescribesState

\* A skip, a chosen row and the end of a track: the events that advance.
LEMMA AdvancingSound ==
    ASSUME Showing
    PROVE  /\ Sound(Reduce(st, [type |-> "SKIP", queue |-> rendered]))
           /\ Sound(Reduce(st, [type |-> "TRACK_ENDED", queue |-> rendered]))
           /\ \A i \in Nat : Sound(Reduce(st, [type |-> "SELECT_QUEUE_ENTRY", index |-> i,
                                                queue |-> rendered]))
           /\ \A f \in Files : Sound(Reduce(st, [type |-> "TRACK_FAILED", file |-> f,
                                                 queue |-> rendered]))
<1>1. Sound(st) /\ rendered \in Queues
  BY DEF Showing
<1>2. \A i \in Nat : Sound(AdvanceTo(st, rendered, i))
  BY <1>1, AdvanceSound
<1>3. \A f \in Files : Sound(FailTrack(st, rendered, f))
  BY <1>1, FailSound
<1>4. \A i \in Nat : Reduce(st, [type |-> "SELECT_QUEUE_ENTRY", index |-> i, queue |-> rendered])
                         = IF Addressable(st, rendered, i) THEN AdvanceTo(st, rendered, i) ELSE st
  BY Reductions
<1>5. \A f \in Files : Reduce(st, [type |-> "TRACK_FAILED", file |-> f, queue |-> rendered])
                           = FailTrack(st, rendered, f)
  <2>1. \A q, f : Reduce(st, [type |-> "TRACK_FAILED", file |-> f, queue |-> q]) = FailTrack(st, q, f)
    BY Reductions
  <2> QED  BY ONLY <2>1
<1>6. /\ Reduce(st, [type |-> "SKIP", queue |-> rendered])
             = IF st.current = Nothing THEN st ELSE AdvanceTo(st, rendered, 1)
      /\ Reduce(st, [type |-> "TRACK_ENDED", queue |-> rendered])
             = IF st.current = Nothing THEN st ELSE AdvanceTo(st, rendered, 1)
  BY Reductions
<1>7. Sound(AdvanceTo(st, rendered, 1))
  BY <1>2
<1>8. \A i \in Nat : Sound(Reduce(st, [type |-> "SELECT_QUEUE_ENTRY", index |-> i,
                                        queue |-> rendered]))
  BY <1>1, <1>2, <1>4
<1>9. \A f \in Files : Sound(Reduce(st, [type |-> "TRACK_FAILED", file |-> f, queue |-> rendered]))
  BY <1>3, <1>5
<1> QED  BY <1>1, <1>6, <1>7, <1>8, <1>9

\* No resume is under way.
LEMMA NoResumeFacts ==
    NoResume \in Resumes /\ NoResume.file = Nothing /\ ~NoResume.body
BY DEF NoResume, Resumes, Known

\* A player before its first track.
LEMMA InitIInv == Init => IInv
<1> SUFFICES ASSUME Init  PROVE IInv
  OBVIOUS
<1>1. /\ st = EmptyState /\ rendered = <<>> /\ regenSeq = 0 /\ tickets = {} /\ overtaken = FALSE
      /\ queueMem = Nothing /\ claimed = Nothing /\ resuming = NoResume /\ playerMem = Nothing
      /\ audio = [src |-> Nothing, on |-> FALSE] /\ refresh = NoRefresh /\ lookahead = NoAhead
      /\ starts = [f \in Files |-> 0] /\ prefetches = {} /\ crossed = FALSE
  BY DEF Init
<1>2. TicketsOK
  BY <1>1 DEF TicketsOK
<1>3. Showing
  BY <1>1, <1>2, EmptySound, NothingShown DEF Showing, RenderedDescribesState
<1>4. Saved
  BY <1>1, EmptySound DEF Saved
<1>5. Held
  BY <1>1, NoResumeFacts DEF Held, Known, Elements, Refreshes, Aheads, NoRefresh, NoAhead
<1>6. ClaimIsCurrent /\ Answered
  BY <1>1 DEF ClaimIsCurrent, Answered
<1> QED  BY <1>1, <1>3, <1>4, <1>5, <1>6 DEF IInv

\* startCurrent's answer.
LEMMA StartLandsKeeps ==
    ASSUME IInv, NEW f \in Files, NEW found \in BOOLEAN, StartLands(f, found)
    PROVE  IInv'
<1>1. Showing /\ Saved /\ Held /\ ClaimIsCurrent /\ Answered /\ (overtaken => resuming = NoResume)
  BY DEF IInv
<1>2. /\ starts[f] > 0 /\ starts' = [starts EXCEPT ![f] = @ - 1]
      /\ UNCHANGED <<st, queueMem, claimed, refresh, prefetches, resuming>>
  BY DEF StartLands
<1>3. starts' \in [Files -> Nat] /\ \A g \in Files : g # f => starts'[g] = starts[g]
  BY <1>1, <1>2 DEF Held
<1>4. NoAhead \in Aheads /\ f \in Known
  BY <1>1, AheadKeeps DEF Known
<1>5. CASE found /\ claimed = f
  <2>1. audio' = [src |-> f, on |-> TRUE] /\ crossed' = FALSE /\ playerMem' = f /\ HydrateIfDeferred
    BY <1>5 DEF StartLands
  <2>2. Showing' /\ Saved' /\ (overtaken' => overtaken) /\ lookahead' \in {lookahead, NoAhead}
    BY <1>1, <1>2, <2>1, HydrateIfDeferredKeeps
  <2>3. audio' \in Elements
    BY <1>4, <2>1 DEF Elements
  <2>4. Held'
    BY <1>1, <1>2, <1>3, <1>4, <2>1, <2>2, <2>3 DEF Held
  <2>5. ClaimIsCurrent' /\ Answered'
    BY <1>1, <1>2, <1>5, <2>1 DEF ClaimIsCurrent, Answered
  <2> QED  BY <1>1, <1>2, <2>2, <2>4, <2>5 DEF IInv
<1>6. CASE ~(found /\ claimed = f)
  <2>1. /\ crossed' = (crossed \/ claimed = f)
        /\ UNCHANGED <<audio, playerMem, tailVars, rendered, lookahead>>
    BY <1>6 DEF StartLands
  <2>2. Showing' /\ Saved' /\ overtaken' = overtaken
    BY <1>1, <1>2, <2>1, StillShown DEF queueVars
  <2>3. crossed' \in BOOLEAN /\ (~crossed' => ~crossed /\ claimed # f)
    BY <1>1, <2>1 DEF Held
  <2>4. Held'
    BY <1>1, <1>2, <1>3, <2>1, <2>3 DEF Held
  <2>5. ClaimIsCurrent'
    BY <1>1, <1>2 DEF ClaimIsCurrent
  <2>6. Answered'
    <3>1. claimed # Nothing => claimed \in Files
      BY <1>1 DEF Held, Known
    <3> QED  BY <1>1, <1>2, <1>3, <2>1, <2>3, <3>1 DEF Answered
  <2> QED  BY <1>1, <1>2, <2>2, <2>4, <2>5, <2>6 DEF IInv
<1> QED  BY <1>5, <1>6

\* The play button.
LEMMA ToggleKeeps ==
    ASSUME IInv, Toggle
    PROVE  IInv'
<1>1. Showing /\ Saved /\ Held /\ ClaimIsCurrent /\ Answered /\ (overtaken => resuming = NoResume)
  BY DEF IInv
<1>2. /\ audio' = [audio EXCEPT !.on = ~@]
      /\ UNCHANGED <<st, queueMem, claimed, starts, refresh, crossed, prefetches, resuming>>
  BY DEF Toggle
<1>3. audio' \in Elements /\ audio'.src = audio.src
  BY <1>1, <1>2 DEF Held, Elements
<1>4. NoAhead \in Aheads
  BY <1>1, AheadKeeps
<1>5. /\ Showing' /\ Saved' /\ (overtaken' => overtaken) /\ lookahead' \in {lookahead, NoAhead}
      /\ playerMem' \in Known
  <2>1. CASE audio.on
    <3>1. playerMem' = SavePlayerMemory /\ UNCHANGED <<tailVars, rendered, lookahead>>
      BY <2>1 DEF Toggle
    <3>2. Showing' /\ Saved' /\ overtaken' = overtaken
      BY <1>1, <1>2, <3>1, StillShown DEF queueVars
    <3> QED  BY <1>1, <3>1, <3>2 DEF SavePlayerMemory, Held
  <2>2. CASE ~audio.on
    <3>1. HydrateIfDeferred /\ playerMem' = playerMem
      BY <2>2 DEF Toggle
    <3>2. Showing' /\ Saved' /\ (overtaken' => overtaken) /\ lookahead' \in {lookahead, NoAhead}
      BY <1>1, <1>2, <3>1, HydrateIfDeferredKeeps
    <3> QED  BY <1>1, <3>1, <3>2 DEF Held
  <2> QED  BY <2>1, <2>2
<1>6. Held'
  BY <1>1, <1>2, <1>3, <1>4, <1>5 DEF Held
<1>7. ClaimIsCurrent' /\ Answered'
  BY <1>1, <1>2, <1>3 DEF ClaimIsCurrent, Answered
<1> QED  BY <1>1, <1>2, <1>5, <1>6, <1>7 DEF IInv

\* The element fails.
LEMMA SourceFailsKeeps ==
    ASSUME IInv, NEW by \in {"error", "toggle"}, SourceFails(by)
    PROVE  IInv'
<1>1. Showing /\ Saved /\ Held /\ ClaimIsCurrent /\ Answered /\ (overtaken => resuming = NoResume)
  BY DEF IInv
<1>2. /\ refresh' = [file |-> claimed, by |-> by, play |-> audio.on \/ by = "toggle"]
      /\ audio' = [audio EXCEPT !.on = FALSE]
      /\ UNCHANGED queueVars
      /\ UNCHANGED <<claimed, starts, crossed, lookahead, prefetches, resuming, playerMem>>
  BY DEF SourceFails, aheadVars, memVars
<1>3. audio' \in Elements /\ audio'.src = audio.src
  BY <1>1, <1>2 DEF Held, Elements
<1>4. refresh' \in Refreshes
  <2>1. (audio.on \/ by = "toggle") \in BOOLEAN /\ claimed \in Known
    BY <1>1 DEF Held, Elements
  <2> QED  BY <1>2, <2>1 DEF Refreshes
<1>5. Showing' /\ Saved' /\ overtaken' = overtaken /\ st' = st
  BY <1>1, <1>2, StillShown
<1>6. Held'
  BY <1>1, <1>2, <1>3, <1>4 DEF Held
<1>7. ClaimIsCurrent' /\ Answered'
  BY <1>1, <1>2, <1>3, <1>5 DEF ClaimIsCurrent, Answered
<1> QED  BY <1>1, <1>2, <1>5, <1>6, <1>7 DEF IInv

\* refreshSource's answer.
LEMMA RefreshLandsKeeps ==
    ASSUME IInv, NEW outcome \in {"ok", "rejected", "failed", "expired"}, RefreshLands(outcome)
    PROVE  IInv'
<1>1. Showing /\ Saved /\ Held /\ ClaimIsCurrent /\ Answered /\ (overtaken => resuming = NoResume)
  BY DEF IInv
<1> DEFINE element == IF outcome \in {"ok", "rejected"}
                      THEN [src |-> refresh.file, on |-> refresh.play /\ outcome = "ok"]
                      ELSE audio
           cross == crossed \/ (element # audio /\ refresh.file # claimed)
<1>2. refresh' = NoRefresh
  BY DEF RefreshLands
<1>3. refresh' \in Refreshes
  BY <1>2 DEF NoRefresh, Refreshes, Known
<1>4. element \in Elements /\ (element # audio => element.src = refresh.file)
  <2>1. refresh.file \in Known /\ (refresh.play /\ outcome = "ok") \in BOOLEAN
    BY <1>1 DEF Held, Refreshes
  <2> QED  BY <1>1, <2>1 DEF Held, Elements
<1>5. cross \in BOOLEAN /\ (~cross => ~crossed /\ (element = audio \/ refresh.file = claimed))
  BY <1>1 DEF Held
<1>6. claimed # Nothing /\ ~cross => element.src = claimed \/ starts[claimed] > 0
  <2> HIDE DEF element, cross
  <2> QED  BY <1>1, <1>4, <1>5 DEF Answered
<1>7. CASE outcome \in {"rejected", "failed"} /\ refresh.by = "error" /\ claimed # Nothing
  <2> DEFINE e == [type |-> "TRACK_FAILED", file |-> claimed, queue |-> rendered]
  <2>1. HandleAdvance(e, element, cross)
    BY <1>7 DEF RefreshLands
  <2>2. claimed \in Files
    BY <1>1, <1>7 DEF Held, Known
  <2>3. Sound(Reduce(st, e))
    BY <1>1, <2>2, AdvancingSound
  <2> HIDE DEF e, element, cross
  <2> QED  BY <1>1, <1>3, <1>4, <1>5, <1>6, <2>1, <2>3, AdvanceKeeps
<1>8. CASE ~(outcome \in {"rejected", "failed"} /\ refresh.by = "error" /\ claimed # Nothing)
  <2>1. /\ audio' = element /\ crossed' = cross
        /\ IF element.on /\ ~audio.on THEN HydrateIfDeferred
           ELSE UNCHANGED <<tailVars, rendered, lookahead>>
        /\ UNCHANGED <<st, queueMem, claimed, starts, prefetches, resuming, playerMem>>
    BY <1>8 DEF RefreshLands, memVars
  <2> HIDE DEF element, cross
  <2>2. Showing' /\ Saved' /\ (overtaken' => overtaken) /\ lookahead' \in {lookahead, NoAhead}
    <3>1. CASE element.on /\ ~audio.on
      <4>1. HydrateIfDeferred
        BY <2>1, <3>1
      <4> QED  BY <1>1, <2>1, <4>1, HydrateIfDeferredKeeps
    <3>2. CASE ~(element.on /\ ~audio.on)
      <4>1. UNCHANGED <<tailVars, rendered, lookahead>>
        BY <2>1, <3>2
      <4> QED  BY <1>1, <2>1, <4>1, StillShown DEF queueVars
    <3> QED  BY <3>1, <3>2
  <2>3. NoAhead \in Aheads
    BY <1>1, AheadKeeps
  <2>4. Held'
    BY <1>1, <1>3, <1>4, <1>5, <2>1, <2>2, <2>3 DEF Held
  <2>5. ClaimIsCurrent' /\ Answered'
    BY <1>1, <1>6, <2>1 DEF ClaimIsCurrent, Answered
  <2> QED  BY <1>1, <2>1, <2>2, <2>4, <2>5 DEF IInv
<1> QED  BY <1>7, <1>8

\* The end of a track.
LEMMA EndedKeeps ==
    ASSUME IInv, Ended
    PROVE  IInv'
<1>1. Showing /\ Saved /\ Held /\ ClaimIsCurrent /\ Answered /\ (overtaken => resuming = NoResume)
  BY DEF IInv
<1> DEFINE element == [audio EXCEPT !.on = FALSE]
<1>2. element \in Elements /\ element.src = audio.src /\ crossed \in BOOLEAN
  BY <1>1 DEF Held, Elements
<1>3. refresh' = refresh /\ refresh \in Refreshes
  BY <1>1 DEF Ended, Held
<1>4. CASE st.current = Nothing
  <2>1. /\ audio' = element /\ playerMem' = Nothing /\ UNCHANGED queueVars
        /\ UNCHANGED <<claimed, starts, crossed, lookahead, prefetches, resuming>>
    BY <1>4 DEF Ended, aheadVars
  <2> HIDE DEF element
  <2>2. Showing' /\ Saved' /\ overtaken' = overtaken /\ st' = st
    BY <1>1, <2>1, StillShown
  <2>3. Held'
    BY <1>1, <1>2, <1>3, <2>1 DEF Held, Known
  <2>4. ClaimIsCurrent' /\ Answered'
    BY <1>1, <1>2, <2>1, <2>2 DEF ClaimIsCurrent, Answered
  <2> QED  BY <1>1, <2>1, <2>2, <2>3, <2>4 DEF IInv
<1>5. CASE st.current # Nothing
  <2> DEFINE e == [type |-> "TRACK_ENDED", queue |-> rendered]
  <2>1. HandleAdvance(e, element, crossed)
    BY <1>5 DEF Ended
  <2>2. Sound(Reduce(st, e))
    BY <1>1, AdvancingSound
  <2> HIDE DEF element, e
  <2>3. claimed # Nothing /\ ~crossed => element.src = claimed \/ starts[claimed] > 0
    BY <1>1, <1>2 DEF Answered
  <2> QED  BY <1>1, <1>2, <1>3, <2>1, <2>2, <2>3, AdvanceKeeps
<1> QED  BY <1>4, <1>5

\* The resumed track: the answer to its request, ...
LEMMA ResumeAnswersKeeps ==
    ASSUME IInv, NEW json \in BOOLEAN, ResumeAnswers(json)
    PROVE  IInv'
<1>1. Showing /\ Saved /\ Held /\ ClaimIsCurrent /\ Answered /\ ~overtaken
  BY DEF IInv, ResumeAnswers, NoResume
<1>2. /\ UNCHANGED queueVars
      /\ UNCHANGED <<claimed, audio, starts, refresh, crossed, lookahead, prefetches>>
      /\ playerMem' \in {playerMem, Nothing}
      /\ resuming' \in {[resuming EXCEPT !.body = TRUE], NoResume} /\ resuming.file # Nothing
  BY DEF ResumeAnswers, sourceVars, aheadVars
<1>3. resuming' \in Resumes
  BY <1>1, <1>2, NoResumeFacts DEF Held, Resumes
<1>4. Nothing \in Known
  BY DEF Known
<1>5. Showing' /\ Saved' /\ overtaken' = overtaken /\ st' = st
  BY <1>1, <1>2, StillShown
<1>6. Held'
  BY <1>1, <1>2, <1>3, <1>4 DEF Held
<1>7. ClaimIsCurrent' /\ Answered'
  BY <1>1, <1>2, <1>5 DEF ClaimIsCurrent, Answered
<1> QED  BY <1>1, <1>5, <1>6, <1>7 DEF IInv

\* ... and its body, which may come after a click.
LEMMA ResumeKeeps ==
    ASSUME IInv, NEW found \in BOOLEAN, ResumeLands(found)
    PROVE  IInv'
<1>1. Showing /\ Saved /\ Held /\ ClaimIsCurrent /\ Answered /\ ~overtaken
  BY DEF IInv, ResumeLands, NoResume
<1> DEFINE file == resuming.file
<1>2. resuming.body /\ resuming' = NoResume /\ UNCHANGED <<starts, refresh, prefetches>>
  BY DEF ResumeLands
<1>3. Nothing \in Known /\ file \in Files /\ NoAhead \in Aheads /\ NoResume \in Resumes
  BY <1>1, <1>2, AheadKeeps, NoResumeFacts DEF Held, Known, Resumes
<1>4. CASE ~found
  <2>1. /\ UNCHANGED queueVars /\ UNCHANGED <<claimed, audio, crossed, lookahead>>
        /\ playerMem' \in {playerMem, Nothing}
    BY <1>4 DEF ResumeLands
  <2>2. Showing' /\ Saved' /\ overtaken' = overtaken /\ st' = st
    BY <1>1, <2>1, StillShown
  <2>3. Held'
    BY <1>1, <1>2, <1>3, <2>1 DEF Held
  <2>4. ClaimIsCurrent' /\ Answered'
    BY <1>1, <1>2, <2>1, <2>2 DEF ClaimIsCurrent, Answered
  <2> QED  BY <1>2, <2>2, <2>3, <2>4 DEF IInv
<1>5. CASE found
  <2> DEFINE entry == ResumedEntry(file)
  <2>1. /\ claimed' = file /\ audio' = [src |-> file, on |-> FALSE] /\ crossed' = FALSE
        /\ st' = Reduce(st, [type |-> "RESTORE_CURRENT", entry |-> entry])
        /\ queueMem' = Serialized(st')
        /\ rendered' = AssembleQueue(st', AutoTail(rendered))
        /\ lookahead' = KeptAhead(rendered')
        /\ overtaken' = (st' # st /\ \E t \in tickets : t.seq = regenSeq)
        /\ UNCHANGED <<regenSeq, tickets, playerMem>>
    BY <1>5 DEF ResumeLands
  <2>2. entry \in Entries /\ entry.file = file
    BY <1>3 DEF ResumedEntry, Entries, Origins
  <2>3. st' = RestoreCurrent(st, entry)
    BY <2>1, Reductions
  <2> HIDE DEF entry, file
  <2>4. Sound(st') /\ st'.current \in Entries /\ st'.current.file = file
    BY <1>1, <2>2, <2>3, RestoreSound DEF Showing
  <2>5. AutoTail(rendered) \in Tails
    BY <1>1, AutoTailFacts DEF Showing, Queues, Lists1
  <2>6. rendered' \in Queues /\ rendered' = AssembleQueue(st', AutoTail(rendered'))
    BY <2>1, <2>4, <2>5, AssembledShown
  <2>7. TicketsOK'
    BY <1>1, <2>1 DEF Showing, TicketsOK
  <2>8. overtaken' \in BOOLEAN
    BY <2>1
  <2>9. ~overtaken' => \A t \in tickets' : t.seq = regenSeq' => t.st = st'
    BY <1>1, <2>1 DEF Showing
  <2>10. Showing'
    BY <2>4, <2>6, <2>7, <2>8, <2>9 DEF Showing, RenderedDescribesState
  <2>11. Saved'
    BY <2>1, <2>4, SerializedFacts DEF Saved
  <2>12. audio' \in Elements /\ audio'.src = file /\ lookahead' \in Aheads
    BY <1>1, <1>3, <2>1, AheadKeeps DEF Held, Elements, Known
  <2>13. Held'
    BY <1>1, <1>2, <1>3, <2>1, <2>12 DEF Held, Known
  <2>14. ClaimIsCurrent' /\ Answered'
    BY <2>1, <2>4, <2>12, NothingAssumption DEF ClaimIsCurrent, Answered
  <2> QED  BY <1>2, <2>10, <2>11, <2>13, <2>14 DEF IInv
<1> QED  BY <1>4, <1>5

\* What a reload gives back.
LEMMA RestoredFacts ==
    ASSUME Saved, NEW stale \in BOOLEAN
    PROVE  /\ Sound(RestoredState(queueMem, stale))
           /\ stale => RestoredState(queueMem, stale) = EmptyState
           /\ ~stale /\ queueMem # Nothing
                => /\ RestoredState(queueMem, stale).current = queueMem.current
                   /\ RestoredState(queueMem, stale).intent = queueMem.intent
                   /\ RestoredState(queueMem, stale).method = queueMem.method
                   /\ RestoredState(queueMem, stale).history = queueMem.history
           /\ queueMem = Nothing => RestoredState(queueMem, stale) = EmptyState
<1>1. CASE queueMem = Nothing \/ stale
  BY <1>1, EmptySound DEF RestoredState
<1>2. CASE ~(queueMem = Nothing \/ stale)
  <2>1. RestoredState(queueMem, stale) = ParseState(queueMem) /\ Sound(queueMem)
    BY <1>2 DEF RestoredState, Saved
  <2> QED  BY <1>2, <2>1, ParsedFacts
<1> QED  BY <1>1, <1>2

\* A reload.
LEMMA ReloadKeeps ==
    ASSUME IInv, NEW unloads \in BOOLEAN, NEW aged \in SUBSET {"queue", "player"},
           Reload(unloads, aged)
    PROVE  IInv'
<1>1. Showing /\ Saved /\ Held
  BY DEF IInv
<1> DEFINE stale == "queue" \in aged
           restored == RestoredState(queueMem, stale)
           player == IF unloads THEN SavePlayerMemory ELSE playerMem
<1>2. stale \in BOOLEAN
  OBVIOUS
<1>3. /\ queueMem' = IF stale THEN Nothing ELSE queueMem
      /\ playerMem' = (IF "player" \in aged THEN Nothing ELSE player) /\ resuming' = [file |-> playerMem', body |-> FALSE]
      /\ regenSeq' = 0 /\ tickets' = {} /\ overtaken' = FALSE
      /\ claimed' = Nothing /\ audio' = [src |-> Nothing, on |-> FALSE]
      /\ starts' = [f \in Files |-> 0] /\ refresh' = NoRefresh
      /\ lookahead' = NoAhead /\ prefetches' = {} /\ crossed' = FALSE
  BY DEF Reload
<1>4. IF restored.current = Nothing /\ restored.intent = <<>>
      THEN st' = EmptyState /\ rendered' = <<>>
      ELSE st' = restored /\ rendered' = AssembleQueue(restored, <<>>)
  BY DEF Reload
<1>5. playerMem' \in Known
  BY <1>1, <1>3 DEF SavePlayerMemory, Held, Known
<1> HIDE DEF stale
<1>6. /\ Sound(restored) /\ (stale => restored = EmptyState)
      /\ ~stale /\ queueMem # Nothing
           => /\ restored.current = queueMem.current /\ restored.intent = queueMem.intent
              /\ restored.method = queueMem.method /\ restored.history = queueMem.history
      /\ queueMem = Nothing => restored = EmptyState
  BY <1>1, <1>2, RestoredFacts
<1> HIDE DEF restored, player
<1>7. /\ Sound(st') /\ rendered' \in Queues /\ rendered' = AssembleQueue(st', AutoTail(rendered'))
  <2>1. <<>> \in Tails
    BY DEF Tails
  <2>2. CASE restored.current = Nothing /\ restored.intent = <<>>
    BY <1>4, <2>2, EmptySound, NothingShown
  <2>3. CASE ~(restored.current = Nothing /\ restored.intent = <<>>)
    BY <1>4, <1>6, <2>1, <2>3, AssembledShown
  <2> QED  BY <2>2, <2>3
<1>8. TicketsOK'
  BY <1>3 DEF TicketsOK
<1>9. Showing'
  BY <1>3, <1>7, <1>8 DEF Showing, RenderedDescribesState
<1>10. Saved'
  BY <1>1, <1>3, <1>4, <1>6, EmptySound DEF Saved
<1>11. Held'
  BY <1>3, <1>5 DEF Held, Known, Resumes, Elements, Refreshes, Aheads, NoRefresh, NoAhead
<1>12. ClaimIsCurrent' /\ Answered' /\ ~overtaken'
  BY <1>3 DEF ClaimIsCurrent, Answered
<1> QED  BY <1>9, <1>10, <1>11, <1>12 DEF IInv

\* Fetching ahead.
LEMMA AheadStepKeeps ==
    ASSUME IInv,
           \/ \E nearEnd \in BOOLEAN : Tick(nearEnd)
           \/ \E f \in Files, found \in BOOLEAN : PrefetchLands(f, found)
    PROVE  IInv'
<1>1. Showing /\ Saved /\ Held /\ ClaimIsCurrent /\ Answered /\ (overtaken => resuming = NoResume)
  BY DEF IInv
<1>2. /\ UNCHANGED queueVars
      /\ UNCHANGED <<claimed, audio, starts, refresh, crossed, resuming>>
  BY DEF Tick, PrefetchLands, sourceVars, memVars
<1>3. /\ playerMem' \in Known /\ lookahead' \in Aheads /\ prefetches' \subseteq Files
  <2>1. ASSUME NEW nearEnd \in BOOLEAN, Tick(nearEnd)
        PROVE  /\ playerMem' \in Known /\ lookahead' \in Aheads /\ prefetches' \subseteq Files
    <3>1. playerMem' \in Known
      BY <1>1, <2>1 DEF Tick, SavePlayerMemory, Held
    <3>2. CASE nearEnd /\ Len(rendered) > 1 /\ rendered[2].file # lookahead.file
      <4> DEFINE next == rendered[2].file
      <4>1. lookahead' = [file |-> next, ready |-> FALSE] /\ prefetches' = prefetches \cup {next}
        BY <2>1, <3>2 DEF Tick
      <4>2. next \in Files
        <5>1. rendered \in Seq(Entries)
          BY <1>1 DEF Showing, Queues, Lists1
        <5>2. rendered[2] \in Entries
          BY <3>2, <5>1
        <5> QED  BY <5>2 DEF Entries
      <4> HIDE DEF next
      <4> QED  BY <1>1, <3>1, <4>1, <4>2 DEF Held, Aheads, Known
    <3>3. CASE ~(nearEnd /\ Len(rendered) > 1 /\ rendered[2].file # lookahead.file)
      BY <1>1, <2>1, <3>1, <3>3 DEF Tick, Held, aheadVars
    <3> QED  BY <3>2, <3>3
  <2>2. ASSUME NEW f \in Files, NEW found \in BOOLEAN, PrefetchLands(f, found)
        PROVE  /\ playerMem' \in Known /\ lookahead' \in Aheads /\ prefetches' \subseteq Files
    <3>1. /\ prefetches' = prefetches \ {f} /\ playerMem' = playerMem
          /\ lookahead' = IF lookahead.file = f THEN [lookahead EXCEPT !.ready = found] ELSE lookahead
      BY <2>2 DEF PrefetchLands, memVars
    <3>2. lookahead' \in Aheads
      BY <1>1, <3>1, NothingAssumption DEF Held, Aheads
    <3> QED  BY <1>1, <3>1, <3>2 DEF Held
  <2> QED  BY <2>1, <2>2
<1>4. Showing' /\ Saved' /\ overtaken' = overtaken /\ st' = st
  BY <1>1, <1>2, StillShown
<1>5. Held'
  BY <1>1, <1>2, <1>3 DEF Held
<1>6. ClaimIsCurrent' /\ Answered'
  BY <1>1, <1>2, <1>4 DEF ClaimIsCurrent, Answered
<1> QED  BY <1>1, <1>2, <1>4, <1>5, <1>6 DEF IInv

\* A row that is chosen, taken out or moved is a position of the queue.
LEMMA RowFacts ==
    ASSUME IInv, NEW i \in Rows
    PROVE  i \in Nat /\ i < Len(rendered)
<1>1. Len(rendered) \in Nat
  BY DEF IInv, Showing, Queues, Lists1
<1> QED  BY <1>1 DEF Rows

\* Every step keeps the invariant.
LEMMA NextIInv == IInv /\ [Next]_vars => IInv'
<1> SUFFICES ASSUME IInv, [Next]_vars  PROVE IInv'
  OBVIOUS
<1>0. /\ Sound(st) /\ rendered \in Queues /\ Showing /\ Held /\ ClaimIsCurrent /\ Answered /\ Saved
      /\ overtaken => resuming = NoResume
  BY DEF IInv, Showing
<1>00. audio \in Elements /\ crossed \in BOOLEAN /\ refresh \in Refreshes
  BY <1>0 DEF Held
<1>1. ASSUME NEW t \in tickets, HydrationLands(t)  PROVE IInv'
  <2>1. Showing' /\ (overtaken' => overtaken) /\ lookahead' \in {lookahead, NoAhead}
    BY <1>0, <1>1, LandingKeeps
  <2>2. UNCHANGED <<st, queueMem, claimed, audio, starts, refresh, crossed, prefetches, resuming, playerMem>>
    BY <1>1 DEF HydrationLands, sourceVars, memVars
  <2>3. lookahead' \in Aheads
    BY <1>0, <2>1, AheadKeeps DEF Held
  <2>4. Saved' /\ Held' /\ ClaimIsCurrent' /\ Answered'
    BY <1>0, <2>2, <2>3 DEF Saved, Held, ClaimIsCurrent, Answered
  <2> QED  BY <1>0, <2>1, <2>2, <2>4 DEF IInv
<1>2. ASSUME NEW list \in Lists, PlayCrate(list)  PROVE IInv'
  <2> DEFINE e == [type |-> "PLAY_CRATE", list |-> Entered(list, "pin")]
  <2>1. list # <<>> /\ Play(e)
    BY <1>2 DEF PlayCrate
  <2>2. Sound(Reduce(st, e)) /\ Reduce(st, e).current \in Entries
    BY <1>0, <2>1, PlayCrateSound
  <2> HIDE DEF e
  <2> QED  BY <2>1, <2>2, PlayKeeps
<1>3. ASSUME NEW list \in Lists, Add(list)  PROVE IInv'
  <2> DEFINE e == [type |-> "ADD_TO_QUEUE", list |-> Entered(list, "pin")]
  <2>1. JustApply(e)
    BY <1>3 DEF Add
  <2>2. Sound(Reduce(st, e)) /\ Reduce(st, e).current = st.current
    BY <1>0, QuietSound
  <2> HIDE DEF e
  <2> QED  BY <2>1, <2>2, QuietKeeps
<1>4. ASSUME NEW list \in Lists, NEW f \in Range(list), PlayRow(list, f)  PROVE IInv'
  <2> DEFINE e == [type |-> "PLAY_TRACK", file |-> f, list |-> Entered(list, "pin")]
  <2>1. Play(e)
    BY <1>4 DEF PlayRow
  <2>2. Sound(Reduce(st, e)) /\ Reduce(st, e).current \in Entries
    BY <1>0, PlayRowSound
  <2> HIDE DEF e
  <2> QED  BY <2>1, <2>2, PlayKeeps
<1>5. CASE Skip
  <2> DEFINE e == [type |-> "SKIP", queue |-> rendered]
  <2>1. HandleAdvance(e, audio, crossed) /\ refresh' = refresh
    BY <1>5 DEF Skip
  <2>2. Sound(Reduce(st, e))
    BY <1>0, AdvancingSound
  <2> HIDE DEF e
  <2>3. claimed # Nothing /\ ~crossed => audio.src = claimed \/ starts[claimed] > 0
    BY <1>0 DEF Answered
  <2> QED  BY <1>0, <1>00, <2>1, <2>2, <2>3, AdvanceKeeps
<1>6. ASSUME NEW i \in Rows, Select(i)  PROVE IInv'
  <2> DEFINE e == [type |-> "SELECT_QUEUE_ENTRY", index |-> i, queue |-> rendered]
  <2>1. HandleAdvance(e, audio, crossed) /\ refresh' = refresh
    BY <1>6 DEF Select
  <2>2. i \in Nat
    BY RowFacts
  <2>3. Sound(Reduce(st, e))
    BY <1>0, <2>2, AdvancingSound
  <2> HIDE DEF e
  <2>4. claimed # Nothing /\ ~crossed => audio.src = claimed \/ starts[claimed] > 0
    BY <1>0 DEF Answered
  <2> QED  BY <1>0, <1>00, <2>1, <2>3, <2>4, AdvanceKeeps
<1>7. ASSUME NEW i \in Rows, RemoveRow(i)  PROVE IInv'
  <2> DEFINE e == [type |-> "REMOVE_QUEUE_ENTRY", index |-> i, queue |-> rendered]
  <2>1. JustApply(e)
    BY <1>7 DEF RemoveRow
  <2>2. i \in Nat
    BY RowFacts
  <2>3. Sound(Reduce(st, e)) /\ Reduce(st, e).current = st.current
    BY <1>0, <2>2, QuietSound
  <2> HIDE DEF e
  <2> QED  BY <2>1, <2>3, QuietKeeps
<1>8. ASSUME NEW i \in Rows, NEW to \in 0 .. Len(rendered) - 1, Move(i, to)  PROVE IInv'
  <2> DEFINE e == [type |-> "MOVE_QUEUE_ENTRY", index |-> i, to |-> to, queue |-> rendered]
  <2>1. JustApply(e)
    BY <1>8 DEF Move
  <2>2. i \in Nat /\ to \in Int
    BY RowFacts
  <2>3. Sound(Reduce(st, e)) /\ Reduce(st, e).current = st.current
    BY <1>0, <2>2, QuietSound
  <2> HIDE DEF e
  <2> QED  BY <2>1, <2>3, QuietKeeps
<1>9. ASSUME NEW m \in Methods, SetMethod(m)  PROVE IInv'
  <2> DEFINE e == [type |-> "SET_METHOD", method |-> m]
  <2>1. JustApply(e)
    BY <1>9 DEF SetMethod
  <2>2. Sound(Reduce(st, e)) /\ Reduce(st, e).current = st.current
    BY <1>0, QuietSound
  <2> HIDE DEF e
  <2> QED  BY <2>1, <2>2, QuietKeeps
<1>10. CASE Clear
  <2> DEFINE e == [type |-> "CLEAR_QUEUE"]
  <2>1. JustApply(e)
    BY <1>10 DEF Clear
  <2>2. Sound(Reduce(st, e)) /\ Reduce(st, e).current = st.current
    BY <1>0, QuietSound
  <2> HIDE DEF e
  <2> QED  BY <2>1, <2>2, QuietKeeps
<1>11. CASE OpenDrawer
  <2>1. /\ HydrateIfDeferred
        /\ UNCHANGED <<st, queueMem, claimed, audio, starts, refresh, crossed, prefetches, resuming, playerMem>>
    BY <1>11 DEF OpenDrawer, sourceVars, memVars
  <2>2. Showing' /\ Saved' /\ (overtaken' => overtaken) /\ lookahead' \in {lookahead, NoAhead}
    BY <1>0, <2>1, HydrateIfDeferredKeeps
  <2>3. lookahead' \in Aheads
    BY <1>0, <2>2, AheadKeeps DEF Held
  <2>4. Held' /\ ClaimIsCurrent' /\ Answered'
    BY <1>0, <2>1, <2>3 DEF Held, ClaimIsCurrent, Answered
  <2> QED  BY <1>0, <2>1, <2>2, <2>4 DEF IInv
<1>12. CASE UNCHANGED vars
  <2>1. /\ UNCHANGED queueVars
        /\ UNCHANGED <<claimed, audio, starts, refresh, crossed, lookahead, prefetches, resuming, playerMem>>
    BY <1>12 DEF vars, queueVars, tailVars
  <2>2. Showing' /\ Saved' /\ overtaken' = overtaken /\ st' = st
    BY <1>0, <2>1, StillShown
  <2>3. Held' /\ ClaimIsCurrent' /\ Answered'
    BY <1>0, <2>1, <2>2 DEF Held, ClaimIsCurrent, Answered
  <2> QED  BY <1>0, <2>1, <2>2, <2>3 DEF IInv
<1> QED
  BY <1>1, <1>2, <1>3, <1>4, <1>5, <1>6, <1>7, <1>8, <1>9, <1>10, <1>11, <1>12,
     StartLandsKeeps, ToggleKeeps, SourceFailsKeeps, RefreshLandsKeeps, EndedKeeps,
     ResumeAnswersKeeps, ResumeKeeps, ReloadKeeps, AheadStepKeeps DEF Next

\* The invariant holds of the page at every moment of its life.
LEMMA Invariant == Spec => []IInv
BY InitIInv, NextIInv, PTL DEF Spec

(***************************************************************************)
(* What the invariant says.                                                *)
(***************************************************************************)

\* Every variable keeps the shape its readers in site.ts count on.
THEOREM PlaybackTypeOK == Spec => []TypeOK
<1>1. IInv => TypeOK
  <2> SUFFICES ASSUME IInv  PROVE TypeOK
    OBVIOUS
  <2>1. /\ st \in States /\ Len(st.intent) <= Slots(st)
        /\ Len(st.history) <= HistoryMax /\ Len(st.failed) <= HistoryMax
        /\ Len(st.suppressed) <= HistoryMax
    BY DEF IInv, Showing, Sound, PinsFit
  <2>2. /\ st.current \in Entries \cup {Nothing} /\ st.method \in Methods
        /\ st.intent \in Seq(Entries) /\ Len(st.intent) \in Nat /\ Len(st.intent) <= QueueMax
    <3>1. Slots(st) <= QueueMax
      BY SizesAssumption DEF Slots
    <3>2. Slots(st) \in Nat /\ QueueMax \in Nat
      BY <2>1, SizesAssumption, StateFields
    <3> QED  BY <2>1, <3>1, <3>2, StateFields
  <2>3. rendered \in Seq(Entries) /\ Len(rendered) \in Nat /\ Len(rendered) <= QueueMax
    BY DEF IInv, Showing, Queues, Lists1
  <2>4. ASSUME NEW q \in Seq(Entries), Len(q) \in Nat, Len(q) <= QueueMax
        PROVE  q \in QueueEntries
    <3>1. Len(q) \in 0 .. QueueMax /\ q \in [1 .. Len(q) -> Entries]
      BY <2>4, SizesAssumption
    <3> QED  BY <3>1 DEF QueueEntries
  <2>5. st.intent \in QueueEntries /\ rendered \in QueueEntries
    BY <2>2, <2>3, <2>4
  <2>6. \A h \in {st.history, st.failed, st.suppressed} : Len(h) <= HistoryMax
    BY <2>1
  <2>7. /\ claimed \in Files \cup {Nothing} /\ audio.src \in Files \cup {Nothing}
        /\ lookahead.file = Nothing => ~lookahead.ready
        /\ resuming.body => resuming.file # Nothing
    BY DEF IInv, Held, Known, Elements, Aheads, Resumes
  <2>8. \A t \in tickets : t.seq \in 1 .. regenSeq
    BY DEF IInv, Showing, TicketsOK
  <2> QED  BY <2>2, <2>5, <2>6, <2>7, <2>8 DEF TypeOK
<1> QED  BY <1>1, Invariant, PTL

\* A queue without a file twice has as many files as entries.
LEMMA DistinctCounted ==
    ASSUME NEW queue \in Seq(Entries), Distinct(queue)
    PROVE  Cardinality(FilesOf(queue)) = Len(queue)
<1> DEFINE m == [i \in 1 .. Len(queue) |-> queue[i].file]
<1>1. Len(queue) \in Nat /\ DOMAIN queue = 1 .. Len(queue)
  OBVIOUS
<1>2. \A a, b \in 1 .. Len(queue) : queue[a].file = queue[b].file => a = b
  BY <1>1 DEF Distinct
<1>3. m \in Bijection(1 .. Len(queue), FilesOf(queue))
  <2>1. m \in [1 .. Len(queue) -> FilesOf(queue)]
    BY <1>1 DEF FilesOf
  <2>2. \A a, b \in 1 .. Len(queue) : m[a] = m[b] => a = b
    BY <1>2
  <2>3. \A f \in FilesOf(queue) : \E a \in 1 .. Len(queue) : m[a] = f
    BY <1>1 DEF FilesOf
  <2> HIDE DEF m
  <2> QED  BY <2>1, <2>2, <2>3 DEF Bijection, Injection, Surjection, IsInjective
<1> HIDE DEF m
<1> QED  BY <1>1, <1>3, FS_CountingElements DEF ExistsBijection

\* No file is twice in the queue, in the state or on the screen, and the pins
\* leave room for the current track.
THEOREM NoFileTwice == Spec => []OneOfEach
<1>1. IInv => OneOfEach
  <2> SUFFICES ASSUME IInv  PROVE OneOfEach
    OBVIOUS
  <2> DEFINE pins == st.intent
             head == IF st.current = Nothing THEN <<>> ELSE <<st.current>>
             at == FirstAddressable(st)
             whole == head \o pins
  <2>1. st \in States /\ PinsFit(st)
    BY DEF IInv, Showing, Sound
  <2>2. /\ pins \in Seq(Entries) /\ Len(pins) \in Nat /\ Len(pins) <= Slots(st)
        /\ Slots(st) = QueueMax - at /\ at \in {0, 1} /\ Distinct(pins)
        /\ DOMAIN pins = 1 .. Len(pins)
        /\ st.current # Nothing => \A i \in DOMAIN pins : pins[i].file # st.current.file
    BY <2>1, StateFields DEF PinsFit
  <2>3. /\ head \in Seq(Entries) /\ Len(head) = at
        /\ at = 1 => st.current # Nothing /\ head[1] = st.current
    BY <2>1, StateFields DEF FirstAddressable
  <2> HIDE DEF pins, head, at
  <2>4. /\ whole \in Seq(Entries) /\ Len(whole) = at + Len(pins)
        /\ \A i \in 1 .. at + Len(pins) : whole[i] = IF i <= at THEN head[i] ELSE pins[i - at]
    BY <2>2, <2>3, ConcatProperties
  <2>5. Len(whole) <= QueueMax
    BY <2>2, <2>4, SizesAssumption
  <2> HIDE DEF whole
  <2>6. Distinct(whole)
    <3> SUFFICES ASSUME NEW i \in 1 .. Len(whole), NEW j \in 1 .. Len(whole),
                        whole[i].file = whole[j].file
                 PROVE  i = j
      BY <2>4 DEF Distinct
    <3>1. /\ i \in 1 .. at + Len(pins) /\ j \in 1 .. at + Len(pins)
          /\ whole[i] = (IF i <= at THEN head[i] ELSE pins[i - at])
          /\ whole[j] = (IF j <= at THEN head[j] ELSE pins[j - at])
      BY <2>4
    <3>2. ASSUME NEW k \in 1 .. at + Len(pins), ~(k <= at)
          PROVE  k - at \in DOMAIN pins
      BY <2>2, <3>2
    <3>3. CASE i <= at /\ j <= at
      BY <2>2, <3>1, <3>3
    <3>4. CASE i <= at /\ ~(j <= at)
      <4>1. i = 1 /\ at = 1
        BY <2>2, <3>1, <3>4
      <4>2. whole[i] = st.current /\ whole[j] = pins[j - at] /\ j - at \in DOMAIN pins
        BY <2>3, <3>1, <3>2, <3>4, <4>1
      <4> QED  BY <2>2, <2>3, <4>1, <4>2
    <3>5. CASE ~(i <= at) /\ j <= at
      <4>1. j = 1 /\ at = 1
        BY <2>2, <3>1, <3>5
      <4>2. whole[j] = st.current /\ whole[i] = pins[i - at] /\ i - at \in DOMAIN pins
        BY <2>3, <3>1, <3>2, <3>5, <4>1
      <4> QED  BY <2>2, <2>3, <4>1, <4>2
    <3>6. CASE ~(i <= at) /\ ~(j <= at)
      <4>1. i - at \in DOMAIN pins /\ j - at \in DOMAIN pins
            /\ whole[i] = pins[i - at] /\ whole[j] = pins[j - at]
        BY <3>1, <3>2, <3>6
      <4>2. i - at = j - at
        BY <2>2, <4>1 DEF Distinct
      <4> QED  BY <2>2, <3>1, <4>2
    <3> QED  BY <3>3, <3>4, <3>5, <3>6
  <2>7. Cardinality(FilesOf(whole)) = Len(whole)
    BY <2>4, <2>6, DistinctCounted
  <2>8. Cardinality(FilesOf(rendered)) = Len(rendered)
    BY DistinctCounted DEF IInv, Showing, Queues, Lists1
  <2> QED  BY <2>5, <2>7, <2>8 DEF OneOfEach, whole, head, pins
<1> QED  BY <1>1, Invariant, PTL

\* The file the transport answers for is the queue's current track.
THEOREM ClaimFollowsQueue == Spec => []ClaimIsCurrent
<1>1. IInv => ClaimIsCurrent
  BY DEF IInv
<1> QED  BY <1>1, Invariant, PTL

\* The queue on the screen is the state's, whichever answers came and in
\* whatever order, but for the one a resume has overtaken.
THEOREM ScreenTellsState == Spec => []RenderedDescribesState
<1>1. IInv => RenderedDescribesState
  BY DEF IInv, Showing
<1> QED  BY <1>1, Invariant, PTL

\* When every start has landed, the element holds the claimed file, unless one
\* failed or a refreshed source of another file was put in its place.
THEOREM ElementHoldsClaim == Spec => []SourceFollowsClaim
<1>1. IInv => SourceFollowsClaim
  <2> SUFFICES ASSUME IInv, claimed # Nothing, \A f \in Files : starts[f] = 0, ~crossed
               PROVE  audio.src = claimed
    BY DEF SourceFollowsClaim
  <2>1. claimed \in Files /\ (audio.src = claimed \/ starts[claimed] > 0)
    BY DEF IInv, Held, Known, Answered
  <2> QED  BY <2>1
<1> QED  BY <1>1, Invariant, PTL

\* The queue after the first pin has become current holds the other pins.
LEMMA NextPins ==
    ASSUME NEW s, Sound(s), s.current # Nothing, s.intent # <<>>, NEW auto \in Tails
    PROVE  LET after == AdvanceTo(s, AssembleQueue(s, auto), 1)
           IN  after.current = AsCurrent(Head(s.intent)) /\ after.intent = Tail(s.intent)
<1> DEFINE queue == AssembleQueue(s, auto)
           pins == s.intent
           tail == FreshTail(s, auto)
           p == Len(s.intent)
           rest == Tail(pins)
           I == {i \in 3 .. Len(queue) : queue[i].file \in FilesOf(pins)}
<1>1. s \in States /\ PinsFit(s) /\ auto \in Seq(Entries)
  BY DEF Sound, Tails
<1>2. FirstAddressable(s) = 1
  BY DEF FirstAddressable
<1>3. /\ pins \in Seq(Entries) /\ p \in Nat /\ 1 <= p /\ DOMAIN pins = 1 .. p
      /\ tail \in Seq(Entries) /\ Len(tail) \in Nat
  BY <1>1, StateFields, TailFacts
<1>4. /\ queue \in Seq(Entries) /\ Len(queue) = 1 + p + Len(tail)
      /\ \A i \in 1 .. p : queue[1 + i] = pins[i]
      /\ \A i \in 1 .. Len(tail) : queue[1 + p + i] = tail[i]
  <2> DEFINE at == FirstAddressable(s)
  <2>1. /\ queue \in Seq(Entries) /\ Len(queue) = at + p + Len(tail)
        /\ \A i \in 1 .. p : queue[at + i] = pins[i]
        /\ \A i \in 1 .. Len(tail) : queue[at + p + i] = tail[i]
    BY <1>1, Assembled
  <2> HIDE DEF queue, tail, pins, p
  <2> QED  BY <1>2, <2>1
<1>5. ASSUME NEW l \in 1 .. Len(tail)  PROVE tail[l].file \notin FilesOf(pins)
  <2>1. tail[l] \in Entries /\ ~IsTaken(ExcludedKeys(s), tail[l])
    BY <1>1, <1>3, TailFacts
  <2> QED  BY <1>1, <2>1, StateExcludes DEF FilesOf
<1>6. rest \in Seq(Entries) /\ Len(rest) = p - 1 /\ \A k \in 1 .. p - 1 : rest[k] = pins[k + 1]
  BY <1>3
<1>7. AdvanceTo(s, queue, 1).current = (IF 1 < Len(queue) THEN AsCurrent(queue[1 + 1]) ELSE Nothing)
      /\ AdvanceTo(s, queue, 1).intent
            = Only(queue, {i \in 1 + 2 .. Len(queue) : queue[i].file \in FilesOf(s.intent)})
  BY DEF AdvanceTo, Playing
<1>8. I = {i \in 1 + 2 .. Len(queue) : queue[i].file \in FilesOf(s.intent)}
  OBVIOUS
<1> HIDE DEF queue, tail, pins, p, rest
<1>9. ASSUME NEW i \in I  PROVE i \in 3 .. p + 1
  <2>1. i \in Nat /\ 3 <= i /\ i <= 1 + p + Len(tail) /\ queue[i].file \in FilesOf(pins)
    BY <1>3, <1>4
  <2>2. ASSUME i > p + 1  PROVE FALSE
    <3> DEFINE l == i - (1 + p)
    <3>1. l \in 1 .. Len(tail) /\ 1 + p + l = i
      BY <1>3, <2>1, <2>2
    <3> HIDE DEF l
    <3>2. queue[i] = tail[l]
      BY <1>4, <3>1
    <3> QED  BY <1>5, <2>1, <3>1, <3>2
  <2> QED  BY <1>3, <2>1, <2>2
<1>10. ASSUME NEW k \in 1 .. p - 1  PROVE k + 2 \in I /\ rest[k] = queue[k + 2]
  <2>1. k \in Nat /\ k + 1 \in 1 .. p /\ k + 2 \in 3 .. Len(queue) /\ 1 + (k + 1) = k + 2
    BY <1>3, <1>4
  <2>2. queue[1 + (k + 1)] = pins[k + 1]
    BY <1>4, <2>1
  <2>3. pins[k + 1].file \in FilesOf(pins)
    BY <1>3, <2>1 DEF FilesOf
  <2> QED  BY <1>6, <2>1, <2>2, <2>3
<1>11. Only(queue, I) = rest
  <2> DEFINE g == [k \in 1 .. Len(rest) |-> k + 2]
  <2>1. g \in [1 .. Len(rest) -> I]
    BY <1>6, <1>10
  <2>2. \A a, b \in 1 .. Len(rest) : a < b => g[a] < g[b]
    BY <1>3, <1>6
  <2>3. \A i \in I : \E n \in 1 .. Len(rest) : g[n] = i
    <3> SUFFICES ASSUME NEW i \in I  PROVE \E n \in 1 .. Len(rest) : g[n] = i
      OBVIOUS
    <3>1. i - 2 \in 1 .. Len(rest) /\ (i - 2) + 2 = i
      BY <1>3, <1>6, <1>9
    <3>2. g[i - 2] = i
      BY <3>1
    <3> QED  BY <3>1, <3>2
  <2>4. \A n \in 1 .. Len(rest) : rest[n] = queue[g[n]]
    BY <1>6, <1>10
  <2>5. I \in SUBSET DOMAIN queue
    BY <1>4
  <2>6. queue \in Seq(Entries) /\ rest \in Seq(Entries)
    BY <1>4, <1>6
  <2> HIDE DEF g, I
  <2> QED  BY ONLY <2>6, <2>1, <2>2, <2>3, <2>4, <2>5, OnlyIs
<1>12. 1 < Len(queue) /\ queue[1 + 1] = pins[1] /\ pins[1] = Head(pins)
  BY <1>3, <1>4
<1>13. AdvanceTo(s, queue, 1).current = AsCurrent(Head(pins))
  BY <1>7, <1>12
<1>14. AdvanceTo(s, queue, 1).intent = rest
  BY <1>7, <1>8, <1>11
<1> QED  BY <1>13, <1>14 DEF queue, pins, rest

\* When a track ends or is skipped, the first pin plays next and no pin is
\* lost, although the event names a position of the queue on the screen.
THEOREM FirstPinPlaysNext == Spec => AdvanceTakesFirstPin
<1> DEFINE Step == (Ended \/ Skip) /\ st.current # Nothing /\ ~overtaken /\ st.intent # <<>>
                   => st'.current = AsCurrent(Head(st.intent)) /\ st'.intent = Tail(st.intent)
<1>1. IInv /\ [Next]_vars => [Step]_vars
  <2> SUFFICES ASSUME IInv, Ended \/ Skip, st.current # Nothing, ~overtaken, st.intent # <<>>
               PROVE  st'.current = AsCurrent(Head(st.intent)) /\ st'.intent = Tail(st.intent)
    OBVIOUS
  <2>1. /\ Sound(st) /\ rendered = AssembleQueue(st, AutoTail(rendered))
        /\ AutoTail(rendered) \in Tails
    BY AutoTailFacts DEF IInv, Showing, RenderedDescribesState, Queues, Lists1
  <2>2. st' = AdvanceTo(st, rendered, 1)
    <3>1. CASE Ended
      <4>1. st' = Reduce(st, [type |-> "TRACK_ENDED", queue |-> rendered])
        BY <3>1 DEF Ended, HandleAdvance, Apply
      <4> QED  BY <4>1, Reductions
    <3>2. CASE Skip
      <4>1. st' = Reduce(st, [type |-> "SKIP", queue |-> rendered])
        BY <3>2 DEF Skip, HandleAdvance, Apply
      <4> QED  BY <4>1, Reductions
    <3> QED  BY <3>1, <3>2
  <2>3. LET after == AdvanceTo(st, AssembleQueue(st, AutoTail(rendered)), 1)
        IN  after.current = AsCurrent(Head(st.intent)) /\ after.intent = Tail(st.intent)
    BY <2>1, NextPins
  <2> QED  BY <2>1, <2>2, <2>3
<1> QED  BY <1>1, Invariant, PTL DEF Spec, AdvanceTakesFirstPin

\* A reload within a fortnight gives the member the queue they left.
THEOREM ReloadRestores == Spec => ReloadKeepsQueue
<1> DEFINE Step == (\E unloads \in BOOLEAN, aged \in SUBSET {"player"} : Reload(unloads, aged))
                   /\ (st.current # Nothing \/ st.intent # <<>>)
                   => /\ st'.current = st.current /\ st'.intent = st.intent
                      /\ st'.method = st.method /\ st'.history = st.history
<1>1. IInv /\ [Next]_vars => [Step]_vars
  <2> SUFFICES ASSUME IInv, NEW unloads \in BOOLEAN, NEW aged \in SUBSET {"player"},
                      Reload(unloads, aged), st.current # Nothing \/ st.intent # <<>>
               PROVE  /\ st'.current = st.current /\ st'.intent = st.intent
                      /\ st'.method = st.method /\ st'.history = st.history
    OBVIOUS
  <2> DEFINE stale == "queue" \in aged
             restored == RestoredState(queueMem, stale)
  <2>1. ~stale /\ stale \in BOOLEAN /\ Saved
    BY DEF IInv
  <2>2. IF restored.current = Nothing /\ restored.intent = <<>>
        THEN st' = EmptyState ELSE st' = restored
    BY DEF Reload
  <2> HIDE DEF stale
  <2>3. /\ queueMem # Nothing
        /\ queueMem.current = st.current /\ queueMem.intent = st.intent
        /\ queueMem.method = st.method /\ queueMem.history = st.history
    BY <2>1 DEF Saved
  <2>4. /\ restored.current = queueMem.current /\ restored.intent = queueMem.intent
        /\ restored.method = queueMem.method /\ restored.history = queueMem.history
    BY <2>1, <2>3, RestoredFacts
  <2> HIDE DEF restored
  <2> QED  BY <2>2, <2>3, <2>4
<1> QED  BY <1>1, Invariant, PTL DEF Spec, ReloadKeepsQueue
=============================================================================
