---------------------------- MODULE StrategyProofs ----------------------------
(***************************************************************************)
(* The automatic tail of the queue, for any pool, any draws of the         *)
(* generator and any number of free slots.                                 *)
(*                                                                         *)
(* Both orders the code sorts by are strict and total (Orders), so a list  *)
(* of tracks has one best entry wherever it stands.  Each loop is then     *)
(* followed round by round (LoopWithin): the walk (Walked), the shuffled   *)
(* deck, and the collapse to one copy of each recording (Kept).  What they *)
(* return is a matter of what the offer names and not of its order, and    *)
(* that is what TailIsChain says.                                          *)
(***************************************************************************)
EXTENDS Strategies, DataProofs

Seeds == Catalogue \cup {NoSeed}

\* What is known of a track.
LEMMA FeaturesOf ==
    /\ \A t \in Catalogue :
           /\ t.id \in Nat \ {0} /\ t.rec \in Nat /\ t.num \in 0 .. 12 /\ t.letter \in {"A", "B"}
           /\ t.bpm \in Nat /\ t.likes \in Nat /\ t.created \in Nat /\ t.tier \in Int
    /\ \A s \in Seeds :
           /\ s.id \in Nat /\ s.rec \in Nat /\ s.num \in 0 .. 12 /\ s.letter \in {"A", "B"} /\ s.bpm \in Nat
           /\ s.id \in {0} \cup {t.id : t \in Catalogue}
    /\ \A t, u \in Catalogue : t.id = u.id => t = u
    /\ IsFiniteSet(Catalogue) /\ Cardinality(Catalogue) \in Nat
<1>1. \A t \in Catalogue : t \in TrackFeatures
  BY StrategiesAssumption
<1>2. \A t \in TrackFeatures :
           /\ t.id \in Nat \ {0} /\ t.rec \in Nat /\ t.num \in 0 .. 12 /\ t.letter \in {"A", "B"}
           /\ t.bpm \in Nat /\ t.likes \in Nat /\ t.created \in Nat /\ t.tier \in Int
  BY DEF TrackFeatures
<1>3. /\ NoSeed.id = 0 /\ NoSeed.rec = 0 /\ NoSeed.num = 0 /\ NoSeed.letter = "A" /\ NoSeed.bpm = 0
  BY DEF NoSeed
<1>4. Cardinality(Catalogue) \in Nat
  BY StrategiesAssumption, FS_CardinalityType
<1>5. ASSUME NEW s \in Seeds
      PROVE  /\ s.id \in Nat /\ s.rec \in Nat /\ s.num \in 0 .. 12 /\ s.letter \in {"A", "B"} /\ s.bpm \in Nat
             /\ s.id \in {0} \cup {t.id : t \in Catalogue}
  <2>1. CASE s \in Catalogue
    BY <1>1, <1>2, <2>1
  <2>2. CASE s = NoSeed
    BY <1>3, <2>2
  <2> QED  BY <2>1, <2>2 DEF Seeds
<1> QED  BY <1>1, <1>2, <1>4, <1>5, StrategiesAssumption

-----------------------------------------------------------------------------
(* The orders.                                                             *)

\* Four numbers, compared one after another.
LEMMA LexLessOfFour ==
    ASSUME NEW a, NEW b, NEW c, NEW d, NEW x, NEW y, NEW z, NEW w
    PROVE  LexLess(<<a, b, c, d>>, <<x, y, z, w>>) <=>
               \/ a < x \/ (a = x /\ b < y) \/ (a = x /\ b = y /\ c < z)
               \/ (a = x /\ b = y /\ c = z /\ d < w)
<1> DEFINE v == <<a, b, c, d>>
           u == <<x, y, z, w>>
<1>1. /\ DOMAIN v = 1 .. 4 /\ v[1] = a /\ v[2] = b /\ v[3] = c /\ v[4] = d
      /\ u[1] = x /\ u[2] = y /\ u[3] = z /\ u[4] = w
  OBVIOUS
<1> HIDE DEF v, u
<1>2. \A i : i \in 1 .. 4 <=> i = 1 \/ i = 2 \/ i = 3 \/ i = 4
  OBVIOUS
<1>3. /\ \A j : j \in 1 .. 1 - 1 <=> FALSE
      /\ \A j : j \in 1 .. 2 - 1 <=> j = 1
      /\ \A j : j \in 1 .. 3 - 1 <=> j = 1 \/ j = 2
      /\ \A j : j \in 1 .. 4 - 1 <=> j = 1 \/ j = 2 \/ j = 3
  OBVIOUS
<1>4. LexLess(v, u) <=> \/ a < x \/ (a = x /\ b < y) \/ (a = x /\ b = y /\ c < z)
                        \/ (a = x /\ b = y /\ c = z /\ d < w)
  <2> DEFINE Less(i) == v[i] < u[i] /\ \A j \in 1 .. i - 1 : v[j] = u[j]
  <2>1. LexLess(v, u) <=> Less(1) \/ Less(2) \/ Less(3) \/ Less(4)
    BY <1>1, <1>2 DEF LexLess
  <2>2. /\ Less(1) <=> a < x
        /\ Less(2) <=> (a = x /\ b < y)
        /\ Less(3) <=> (a = x /\ b = y /\ c < z)
        /\ Less(4) <=> (a = x /\ b = y /\ c = z /\ d < w)
    BY <1>1, <1>3
  <2> HIDE DEF Less
  <2> QED  BY <2>1, <2>2
<1> QED  BY <1>4 DEF v, u

\* Three.
LEMMA LexLessOfThree ==
    ASSUME NEW a, NEW b, NEW c, NEW x, NEW y, NEW z
    PROVE  LexLess(<<a, b, c>>, <<x, y, z>>) <=>
               a < x \/ (a = x /\ b < y) \/ (a = x /\ b = y /\ c < z)
<1> DEFINE v == <<a, b, c>>
           u == <<x, y, z>>
<1>1. /\ DOMAIN v = 1 .. 3 /\ v[1] = a /\ v[2] = b /\ v[3] = c
      /\ u[1] = x /\ u[2] = y /\ u[3] = z
  OBVIOUS
<1> HIDE DEF v, u
<1>2. \A i : i \in 1 .. 3 <=> i = 1 \/ i = 2 \/ i = 3
  OBVIOUS
<1>3. /\ \A j : j \in 1 .. 1 - 1 <=> FALSE
      /\ \A j : j \in 1 .. 2 - 1 <=> j = 1
      /\ \A j : j \in 1 .. 3 - 1 <=> j = 1 \/ j = 2
  OBVIOUS
<1>4. LexLess(v, u) <=> a < x \/ (a = x /\ b < y) \/ (a = x /\ b = y /\ c < z)
  <2> DEFINE Less(i) == v[i] < u[i] /\ \A j \in 1 .. i - 1 : v[j] = u[j]
  <2>1. LexLess(v, u) <=> Less(1) \/ Less(2) \/ Less(3)
    BY <1>1, <1>2 DEF LexLess
  <2>2. /\ Less(1) <=> a < x
        /\ Less(2) <=> (a = x /\ b < y)
        /\ Less(3) <=> (a = x /\ b = y /\ c < z)
    BY <1>1, <1>3
  <2> HIDE DEF Less
  <2> QED  BY <2>1, <2>2
<1> QED  BY <1>4 DEF v, u

\* A strict total order of the tracks.
Orders(R) ==
    /\ \A t \in Catalogue : <<t, t>> \notin R
    /\ \A t, u \in Catalogue : t # u => <<t, u>> \in R \/ <<u, t>> \in R
    /\ \A t, u, v \in Catalogue : <<t, u>> \in R /\ <<u, v>> \in R => <<t, v>> \in R

\* Which of two copies of a recording is kept is decided between any two.
CopyOrder == {p \in Catalogue \X Catalogue : PreferredCopy(p[1], p[2])}

\* Of two copies of a recording one is always preferred, and preference is
\* transitive.
LEMMA PreferredCopyOrders ==
    Orders(CopyOrder) /\ \A t, u \in Catalogue : <<t, u>> \in CopyOrder <=> PreferredCopy(t, u)
<1>1. \A t, u \in Catalogue : <<t, u>> \in CopyOrder <=> PreferredCopy(t, u)
  BY DEF CopyOrder
<1>2. ASSUME NEW t \in Catalogue, NEW u \in Catalogue
      PROVE  PreferredCopy(t, u) <=>
                 \/ -t.tier < -u.tier \/ (-t.tier = -u.tier /\ -t.created < -u.created)
                 \/ (-t.tier = -u.tier /\ -t.created = -u.created /\ t.id < u.id)
  BY LexLessOfThree DEF PreferredCopy
<1>3. /\ \A t \in Catalogue : t.id \in Nat /\ t.tier \in Int /\ t.created \in Nat
      /\ \A t, u \in Catalogue : t.id = u.id => t = u
  BY FeaturesOf
<1>4. ASSUME NEW t \in Catalogue  PROVE ~PreferredCopy(t, t)
  BY <1>2, <1>3
<1>5. ASSUME NEW t \in Catalogue, NEW u \in Catalogue, t # u  PROVE PreferredCopy(t, u) \/ PreferredCopy(u, t)
  <2>1. t.id # u.id /\ t.id \in Nat /\ u.id \in Nat /\ t.tier \in Int /\ u.tier \in Int
        /\ t.created \in Nat /\ u.created \in Nat
    BY <1>3, <1>5
  <2> QED  BY <1>2, <2>1
<1>6. ASSUME NEW t \in Catalogue, NEW u \in Catalogue, NEW v \in Catalogue,
             PreferredCopy(t, u), PreferredCopy(u, v)
      PROVE  PreferredCopy(t, v)
  <2>1. \A x \in {t, u, v} : x.id \in Nat /\ x.tier \in Int /\ x.created \in Nat
    BY <1>3
  <2> QED  BY <1>2, <1>6, <2>1
<1> QED  BY <1>1, <1>4, <1>5, <1>6 DEF Orders

\* A penalty is a number.
LEMMA ScoreIsNumber ==
    ASSUME NEW m, NEW s \in Seeds, NEW t \in Catalogue
    PROVE  ScoreOf(m, s, t) \in Int
<1>1. /\ s.num \in 0 .. 12 /\ t.num \in 0 .. 12 /\ s.bpm \in Nat /\ t.bpm \in Nat
  BY FeaturesOf
<1>2. KeyPenalty(s, t) \in Int
  <2> DEFINE raw == Abs(s.num - t.num)
             hours == Min({raw, 12 - raw})
  <2>1. raw \in 0 .. 12
    BY <1>1 DEF Abs
  <2>2. {raw, 12 - raw} \in SUBSET Nat /\ {raw, 12 - raw} # {}
    BY <2>1
  <2>3. hours \in Nat
    <3>1. hours \in {raw, 12 - raw}
      BY <2>2, MinOfSet
    <3> QED  BY <2>2, <3>1
  <2> HIDE DEF hours
  <2>4. KeyPenalty(s, t) =
            LET free == IF hours = 0 THEN 0 ELSE hours - 1
            IN  CASE s.num = 0 \/ t.num = 0 -> 6
                  [] s.num # 0 /\ t.num # 0 /\ hours = 0 /\ s.letter # t.letter -> 1
                  [] OTHER -> 2 * free + (IF s.letter = t.letter THEN 0 ELSE 3)
    BY DEF KeyPenalty, hours
  <2>5. KeyPenalty(s, t) \in {6, 1, 2 * (IF hours = 0 THEN 0 ELSE hours - 1),
                              2 * (IF hours = 0 THEN 0 ELSE hours - 1) + 3}
    BY <2>3, <2>4
  <2> QED  BY <2>3, <2>5
<1>3. Scale(s) \in Nat
  BY <1>1 DEF Scale
<1>4. BpmPenalty(s, t) \in Int
  BY <1>1, <1>3 DEF BpmPenalty, Abs
<1>5. 3 * Scale(s) * KeyPenalty(s, t) \in Int
  <2> DEFINE x == 3 * Scale(s)
             k == KeyPenalty(s, t)
  <2>1. x \in Int /\ k \in Int
    BY <1>2, <1>3
  <2> HIDE DEF x, k
  <2>2. x * k \in Int
    BY <2>1
  <2> QED  BY <2>2 DEF x, k
<1>6. Score(s, t) \in Int
  <2> DEFINE x == 3 * Scale(s) * KeyPenalty(s, t)
             k == BpmPenalty(s, t)
  <2>1. x \in Int /\ k \in Int
    BY <1>4, <1>5
  <2> HIDE DEF x, k
  <2>2. x + k \in Int
    BY <2>1
  <2> QED  BY <2>2 DEF x, k, Score
<1> QED  BY <1>4, <1>6 DEF ScoreOf

\* So is which of two tracks follows the seed better.
Comparing(m, s) == {p \in Catalogue \X Catalogue : Compare(m, s, p[1], p[2])}

\* compare never ties two tracks of the catalogue.
LEMMA CompareOrders ==
    ASSUME NEW m, NEW s \in Seeds
    PROVE  /\ Orders(Comparing(m, s))
           /\ \A t, u \in Catalogue : <<t, u>> \in Comparing(m, s) <=> Compare(m, s, t, u)
<1> DEFINE V(t) == ScoreOf(m, s, t)
<1>1. \A t, u \in Catalogue : <<t, u>> \in Comparing(m, s) <=> Compare(m, s, t, u)
  BY DEF Comparing
<1>2. ASSUME NEW t \in Catalogue, NEW u \in Catalogue
      PROVE  Compare(m, s, t, u) <=>
                 \/ V(t) < V(u) \/ (V(t) = V(u) /\ -t.likes < -u.likes)
                 \/ (V(t) = V(u) /\ -t.likes = -u.likes /\ -t.created < -u.created)
                 \/ (V(t) = V(u) /\ -t.likes = -u.likes /\ -t.created = -u.created /\ t.id < u.id)
  BY LexLessOfFour DEF Compare, Rank
<1>3. /\ \A t \in Catalogue : V(t) \in Int /\ t.id \in Nat /\ t.likes \in Nat /\ t.created \in Nat
      /\ \A t, u \in Catalogue : t.id = u.id => t = u
  BY FeaturesOf, ScoreIsNumber
<1> HIDE DEF V
<1>4. ASSUME NEW t \in Catalogue  PROVE ~Compare(m, s, t, t)
  BY <1>2, <1>3
<1>5. ASSUME NEW t \in Catalogue, NEW u \in Catalogue, t # u  PROVE Compare(m, s, t, u) \/ Compare(m, s, u, t)
  <2>1. /\ t.id # u.id /\ t.id \in Nat /\ u.id \in Nat /\ V(t) \in Int /\ V(u) \in Int
        /\ t.created \in Nat /\ u.created \in Nat /\ t.likes \in Nat /\ u.likes \in Nat
    BY <1>3, <1>5
  <2> QED  BY <1>2, <2>1
<1>6. ASSUME NEW t \in Catalogue, NEW u \in Catalogue, NEW v \in Catalogue,
             Compare(m, s, t, u), Compare(m, s, u, v)
      PROVE  Compare(m, s, t, v)
  <2>1. \A x \in {t, u, v} : V(x) \in Int /\ x.id \in Nat /\ x.likes \in Nat /\ x.created \in Nat
    BY <1>3
  <2> QED  BY <1>2, <1>6, <2>1
<1> QED  BY <1>1, <1>4, <1>5, <1>6 DEF Orders

-----------------------------------------------------------------------------
(* The walk.                                                               *)

\* Some index of a list that is not empty has no better one.
LEMMA BestExists ==
    ASSUME NEW m, NEW s \in Seeds, NEW left \in Seq(Catalogue), Len(left) # 0
    PROVE  /\ BestOf(m, s, left) \in 1 .. Len(left)
           /\ \A j \in 1 .. Len(left) :
                  left[j] # left[BestOf(m, s, left)] => Compare(m, s, left[BestOf(m, s, left)], left[j])
<1> DEFINE L == Len(left)
           R == Comparing(m, s)
           I == {i \in DOMAIN left : \A j \in DOMAIN left : ~Compare(m, s, left[j], left[i])}
<1>1. L \in Nat /\ L # 0 /\ DOMAIN left = 1 .. L /\ \A i \in 1 .. L : left[i] \in Catalogue
  OBVIOUS
<1>2. Orders(R) /\ \A t, u \in Catalogue : <<t, u>> \in R <=> Compare(m, s, t, u)
  BY CompareOrders
<1> HIDE DEF L, R
<1> DEFINE Q == {n \in Nat : n + 1 \in 1 .. L =>
                     \E i \in 1 .. n + 1 : \A j \in 1 .. n + 1 : <<left[j], left[i]>> \notin R}
<1>3. 0 \in Q
  <2> SUFFICES ASSUME 0 + 1 \in 1 .. L
               PROVE  \E i \in 1 .. 0 + 1 : \A j \in 1 .. 0 + 1 : <<left[j], left[i]>> \notin R
    OBVIOUS
  <2>1. \A j : j \in 1 .. 0 + 1 <=> j = 1
    OBVIOUS
  <2>2. <<left[1], left[1]>> \notin R
    BY <1>1, <1>2 DEF Orders
  <2> QED  BY <2>1, <2>2
<1>4. ASSUME NEW n \in Nat, n \in Q  PROVE n + 1 \in Q
  <2> SUFFICES ASSUME (n + 1) + 1 \in 1 .. L
               PROVE  \E i \in 1 .. (n + 1) + 1 : \A j \in 1 .. (n + 1) + 1 : <<left[j], left[i]>> \notin R
    OBVIOUS
  <2> DEFINE k == (n + 1) + 1
  <2>1. /\ n + 1 \in 1 .. L /\ k \in 1 .. k /\ k \in 1 .. L /\ \A j \in 1 .. n + 1 : j \in 1 .. k /\ j \in 1 .. L
        /\ \A j \in 1 .. k : j = k \/ j \in 1 .. n + 1
    BY <1>1
  <2> HIDE DEF k
  <2>2. PICK i \in 1 .. n + 1 : \A j \in 1 .. n + 1 : <<left[j], left[i]>> \notin R
    BY <1>4, <2>1
  <2>3. left[i] \in Catalogue /\ left[k] \in Catalogue /\ \A j \in 1 .. n + 1 : left[j] \in Catalogue
    BY <1>1, <2>1
  <2>4. CASE <<left[k], left[i]>> \in R
    <3>1. \A j \in 1 .. n + 1 : <<left[j], left[k]>> \notin R
      BY <1>2, <2>2, <2>3, <2>4 DEF Orders
    <3>2. <<left[k], left[k]>> \notin R
      BY <1>2, <2>3 DEF Orders
    <3>3. \E i2 \in 1 .. k : \A j \in 1 .. k : <<left[j], left[i2]>> \notin R
      BY <2>1, <3>1, <3>2
    <3> QED  BY <3>3 DEF k
  <2>5. CASE <<left[k], left[i]>> \notin R
    <3>1. \E i2 \in 1 .. k : \A j \in 1 .. k : <<left[j], left[i2]>> \notin R
      BY <2>1, <2>2, <2>5
    <3> QED  BY <3>1 DEF k
  <2> QED  BY <2>4, <2>5
<1> HIDE DEF Q
<1>5. \A n \in Nat : n \in Q
  BY <1>3, <1>4, NaturalsInG
<1>6. \E i \in 1 .. L : \A j \in 1 .. L : <<left[j], left[i]>> \notin R
  <2>1. L - 1 \in Nat /\ (L - 1) + 1 = L /\ L \in 1 .. L
    BY <1>1
  <2>2. L - 1 \in Q
    BY <1>5, <2>1
  <2> QED  BY <2>1, <2>2 DEF Q
<1>7. I \in SUBSET Nat /\ I # {}
  <2>1. PICK i \in 1 .. L : \A j \in 1 .. L : <<left[j], left[i]>> \notin R
    BY <1>6
  <2>2. \A j \in 1 .. L : ~Compare(m, s, left[j], left[i])
    BY <1>1, <1>2, <2>1
  <2>3. i \in I
    BY <1>1, <2>2
  <2>4. \A h \in I : h \in Nat
    BY <1>1
  <2> HIDE DEF I
  <2> QED  BY <2>3, <2>4
<1>8. Min(I) \in I
  <2> HIDE DEF I
  <2> QED  BY <1>7, MinOfSet
<1>9. PICK b : b = BestOf(m, s, left)
  OBVIOUS
<1>10. b \in I
  BY <1>8, <1>9 DEF BestOf
<1>11. b \in 1 .. L /\ \A j \in 1 .. L : ~Compare(m, s, left[j], left[b])
  BY <1>1, <1>10
<1>12. ASSUME NEW j \in 1 .. L, left[j] # left[b]  PROVE Compare(m, s, left[b], left[j])
  <2>1. left[j] \in Catalogue /\ left[b] \in Catalogue
    BY <1>1, <1>11
  <2> QED  BY <1>2, <1>11, <1>12, <2>1 DEF Orders
<1> QED  BY <1>9, <1>11, <1>12 DEF L

\* Each pick is the best of T for the one before it, of what was not yet picked.
Chain(m, s, p, T) ==
    \A i \in DOMAIN p :
        LET q == IF i = 1 THEN s ELSE p[i - 1]
        IN  \A u \in T \ {p[j] : j \in 1 .. i} : Compare(m, q, p[i], u)

\* k picks of T.
PickedSoFar(k, w, T) ==
    /\ Len(w.picked) = k /\ Len(w.left) = Cardinality(T) - k
    /\ IsInjective(w.picked) /\ IsInjective(w.left)
    /\ \A x \in T : x \in ToSet(w.picked) <=> x \notin ToSet(w.left)
    /\ ToSet(w.picked) \subseteq T /\ ToSet(w.left) \subseteq T
Walked(m, s, k, w, T) ==
    /\ PickedSoFar(k, w, T) /\ w.seed = (IF k = 0 THEN s ELSE w.picked[k])
    /\ Chain(m, s, w.picked, T)

WalkStates == [picked : Seq(Catalogue), seed : Seeds, left : Seq(Catalogue)]

\* One more pick.
LEMMA TakeWalks ==
    ASSUME NEW m, NEW s \in Seeds, NEW T \in SUBSET Catalogue, NEW k \in 1 .. Cardinality(T),
           Cardinality(T) \in Nat, NEW w \in WalkStates, Walked(m, s, k - 1, w, T)
    PROVE  /\ Take(w, BestOf(m, w.seed, w.left)) \in WalkStates
           /\ Walked(m, s, k, Take(w, BestOf(m, w.seed, w.left)), T)
<1> DEFINE left == w.left
           pk == w.picked
           L == Len(w.left)
           C == Cardinality(T)
<1>1. /\ left \in Seq(Catalogue) /\ pk \in Seq(Catalogue) /\ w.seed \in Seeds
  BY DEF WalkStates
<1>2. /\ Len(pk) = k - 1 /\ L = C - (k - 1) /\ IsInjective(pk) /\ IsInjective(left)
      /\ \A x \in T : x \in ToSet(pk) <=> x \notin ToSet(left)
      /\ ToSet(pk) \subseteq T /\ ToSet(left) \subseteq T
      /\ w.seed = (IF k - 1 = 0 THEN s ELSE pk[k - 1]) /\ Chain(m, s, pk, T)
  BY DEF Walked, PickedSoFar
<1>3. C \in Nat /\ k \in 1 .. C
  OBVIOUS
<1> HIDE DEF C
<1>4. L \in Nat /\ L # 0 /\ k \in Nat /\ k # 0 /\ k - 1 \in Nat
  BY <1>2, <1>3
<1>5. PICK b : b = BestOf(m, w.seed, left)
  OBVIOUS
<1>6. b \in 1 .. L /\ \A j \in 1 .. L : left[j] # left[b] => Compare(m, w.seed, left[b], left[j])
  BY <1>1, <1>4, <1>5, BestExists
<1>7. /\ DOMAIN left = 1 .. L /\ \A i \in 1 .. L : left[i] \in Catalogue
      /\ \A x : x \in ToSet(left) <=> \E i \in 1 .. L : left[i] = x
  BY <1>1, NamesOf
<1>8. /\ DOMAIN pk = 1 .. k - 1 /\ \A i \in 1 .. k - 1 : pk[i] \in Catalogue
      /\ \A x : x \in ToSet(pk) <=> \E i \in 1 .. k - 1 : pk[i] = x
  BY <1>1, <1>2, NamesOf
<1> DEFINE I == DOMAIN left \ {b}
           left2 == Only(left, I)
           e == left[b]
           pk2 == Append(pk, e)
           w2 == Take(w, b)
<1>9. w2 = [picked |-> pk2, seed |-> e, left |-> left2]
  BY DEF Take
<1>10. w2.picked = pk2 /\ w2.seed = e /\ w2.left = left2
  BY <1>9
<1>11. I \in SUBSET DOMAIN left
  OBVIOUS
<1>12. Cardinality(I) = L - 1
  <2>1. IsFiniteSet(1 .. L) /\ Cardinality(1 .. L) = L
    <3>0. L \in Int /\ 1 \in Int
      BY <1>4
    <3> HIDE DEF L
    <3>1. IsFiniteSet(1 .. L) /\ Cardinality(1 .. L) = IF 1 > L THEN 0 ELSE L - 1 + 1
      BY ONLY <3>0, FS_Interval
    <3> QED  BY <1>4, <3>1
  <2>2. I = (1 .. L) \ {b}
    BY <1>7
  <2>3. b \in 1 .. L
    BY <1>6
  <2> HIDE DEF I, L
  <2>4. Cardinality((1 .. L) \ {b}) = IF b \in 1 .. L THEN Cardinality(1 .. L) - 1 ELSE Cardinality(1 .. L)
    BY ONLY <2>1, FS_RemoveElement
  <2> QED  BY <2>1, <2>2, <2>3, <2>4
<1>13. left2 \in Seq(Catalogue) /\ Len(left2) = L - 1
  BY <1>1, <1>11, <1>12, OnlyKeeps
<1>14. \A x : x \in ToSet(left2) <=> x \in ToSet(left) /\ x # e
  <2>1. \A x : x \in ToSet(left2) <=> \E i \in I : left[i] = x
    BY <1>1, <1>11, OnlyNames
  <2>2. \A i \in 1 .. L : left[i] = e => i = b
    BY <1>2, <1>6, <1>7 DEF IsInjective
  <2>3. \A i : i \in I <=> i \in 1 .. L /\ i # b
    BY <1>7
  <2> HIDE DEF I, left2, left
  <2> QED  BY <1>7, <2>1, <2>2, <2>3
<1>15. IsInjective(left2)
  BY <1>1, <1>2, <1>11, OnlyNames
<1>16. e \in Catalogue /\ e \in ToSet(left) /\ e \in T /\ e \notin ToSet(pk)
  BY <1>2, <1>6, <1>7
<1> HIDE DEF I, left2, e, w2
<1>17. /\ pk2 \in Seq(Catalogue) /\ Len(pk2) = k /\ DOMAIN pk2 = 1 .. k
       /\ pk2[k] = e /\ \A i \in 1 .. k - 1 : pk2[i] = pk[i]
  <2>1. /\ pk2 \in Seq(Catalogue) /\ Len(pk2) = Len(pk) + 1 /\ pk2[Len(pk) + 1] = e
        /\ \A i \in 1 .. Len(pk) : pk2[i] = pk[i]
    BY <1>1, <1>16, AppendProperties
  <2>2. Len(pk) + 1 = k
    BY <1>2, <1>4
  <2> HIDE DEF pk2
  <2> QED  BY <1>2, <2>1, <2>2
<1> HIDE DEF pk2
<1>18. \A i : i \in 1 .. k <=> i \in 1 .. k - 1 \/ i = k
  BY <1>4
<1>19. \A x : x \in ToSet(pk2) <=> x \in ToSet(pk) \/ x = e
  <2>1. \A x : x \in ToSet(pk2) <=> \E i \in 1 .. k : pk2[i] = x
    BY <1>17, NamesOf
  <2> QED  BY <1>8, <1>17, <1>18, <2>1
<1>20. IsInjective(pk2)
  <2> SUFFICES ASSUME NEW i \in 1 .. k, NEW j \in 1 .. k, pk2[i] = pk2[j]  PROVE i = j
    BY <1>17 DEF IsInjective
  <2>1. \A h \in 1 .. k - 1 : pk[h] # e
    BY <1>8, <1>16
  <2>2. \A h, l \in 1 .. k - 1 : pk[h] = pk[l] => h = l
    BY <1>2, <1>8 DEF IsInjective
  <2> QED  BY <1>17, <1>18, <2>1, <2>2
<1>21. w2 \in WalkStates
  BY <1>9, <1>13, <1>16, <1>17 DEF WalkStates, Seeds
<1>22. PickedSoFar(k, w2, T)
  <2>1. Len(w2.picked) = k /\ Len(w2.left) = C - k
    <3>1. Len(w2.left) = L - 1 /\ L = C - (k - 1)
      BY <1>2, <1>10, <1>13
    <3> HIDE DEF L
    <3> QED  BY <1>3, <1>4, <1>10, <1>17, <3>1
  <2>2. \A x \in T : x \in ToSet(pk2) <=> x \notin ToSet(left2)
    BY <1>2, <1>14, <1>16, <1>19
  <2>3. ToSet(pk2) \subseteq T /\ ToSet(left2) \subseteq T
    BY <1>2, <1>14, <1>16, <1>19
  <2> QED  BY <1>10, <1>15, <1>20, <2>1, <2>2, <2>3 DEF PickedSoFar, C
<1>23. w2.seed = (IF k = 0 THEN s ELSE w2.picked[k])
  BY <1>4, <1>10, <1>17
<1>24. Chain(m, s, pk2, T)
  <2> SUFFICES ASSUME NEW i \in 1 .. k, NEW u \in T, u \notin {pk2[j] : j \in 1 .. i}
               PROVE  Compare(m, IF i = 1 THEN s ELSE pk2[i - 1], pk2[i], u)
    BY <1>17 DEF Chain
  <2>0. \A j \in 1 .. i : pk2[j] # u
    OBVIOUS
  <2>1. CASE i = k
    <3>1. \A j \in 1 .. k - 1 : pk[j] # u
      BY <1>4, <1>17, <1>18, <2>0, <2>1
    <3>2. u \notin ToSet(pk) /\ u # e
      BY <1>4, <1>8, <1>17, <2>0, <2>1, <3>1
    <3>3. u \in ToSet(left)
      BY <1>2, <3>2
    <3>4. PICK j \in 1 .. L : left[j] = u
      BY <1>7, <3>3
    <3>5. Compare(m, w.seed, e, u)
      BY <1>6, <3>2, <3>4 DEF e
    <3>6. w.seed = (IF i = 1 THEN s ELSE pk2[i - 1])
      BY <1>2, <1>4, <1>17, <2>1
    <3> QED  BY <1>17, <2>1, <3>5, <3>6
  <2>2. CASE i # k
    <3>1. i \in 1 .. k - 1 /\ i \in DOMAIN pk
      BY <1>8, <1>18, <2>2
    <3>2. \A j \in 1 .. i : j \in 1 .. k - 1 /\ pk2[j] = pk[j]
      BY <1>4, <1>17, <3>1
    <3>3. u \in T \ {pk[j] : j \in 1 .. i}
      BY <2>0, <3>2
    <3>4. Compare(m, IF i = 1 THEN s ELSE pk[i - 1], pk[i], u)
      BY <1>2, <3>1, <3>3 DEF Chain
    <3>5. i # 1 => i - 1 \in 1 .. k - 1
      BY <1>4, <3>1
    <3>6. (IF i = 1 THEN s ELSE pk[i - 1]) = (IF i = 1 THEN s ELSE pk2[i - 1]) /\ pk2[i] = pk[i]
      BY <1>17, <3>1, <3>5
    <3> QED  BY <3>4, <3>6
  <2> QED  BY <2>1, <2>2
<1>25. Walked(m, s, k, w2, T)
  BY <1>10, <1>22, <1>23, <1>24 DEF Walked
<1> QED  BY <1>5, <1>21, <1>25 DEF w2

\* The picks of T: as many as wanted, or all, none twice.
Picks(p, T, want) ==
    /\ p \in Seq(Catalogue) /\ IsInjective(p) /\ ToSet(p) \subseteq T
    /\ Len(p) = IF want <= Cardinality(T) THEN want ELSE Cardinality(T)

\* Without the second of a file's entries, a list names what it named.
LEMMA UniqueNames ==
    ASSUME NEW ts \in Seq(Catalogue)
    PROVE  /\ UniqueById(ts) \in Seq(Catalogue) /\ IsInjective(UniqueById(ts))
           /\ ToSet(UniqueById(ts)) = ToSet(ts)
           /\ IsFiniteSet(ToSet(ts)) /\ Cardinality(ToSet(ts)) = Len(UniqueById(ts))
<1> DEFINE I == {i \in DOMAIN ts : \A j \in 1 .. i - 1 : ts[j].id # ts[i].id}
           pool == UniqueById(ts)
<1>1. Len(ts) \in Nat /\ DOMAIN ts = 1 .. Len(ts) /\ \A i \in 1 .. Len(ts) : ts[i] \in Catalogue
  OBVIOUS
<1>2. I \in SUBSET DOMAIN ts /\ pool = Only(ts, I)
  BY DEF UniqueById
<1>3. ASSUME NEW i \in I, NEW j \in I, ts[i] = ts[j]  PROVE i = j
  <2>1. i \in Nat /\ j \in Nat
    BY <1>1
  <2>2. ~(i < j) /\ ~(j < i)
    BY <1>3, <2>1
  <2> QED  BY <2>1, <2>2
<1>4. ASSUME NEW i \in DOMAIN ts  PROVE \E j \in I : ts[j] = ts[i]
  <2> DEFINE E == {j \in DOMAIN ts : ts[j].id = ts[i].id}
  <2>1. E \in SUBSET Nat /\ i \in E
    BY <1>1
  <2>2. PICK j \in E : \A h \in E : j <= h
    <3> HIDE DEF E
    <3> QED  BY <2>1, LeastNatural
  <2>3. j \in Nat /\ j \in DOMAIN ts /\ i \in DOMAIN ts /\ ts[j].id = ts[i].id
    BY <1>1, <2>2
  <2>4. ts[j] = ts[i]
    <3>1. ts[j] \in Catalogue /\ ts[i] \in Catalogue
      BY <1>1, <2>3
    <3> QED  BY <2>3, <3>1, FeaturesOf
  <2>5. ASSUME NEW h \in 1 .. j - 1  PROVE ts[h].id # ts[j].id
    <3>1. h \in DOMAIN ts /\ ~(j <= h) /\ h \in Nat
      BY <1>1, <2>3
    <3> QED  BY <2>2, <2>3, <3>1
  <2> QED  BY <2>3, <2>4, <2>5
<1> HIDE DEF I
<1>5. pool \in Seq(Catalogue) /\ \A x : x \in ToSet(pool) <=> \E i \in I : ts[i] = x
  BY <1>2, OnlyKeeps, OnlyNames
<1>6. \A x : x \in ToSet(ts) <=> \E i \in DOMAIN ts : ts[i] = x
  BY DEF ToSet
<1>7. ToSet(pool) = ToSet(ts)
  BY <1>2, <1>4, <1>5, <1>6
<1>8. IsInjective(pool)
  <2> DEFINE c == Cardinality(I)
  <2>1. /\ Len(pool) = c /\ c \in Nat
        /\ \A n \in 1 .. c : Nth(I, n) \in I /\ pool[n] = ts[Nth(I, n)]
        /\ \A a, b \in 1 .. c : a < b => Nth(I, a) < Nth(I, b)
    BY <1>2, OnlyKeeps
  <2>2. DOMAIN pool = 1 .. c
    BY <1>5, <2>1
  <2> HIDE DEF c, pool
  <2> SUFFICES ASSUME NEW a \in 1 .. c, NEW b \in 1 .. c, pool[a] = pool[b]  PROVE a = b
    BY <2>2 DEF IsInjective
  <2>3. Nth(I, a) = Nth(I, b) /\ Nth(I, a) \in I
    BY <1>3, <2>1
  <2>4. Nth(I, a) \in Nat
    BY <1>1, <1>2, <2>3
  <2>5. ~(a < b) /\ ~(b < a)
    BY <2>1, <2>3, <2>4
  <2> QED  BY <2>1, <2>5
<1>9. IsFiniteSet(ToSet(pool)) /\ Cardinality(ToSet(pool)) = Len(pool)
  BY <1>5, <1>8, OnceCounts
<1> QED  BY <1>5, <1>7, <1>8, <1>9

-----------------------------------------------------------------------------
(* The greedy walk and the shuffle.                                        *)

\* The walk is the picks the code makes, one round at a time.
LEMMA WalkIsWalked ==
    ASSUME NEW m, NEW s \in Seeds, NEW pool \in Seq(Catalogue), IsInjective(pool),
           NEW k \in 0 .. Len(pool)
    PROVE  Walk(m, s, pool)[k] \in WalkStates /\ Walked(m, s, k, Walk(m, s, pool)[k], ToSet(pool))
<1> DEFINE N == Len(pool)
           T == ToSet(pool)
           base == [picked |-> <<>>, seed |-> s, left |-> pool]
           step == [p \in (1 .. N) \X WalkStates |-> Take(p[2], BestOf(m, p[2].seed, p[2].left))]
           G == {p \in (0 .. N) \X WalkStates : Walked(m, s, p[1], p[2], T)}
<1>1. N \in Nat /\ T \in SUBSET Catalogue /\ IsFiniteSet(T) /\ Cardinality(T) = N
  BY NamesOf, OnceCounts
<1>2. base \in WalkStates
  BY DEF WalkStates
<1>3. <<0, base>> \in G
  <2>1. /\ base.picked = <<>> /\ base.seed = s /\ base.left = pool
    OBVIOUS
  <2>2. Len(<<>>) = 0 /\ IsInjective(<<>>) /\ ToSet(<<>>) = {} /\ DOMAIN <<>> = {}
    BY DEF IsInjective, ToSet
  <2>3. Chain(m, s, <<>>, T)
    BY <2>2 DEF Chain
  <2>4. Len(pool) = Cardinality(T) - 0
    BY <1>1
  <2> HIDE DEF base, N
  <2>5. PickedSoFar(0, base, T)
    BY <2>1, <2>2, <2>4 DEF PickedSoFar
  <2>6. Walked(m, s, 0, base, T)
    BY <2>1, <2>3, <2>5 DEF Walked
  <2> QED  BY <1>1, <1>2, <2>6
<1>4. ASSUME NEW n \in 1 .. N, NEW d \in WalkStates, <<n - 1, d>> \in G
      PROVE  step[<<n, d>>] \in WalkStates /\ <<n, step[<<n, d>>]>> \in G
  <2>1. step[<<n, d>>] = Take(d, BestOf(m, d.seed, d.left))
    OBVIOUS
  <2>2. Walked(m, s, n - 1, d, T)
    BY <1>4
  <2>3. n \in 1 .. Cardinality(T) /\ Cardinality(T) \in Nat /\ n \in 0 .. N
    BY <1>1
  <2> HIDE DEF N, T, step
  <2>4. Take(d, BestOf(m, d.seed, d.left)) \in WalkStates /\ Walked(m, s, n, Take(d, BestOf(m, d.seed, d.left)), T)
    BY ONLY <1>1, <2>2, <2>3, n \in 1 .. N, d \in WalkStates, s \in Seeds, TakeWalks
  <2> QED  BY <2>1, <2>3, <2>4
<1>5. LoopPreserves(N, WalkStates, base, step, G)
  <2> HIDE DEF N, base, step, G
  <2> QED  BY <1>3, <1>4 DEF LoopPreserves
<1>6. LoopHolds(N, WalkStates, base, step, G)
  <2> HIDE DEF N, base, step, G
  <2> QED  BY ONLY <1>1, <1>2, <1>5, LoopWithin
<1> DEFINE Rule(g) == g = [n \in 0 .. N |-> IF n = 0 THEN base
                                            ELSE Take(g[n - 1], BestOf(m, g[n - 1].seed, g[n - 1].left))]
           w == CHOOSE g : Rule(g)
<1>7. Walk(m, s, pool) = w
  BY DEF Walk
<1>8. \E g : Rule(g)
  <2>1. PICK g \in [0 .. N -> WalkStates] : Rounds(g, N, base, step)
    <3> HIDE DEF N, base, step, G
    <3> QED  BY <1>6 DEF LoopHolds
  <2>2. ASSUME NEW n \in 1 .. N  PROVE g[n] = Take(g[n - 1], BestOf(m, g[n - 1].seed, g[n - 1].left))
    <3>1. n - 1 \in 0 .. N
      BY <1>1
    <3>2. g[n - 1] \in WalkStates
      BY <3>1
    <3>3. g[n] = step[<<n, g[n - 1]>>]
      BY <2>1 DEF Rounds
    <3> QED  BY <3>2, <3>3
  <2>3. g[0] = base
    BY <2>1 DEF Rounds
  <2> HIDE DEF base, step
  <2>4. ASSUME NEW n \in 0 .. N
        PROVE  g[n] = IF n = 0 THEN base ELSE Take(g[n - 1], BestOf(m, g[n - 1].seed, g[n - 1].left))
    <3>1. n = 0 \/ n \in 1 .. N
      BY <1>1
    <3> QED  BY <2>2, <2>3, <3>1
  <2>5. g = [n \in 0 .. N |-> IF n = 0 THEN base
                              ELSE Take(g[n - 1], BestOf(m, g[n - 1].seed, g[n - 1].left))]
    <3> HIDE DEF N
    <3> QED  BY <2>4
  <2> QED  BY <2>5
<1>9. Rule(w)
  <2> HIDE DEF Rule
  <2> QED  BY <1>8
<1>10. PICK h : h = w
  OBVIOUS
<1>11. Rule(h)
  BY <1>9, <1>10
<1> HIDE DEF w
<1>12. InLoop(h, N, WalkStates, base, step)
  <2>1. h[0] = base
    BY <1>1, <1>11
  <2>2. ASSUME NEW n \in 1 .. N, h[n - 1] \in WalkStates  PROVE h[n] = step[<<n, h[n - 1]>>]
    <3>1. n \in 0 .. N /\ n # 0
      BY <1>1
    <3>2. h[n] = Take(h[n - 1], BestOf(m, h[n - 1].seed, h[n - 1].left))
      BY <1>11, <3>1
    <3> QED  BY <2>2, <3>2
  <2> HIDE DEF base, step, N
  <2> QED  BY <2>1, <2>2 DEF InLoop
<1>13. \A n \in 0 .. N : h[n] \in WalkStates /\ <<n, h[n]>> \in G
  <2> HIDE DEF N, base, step, G
  <2> QED  BY <1>6, <1>12 DEF LoopHolds
<1>14. h[k] \in WalkStates /\ <<k, h[k]>> \in G
  BY <1>13
<1> QED  BY <1>7, <1>10, <1>14

\* What a greedy walk picks, and why each.
LEMMA GreedyPicks ==
    ASSUME NEW m, NEW s \in Seeds, NEW ts \in Seq(Catalogue), NEW want \in Nat
    PROVE  /\ Picks(GreedyWalk(m, s, ts, want), ToSet(ts), want)
           /\ Chain(m, s, GreedyWalk(m, s, ts, want), ToSet(ts))
<1> DEFINE pool == UniqueById(ts)
           T == ToSet(ts)
           k == Min({want, Len(pool)})
           w == Walk(m, s, pool)[k]
<1>1. pool \in Seq(Catalogue) /\ IsInjective(pool) /\ ToSet(pool) = T /\ Cardinality(T) = Len(pool)
  BY UniqueNames
<1>2. Len(pool) \in Nat
  BY <1>1
<1>3. k = (IF want <= Len(pool) THEN want ELSE Len(pool))
  BY <1>2, MinOfTwo
<1>4. k \in 0 .. Len(pool)
  <2> HIDE DEF pool, k
  <2> QED  BY <1>2, <1>3
<1>5. w \in WalkStates /\ Walked(m, s, k, w, ToSet(pool))
  <2> HIDE DEF pool, k
  <2> QED  BY <1>1, <1>4, WalkIsWalked
<1>6. GreedyWalk(m, s, ts, want) = w.picked
  BY DEF GreedyWalk
<1> HIDE DEF w, k, pool
<1>7. w.picked \in Seq(Catalogue)
  BY <1>5 DEF WalkStates
<1>8. Len(w.picked) = k /\ IsInjective(w.picked) /\ ToSet(w.picked) \subseteq T /\ Chain(m, s, w.picked, T)
  BY <1>1, <1>5 DEF Walked, PickedSoFar
<1> QED  BY <1>1, <1>3, <1>6, <1>7, <1>8 DEF Picks

\* A list with two elements exchanged.
LEMMA SwapKeeps ==
    ASSUME NEW p \in Seq(Catalogue), IsInjective(p), NEW i \in 1 .. Len(p), NEW j \in 1 .. Len(p)
    PROVE  /\ Swap(p, i, j) \in Seq(Catalogue) /\ IsInjective(Swap(p, i, j))
           /\ Len(Swap(p, i, j)) = Len(p) /\ ToSet(Swap(p, i, j)) = ToSet(p)
<1> DEFINE L == Len(p)
           q == Swap(p, i, j)
<1>1. L \in Nat /\ DOMAIN p = 1 .. L /\ \A h \in 1 .. L : p[h] \in Catalogue
  OBVIOUS
<1>2. \A a, b \in 1 .. L : p[a] = p[b] => a = b
  BY <1>1 DEF IsInjective
<1> HIDE DEF L
<1>3. /\ DOMAIN q = 1 .. L
      /\ \A h \in 1 .. L : q[h] = IF h = j THEN p[i] ELSE IF h = i THEN p[j] ELSE p[h]
  BY <1>1 DEF Swap, L
<1>4. q \in [1 .. L -> Catalogue]
  BY <1>1, <1>3 DEF Swap, L
<1>5. q \in Seq(Catalogue)
  BY <1>1, <1>4
<1> HIDE DEF q
<1>6. Len(q) = L
  BY <1>1, <1>3, <1>5
<1>7. IsInjective(q)
  BY <1>2, <1>3 DEF IsInjective, L
<1>8. ToSet(q) = ToSet(p)
  <2>1. \A h \in 1 .. L : \E g \in 1 .. L : q[h] = p[g]
    BY <1>3 DEF L
  <2>2. \A h \in 1 .. L : \E g \in 1 .. L : p[h] = q[g]
    <3> TAKE h \in 1 .. L
    <3>1. CASE h = i
      BY <1>3, <3>1 DEF L
    <3>2. CASE h # i /\ h = j
      BY <1>3, <3>2 DEF L
    <3>3. CASE h # i /\ h # j
      BY <1>3, <3>3 DEF L
    <3> QED  BY <3>1, <3>2, <3>3
  <2>3. /\ \A x : x \in ToSet(q) <=> \E h \in 1 .. L : q[h] = x
        /\ \A x : x \in ToSet(p) <=> \E h \in 1 .. L : p[h] = x
    BY <1>1, <1>3 DEF ToSet
  <2> QED  BY <2>1, <2>2, <2>3
<1> QED  BY <1>5, <1>6, <1>7, <1>8 DEF L, q

\* The shuffled deck is the pool in another order.
LEMMA DeckIsPool ==
    ASSUME NEW s \in Seeds, NEW pool \in Seq(Catalogue), IsInjective(pool), NEW k \in 0 .. Len(pool)
    PROVE  /\ Deck(s, pool)[k] \in Seq(Catalogue) /\ IsInjective(Deck(s, pool)[k])
           /\ Len(Deck(s, pool)[k]) = Len(pool) /\ ToSet(Deck(s, pool)[k]) = ToSet(pool)
<1> DEFINE N == Len(pool)
           Same(d) == IsInjective(d) /\ Len(d) = N /\ ToSet(d) = ToSet(pool)
           V == {d \in Seq(Catalogue) : Same(d)}
           step == [p \in (1 .. N) \X V |-> Swap(p[2], N - p[1] + 1, Draw(s.id, p[1], N - p[1]) + 1)]
           G == (0 .. N) \X V
<1>1. N \in Nat /\ pool \in V
  OBVIOUS
<1>2. N <= Cardinality(Catalogue) /\ Cardinality(Catalogue) \in Nat
  <2>1. ToSet(pool) \in SUBSET Catalogue /\ Cardinality(ToSet(pool)) = N
    BY NamesOf, OnceCounts
  <2> HIDE DEF N
  <2> QED  BY <2>1, FeaturesOf, FS_Subset
<1>3. ASSUME NEW n \in 1 .. N, NEW d \in V
      PROVE  Swap(d, N - n + 1, Draw(s.id, n, N - n) + 1) \in V
  <2>1. d \in Seq(Catalogue) /\ Same(d)
    OBVIOUS
  <2>2. N - n + 1 \in 1 .. N /\ n \in 0 .. Cardinality(Catalogue) /\ N - n \in 0 .. Cardinality(Catalogue)
    <3> HIDE DEF N
    <3> QED  BY <1>1, <1>2
  <2>3. Draw(s.id, n, N - n) \in 0 .. (N - n)
    <3>1. s.id \in {0} \cup {t.id : t \in Catalogue}
      BY FeaturesOf
    <3>2. \A id \in {0} \cup {t.id : t \in Catalogue}, h, i \in 0 .. Cardinality(Catalogue) :
              Draw(id, h, i) \in 0 .. i
      BY StrategiesAssumption
    <3> HIDE DEF N
    <3> QED  BY <2>2, <3>1, <3>2
  <2>4. Draw(s.id, n, N - n) + 1 \in 1 .. N
    <3>1. PICK x : x = Draw(s.id, n, N - n)
      OBVIOUS
    <3>2. x \in 0 .. (N - n)
      BY <2>3, <3>1
    <3> HIDE DEF N
    <3>3. x + 1 \in 1 .. N
      BY <1>1, <3>2
    <3> QED  BY <3>1, <3>3
  <2>5. PICK i, j : i = N - n + 1 /\ j = Draw(s.id, n, N - n) + 1
    OBVIOUS
  <2>6. i \in 1 .. Len(d) /\ j \in 1 .. Len(d)
    BY <2>1, <2>2, <2>4, <2>5
  <2>7. Swap(d, i, j) \in Seq(Catalogue) /\ Same(Swap(d, i, j))
    BY <2>1, <2>6, SwapKeeps
  <2> HIDE DEF N, Same
  <2> QED  BY <2>5, <2>7
<1> HIDE DEF V
<1>4. ASSUME NEW n \in 1 .. N, NEW d \in V
      PROVE  step[<<n, d>>] \in V /\ <<n, step[<<n, d>>]>> \in G
  <2>1. step[<<n, d>>] \in V
    BY <1>3
  <2>2. n \in 0 .. N
    BY <1>1
  <2> HIDE DEF N, step
  <2> QED  BY <2>1, <2>2
<1>5. LoopPreserves(N, V, pool, step, G)
  <2>1. <<0, pool>> \in G
    BY <1>1
  <2> HIDE DEF N, step, G
  <2> QED  BY <1>4, <2>1 DEF LoopPreserves
<1>6. LoopHolds(N, V, pool, step, G)
  <2> HIDE DEF N, step, G
  <2> QED  BY ONLY <1>1, <1>5, LoopWithin
<1> DEFINE Rule(g) == g = [n \in 0 .. N |-> IF n = 0 THEN pool
                               ELSE Swap(g[n - 1], N - n + 1, Draw(s.id, n, N - n) + 1)]
           w == CHOOSE g : Rule(g)
<1>7. Deck(s, pool) = w
  BY DEF Deck
<1>8. \E g : Rule(g)
  <2>1. PICK g \in [0 .. N -> V] : Rounds(g, N, pool, step)
    <3> HIDE DEF N, step, G
    <3> QED  BY <1>6 DEF LoopHolds
  <2>2. ASSUME NEW n \in 1 .. N  PROVE g[n] = Swap(g[n - 1], N - n + 1, Draw(s.id, n, N - n) + 1)
    <3>1. n - 1 \in 0 .. N
      BY <1>1
    <3>2. g[n - 1] \in V
      BY <3>1
    <3>3. g[n] = step[<<n, g[n - 1]>>]
      BY <2>1 DEF Rounds
    <3> QED  BY <3>2, <3>3
  <2>3. g[0] = pool
    BY <2>1 DEF Rounds
  <2> HIDE DEF step
  <2>4. ASSUME NEW n \in 0 .. N
        PROVE  g[n] = IF n = 0 THEN pool ELSE Swap(g[n - 1], N - n + 1, Draw(s.id, n, N - n) + 1)
    <3>1. n = 0 \/ n \in 1 .. N
      BY <1>1
    <3> QED  BY <2>2, <2>3, <3>1
  <2>5. g = [n \in 0 .. N |-> IF n = 0 THEN pool
                              ELSE Swap(g[n - 1], N - n + 1, Draw(s.id, n, N - n) + 1)]
    <3> HIDE DEF N
    <3> QED  BY <2>4
  <2> QED  BY <2>5
<1>9. Rule(w)
  <2> HIDE DEF Rule
  <2> QED  BY <1>8
<1>10. PICK h : h = w
  OBVIOUS
<1>11. Rule(h)
  BY <1>9, <1>10
<1> HIDE DEF w
<1>12. InLoop(h, N, V, pool, step)
  <2>1. h[0] = pool
    BY <1>1, <1>11
  <2>2. ASSUME NEW n \in 1 .. N, h[n - 1] \in V  PROVE h[n] = step[<<n, h[n - 1]>>]
    <3>1. n \in 0 .. N /\ n # 0
      BY <1>1
    <3>2. h[n] = Swap(h[n - 1], N - n + 1, Draw(s.id, n, N - n) + 1)
      BY <1>11, <3>1
    <3> QED  BY <2>2, <3>2
  <2> HIDE DEF step, N
  <2> QED  BY <2>1, <2>2 DEF InLoop
<1>13. \A n \in 0 .. N : h[n] \in V
  <2> HIDE DEF N, step, G
  <2> QED  BY <1>6, <1>12 DEF LoopHolds
<1>14. h[k] \in V
  BY <1>13
<1> QED  BY <1>7, <1>10, <1>14 DEF V

\* What the shuffle picks.
LEMMA ShufflePicks ==
    ASSUME NEW s \in Seeds, NEW ts \in Seq(Catalogue), NEW want \in Nat
    PROVE  Picks(Shuffle(s, ts, want), ToSet(ts), want)
<1> DEFINE pool == UniqueById(ts)
           T == ToSet(ts)
           L == Len(pool)
           k == IF L = 0 THEN 0 ELSE L - 1
           d == Deck(s, pool)[k]
           n == Min({want, L})
           p == SubSeq(d, 1, n)
<1>1. pool \in Seq(Catalogue) /\ IsInjective(pool) /\ ToSet(pool) = T /\ Cardinality(T) = L
  BY UniqueNames
<1>2. L \in Nat
  BY <1>1
<1>3. n = (IF want <= L THEN want ELSE L)
  BY <1>2, MinOfTwo
<1>4. Shuffle(s, ts, want) = p
  BY DEF Shuffle
<1> HIDE DEF L, n
<1>5. k \in 0 .. L
  BY <1>2
<1>6. d \in Seq(Catalogue) /\ IsInjective(d) /\ Len(d) = L /\ ToSet(d) = T
  <2> HIDE DEF pool, k
  <2> QED  BY <1>1, <1>5, DeckIsPool DEF L
<1> HIDE DEF d, k, pool
<1>7. n \in Nat /\ n <= L
  BY <1>2, <1>3
<1>8. DOMAIN d = 1 .. L /\ (\A i \in 1 .. L : d[i] \in Catalogue)
      /\ \A x : x \in T <=> \E i \in 1 .. L : d[i] = x
  BY <1>6, NamesOf
<1>9. p \in Seq(Catalogue) /\ Len(p) = n /\ \A i \in 1 .. n : p[i] = d[i]
  <2>0. 1 \in Int /\ n \in Int /\ \A i \in 1 .. n : i \in 1 .. L
    BY <1>2, <1>7
  <2>1. \A i \in 1 .. n : d[i] \in Catalogue
    BY <1>8, <2>0
  <2>2. /\ p \in Seq(Catalogue) /\ Len(p) = IF 1 <= n THEN n - 1 + 1 ELSE 0
        /\ \A i \in 1 .. n - 1 + 1 : p[i] = d[1 + i - 1]
    BY <1>6, <2>0, <2>1, SubSeqProperties
  <2> HIDE DEF p
  <2>3. Len(p) = n
    BY <1>7, <2>2
  <2>4. ASSUME NEW i \in 1 .. n  PROVE p[i] = d[i]
    <3>1. i \in 1 .. n - 1 + 1 /\ 1 + i - 1 = i
      BY <1>7
    <3> QED  BY <2>2, <3>1
  <2> QED  BY <2>2, <2>3, <2>4
<1> HIDE DEF p
<1>10. DOMAIN p = 1 .. n /\ \A i \in 1 .. n : i \in 1 .. L
  BY <1>2, <1>7, <1>9
<1>11. IsInjective(p)
  BY <1>6, <1>8, <1>9, <1>10 DEF IsInjective
<1>12. ToSet(p) \subseteq T
  BY <1>8, <1>9, <1>10 DEF ToSet
<1> QED  BY <1>1, <1>3, <1>4, <1>9, <1>11, <1>12 DEF Picks

-----------------------------------------------------------------------------
(* One copy of each recording.                                             *)

\* The best copies in T.
BestCopies(T) ==
    {t \in T : \A u \in T \ {t} : t.rec = 0 \/ t.rec # u.rec \/ PreferredCopy(t, u)}

\* What the loop has kept of what it has seen.
Kept(out, T) ==
    /\ \A i, j \in DOMAIN out : i # j /\ out[i].rec # 0 => out[i].rec # out[j].rec
    /\ \A u \in T : u.rec # 0 => \E i \in DOMAIN out : out[i].rec = u.rec
    /\ ToSet(out) = BestCopies(T)

\* A track that brings a new recording, or none, is kept.
LEMMA KeepsNew ==
    ASSUME NEW T \in SUBSET Catalogue, NEW out \in Seq(Catalogue), Kept(out, T), NEW t \in Catalogue,
           \A i \in DOMAIN out : t.rec = 0 \/ out[i].rec # t.rec
    PROVE  Append(out, t) \in Seq(Catalogue) /\ Kept(Append(out, t), T \cup {t})
<1> DEFINE L == Len(out)
           q == Append(out, t)
<1>1. L \in Nat /\ DOMAIN out = 1 .. L /\ \A i \in 1 .. L : out[i] \in Catalogue
  OBVIOUS
<1>2. /\ \A i, j \in 1 .. L : i # j /\ out[i].rec # 0 => out[i].rec # out[j].rec
      /\ \A u \in T : u.rec # 0 => \E i \in 1 .. L : out[i].rec = u.rec
      /\ \A x : x \in BestCopies(T) <=> \E i \in 1 .. L : out[i] = x
  BY <1>1 DEF Kept, ToSet
<1> HIDE DEF L
<1>3. /\ q \in Seq(Catalogue) /\ DOMAIN q = 1 .. L + 1 /\ q[L + 1] = t
      /\ \A i \in 1 .. L : q[i] = out[i]
  <2>1. /\ q \in Seq(Catalogue) /\ Len(q) = Len(out) + 1 /\ q[Len(out) + 1] = t
        /\ \A i \in 1 .. Len(out) : q[i] = out[i]
    BY AppendProperties
  <2> HIDE DEF q
  <2> QED  BY <1>1, <2>1 DEF L
<1> HIDE DEF q
<1>4. \A i : i \in 1 .. L + 1 <=> i \in 1 .. L \/ i = L + 1
  BY <1>1
<1>5. \A i \in 1 .. L : t.rec = 0 \/ out[i].rec # t.rec
  BY <1>1
<1>6. ASSUME NEW i \in 1 .. L + 1, NEW j \in 1 .. L + 1, i # j, q[i].rec # 0
      PROVE  q[i].rec # q[j].rec
  <2>1. CASE i \in 1 .. L /\ j \in 1 .. L
    BY <1>2, <1>3, <1>6, <2>1
  <2>2. CASE i = L + 1 /\ j \in 1 .. L
    BY <1>3, <1>5, <1>6, <2>2
  <2>3. CASE i \in 1 .. L /\ j = L + 1
    BY <1>3, <1>5, <1>6, <2>3
  <2> QED  BY <1>4, <1>6, <2>1, <2>2, <2>3
<1>7. ASSUME NEW u \in T \cup {t}, u.rec # 0  PROVE \E i \in 1 .. L + 1 : q[i].rec = u.rec
  <2>1. CASE u \in T
    <3>1. PICK i \in 1 .. L : out[i].rec = u.rec
      BY <1>2, <1>7, <2>1
    <3> QED  BY <1>3, <1>4, <3>1
  <2>2. CASE u = t
    BY <1>3, <1>4, <2>2
  <2> QED  BY <2>1, <2>2
<1>8. \A u \in T : t.rec = 0 \/ u.rec # t.rec
  BY <1>2, <1>5
<1>9. ASSUME NEW x  PROVE x \in BestCopies(T \cup {t}) <=> x \in BestCopies(T) \/ x = t
  <2>1. x \in BestCopies(T \cup {t}) => x \in BestCopies(T) \/ x = t
    BY DEF BestCopies
  <2>2. x = t => x \in BestCopies(T \cup {t})
    BY <1>8 DEF BestCopies
  <2>3. x \in BestCopies(T) => x \in BestCopies(T \cup {t})
    BY <1>8 DEF BestCopies
  <2> QED  BY <2>1, <2>2, <2>3
<1>10. ASSUME NEW x  PROVE x \in ToSet(q) <=> x \in BestCopies(T \cup {t})
  <2>1. x \in ToSet(q) <=> \E i \in 1 .. L + 1 : q[i] = x
    BY <1>3 DEF ToSet
  <2>2. (\E i \in 1 .. L + 1 : q[i] = x) <=> (\E i \in 1 .. L : out[i] = x) \/ x = t
    BY <1>3, <1>4
  <2> QED  BY <1>2, <1>9, <2>1, <2>2
<1>11. ToSet(q) = BestCopies(T \cup {t})
  BY <1>10
<1> QED  BY <1>3, <1>6, <1>7, <1>11 DEF Kept, q

\* One of a recording already kept takes its place, or is left out.
LEMMA KeepsBetter ==
    ASSUME NEW T \in SUBSET Catalogue, NEW out \in Seq(Catalogue), Kept(out, T), NEW t \in Catalogue,
           NEW h \in DOMAIN out, t.rec # 0, out[h].rec = t.rec,
           NEW q, q = [i \in DOMAIN out |-> IF i = h /\ PreferredCopy(t, out[h]) THEN t ELSE out[i]]
    PROVE  q \in Seq(Catalogue) /\ Kept(q, T \cup {t})
<1> DEFINE L == Len(out)
           x == out[h]
<1>1. L \in Nat /\ DOMAIN out = 1 .. L /\ \A i \in 1 .. L : out[i] \in Catalogue
  OBVIOUS
<1>2. /\ \A i, j \in 1 .. L : i # j /\ out[i].rec # 0 => out[i].rec # out[j].rec
      /\ \A u \in T : u.rec # 0 => \E i \in 1 .. L : out[i].rec = u.rec
      /\ \A y : y \in BestCopies(T) <=> \E i \in 1 .. L : out[i] = y
  BY <1>1 DEF Kept, ToSet
<1> HIDE DEF L
<1>3. /\ \A a, b \in Catalogue : <<a, b>> \in CopyOrder <=> PreferredCopy(a, b)
      /\ Orders(CopyOrder)
  BY PreferredCopyOrders
<1>4. h \in 1 .. L /\ x \in Catalogue /\ x \in BestCopies(T) /\ x \in T
  BY <1>1, <1>2 DEF BestCopies
<1>5. \A i \in 1 .. L : out[i].rec = t.rec => i = h
  BY <1>2, <1>4
<1>6. \A u \in T : u.rec = t.rec => u = x \/ PreferredCopy(x, u)
  BY <1>4 DEF BestCopies
<1>7. \A y \in BestCopies(T) : y.rec = t.rec => y = x
  BY <1>2, <1>5
<1> HIDE DEF x
<1>8. x.rec = t.rec
  BY DEF x
<1>9. q = [i \in 1 .. L |-> IF i = h /\ PreferredCopy(t, x) THEN t ELSE out[i]]
  BY <1>1 DEF x
<1>10. q \in Seq(Catalogue) /\ DOMAIN q = 1 .. L
  BY <1>1, <1>9
<1>11. \A i \in 1 .. L : q[i].rec = out[i].rec
  BY <1>8, <1>9 DEF x
<1>12. ASSUME NEW i \in DOMAIN q, NEW j \in DOMAIN q, i # j, q[i].rec # 0
       PROVE  q[i].rec # q[j].rec
  BY <1>2, <1>10, <1>11, <1>12
<1>13. ASSUME NEW u \in T \cup {t}, u.rec # 0  PROVE \E i \in DOMAIN q : q[i].rec = u.rec
  <2>1. CASE u \in T
    BY <1>2, <1>10, <1>11, <1>13, <2>1
  <2>2. CASE u = t
    BY <1>4, <1>8, <1>10, <1>11, <2>2 DEF x
  <2> QED  BY <2>1, <2>2
<1>14. \A y : y \in ToSet(q) <=> \E i \in 1 .. L : q[i] = y
  BY <1>10 DEF ToSet
<1>15. CASE PreferredCopy(t, x)
  <2>1. x # t /\ ~PreferredCopy(x, t)
    BY <1>3, <1>4, <1>15 DEF Orders
  <2>2. \A u \in T : u.rec = t.rec => u = t \/ PreferredCopy(t, u)
    BY <1>3, <1>4, <1>6, <1>15 DEF Orders
  <2>3. ASSUME NEW y  PROVE y \in BestCopies(T \cup {t}) <=> (y \in BestCopies(T) /\ y # x) \/ y = t
    <3>1. ASSUME y \in BestCopies(T \cup {t}), y # t  PROVE y \in BestCopies(T) /\ y # x
      <4>1. y \in BestCopies(T)
        BY <3>1 DEF BestCopies
      <4>2. y # x
        BY <1>8, <2>1, <3>1 DEF BestCopies
      <4> QED  BY <4>1, <4>2
    <3>2. t \in BestCopies(T \cup {t})
      BY <2>2 DEF BestCopies
    <3>3. ASSUME y \in BestCopies(T), y # x  PROVE y \in BestCopies(T \cup {t})
      <4>1. y.rec # t.rec
        BY <1>7, <3>3
      <4> QED  BY <3>3, <4>1 DEF BestCopies
    <3> QED  BY <3>1, <3>2, <3>3
  <2>4. ASSUME NEW y  PROVE y \in ToSet(q) <=> (y \in BestCopies(T) /\ y # x) \/ y = t
    <3>1. \A i \in 1 .. L : q[i] = IF i = h THEN t ELSE out[i]
      BY <1>9, <1>15
    <3>2. \A i \in 1 .. L : out[i] = x => i = h
      BY <1>5, <1>8
    <3>3. out[h] = x
      BY DEF x
    <3>4. (\E i \in 1 .. L : q[i] = y) <=> ((\E i \in 1 .. L : out[i] = y) /\ y # x) \/ y = t
      <4>1. h \in 1 .. L /\ q[h] = t
        BY ONLY <1>4, <3>1
      <4>2. \A i \in 1 .. L : i # h => q[i] = out[i] /\ out[i] # x
        BY ONLY <3>1, <3>2
      <4> QED  BY ONLY <3>3, <4>1, <4>2
    <3>5. y \in BestCopies(T) <=> \E i \in 1 .. L : out[i] = y
      BY <1>2
    <3> QED  BY ONLY <1>14, <3>4, <3>5
  <2>5. ToSet(q) = BestCopies(T \cup {t})
    BY <2>3, <2>4
  <2> QED  BY <1>10, <1>12, <1>13, <2>5 DEF Kept
<1>16. CASE ~PreferredCopy(t, x)
  <2>1. x = t \/ PreferredCopy(x, t)
    BY <1>3, <1>4, <1>16 DEF Orders
  <2>2. ASSUME NEW y  PROVE y \in BestCopies(T \cup {t}) <=> y \in BestCopies(T)
    <3>1. ASSUME y \in BestCopies(T \cup {t})  PROVE y \in BestCopies(T)
      <4>1. CASE y = t
        <5>1. x = t
          BY <1>4, <1>8, <1>16, <3>1, <4>1 DEF BestCopies
        <5> QED  BY <1>4, <4>1, <5>1
      <4>2. CASE y # t
        BY <3>1, <4>2 DEF BestCopies
      <4> QED  BY <4>1, <4>2
    <3>2. ASSUME y \in BestCopies(T)  PROVE y \in BestCopies(T \cup {t})
      <4>1. y.rec # t.rec \/ y = x
        BY <1>7, <3>2
      <4>2. y.rec # t.rec \/ y = t \/ PreferredCopy(y, t)
        BY <2>1, <4>1
      <4> QED  BY <3>2, <4>2 DEF BestCopies
    <3> QED  BY <3>1, <3>2
  <2>3. \A i \in 1 .. L : q[i] = out[i]
    BY <1>9, <1>16
  <2>4. ASSUME NEW y  PROVE y \in ToSet(q) <=> y \in BestCopies(T \cup {t})
    <3>1. (\E i \in 1 .. L : q[i] = y) <=> (\E i \in 1 .. L : out[i] = y)
      BY ONLY <2>3
    <3>2. y \in BestCopies(T) <=> \E i \in 1 .. L : out[i] = y
      BY <1>2
    <3> QED  BY ONLY <1>14, <2>2, <3>1, <3>2
  <2>5. ToSet(q) = BestCopies(T \cup {t})
    BY ONLY <2>4
  <2> QED  BY <1>10, <1>12, <1>13, <2>5 DEF Kept
<1> QED  BY <1>15, <1>16

\* One round of the loop.
LEMMA KeepCollapses ==
    ASSUME NEW T \in SUBSET Catalogue, NEW out \in Seq(Catalogue), Kept(out, T), NEW t \in Catalogue
    PROVE  Keep(out, t) \in Seq(Catalogue) /\ Kept(Keep(out, t), T \cup {t})
<1> DEFINE same == {i \in DOMAIN out : t.rec # 0 /\ out[i].rec = t.rec}
<1>1. Keep(out, t) = IF same = {} THEN Append(out, t)
                     ELSE [i \in DOMAIN out |-> IF i \in same /\ PreferredCopy(t, out[i]) THEN t ELSE out[i]]
  BY DEF Keep
<1>2. CASE same = {}
  <2>1. \A i \in DOMAIN out : t.rec = 0 \/ out[i].rec # t.rec
    BY <1>2
  <2>2. Append(out, t) \in Seq(Catalogue) /\ Kept(Append(out, t), T \cup {t})
    BY <2>1, KeepsNew
  <2> QED  BY <1>1, <1>2, <2>2
<1>3. CASE same # {}
  <2>1. PICK h \in DOMAIN out : t.rec # 0 /\ out[h].rec = t.rec
    BY <1>3
  <2>2. \A i \in DOMAIN out : i \in same <=> i = h
    BY <2>1 DEF Kept
  <2> DEFINE q == [i \in DOMAIN out |-> IF i = h /\ PreferredCopy(t, out[h]) THEN t ELSE out[i]]
  <2> HIDE DEF same
  <2>3. Keep(out, t) = q
    BY <1>1, <1>3, <2>2
  <2>4. q \in Seq(Catalogue) /\ Kept(q, T \cup {t})
    <3>1. PICK r : r = q
      OBVIOUS
    <3>2. r = [i \in DOMAIN out |-> IF i = h /\ PreferredCopy(t, out[h]) THEN t ELSE out[i]]
      BY <3>1
    <3>3. r \in Seq(Catalogue) /\ Kept(r, T \cup {t})
      BY <2>1, <3>2, KeepsBetter
    <3> QED  BY <3>1, <3>3
  <2> QED  BY <2>3, <2>4
<1> QED  BY <1>2, <1>3

\* The loop leaves the best copies of what the list names.
LEMMA CollapseNames ==
    ASSUME NEW ts \in Seq(Catalogue)
    PROVE  CollapseByRecording(ts) \in Seq(Catalogue) /\ ToSet(CollapseByRecording(ts)) = BestCopies(ToSet(ts))
<1> DEFINE N == Len(ts)
           V == Seq(Catalogue)
           Seen(n) == {ts[i] : i \in 1 .. n}
           step == [p \in (1 .. N) \X V |-> Keep(p[2], ts[p[1]])]
           G == {p \in (0 .. N) \X V : Kept(p[2], Seen(p[1]))}
<1>1. N \in Nat /\ DOMAIN ts = 1 .. N /\ \A i \in 1 .. N : ts[i] \in Catalogue
  OBVIOUS
<1>2. <<>> \in V
  OBVIOUS
<1>3. <<0, <<>>>> \in G
  <2>1. Seen(0) = {}
    OBVIOUS
  <2>2. Kept(<<>>, {})
    <3>1. DOMAIN <<>> = {}
      BY NoEntries
    <3>2. ToSet(<<>>) = {} /\ BestCopies({}) = {}
      BY <3>1 DEF ToSet, BestCopies
    <3> QED  BY <3>1, <3>2 DEF Kept
  <2>3. 0 \in 0 .. N
    BY <1>1
  <2> HIDE DEF N, V, Seen
  <2> QED  BY <1>2, <2>1, <2>2, <2>3
<1>4. ASSUME NEW n \in 1 .. N, NEW d \in V, <<n - 1, d>> \in G
      PROVE  step[<<n, d>>] \in V /\ <<n, step[<<n, d>>]>> \in G
  <2>1. step[<<n, d>>] = Keep(d, ts[n]) /\ n \in 0 .. N
    BY <1>1
  <2>2. Kept(d, Seen(n - 1)) /\ ts[n] \in Catalogue
    BY <1>1, <1>4
  <2>3. Seen(n) = Seen(n - 1) \cup {ts[n]} /\ Seen(n - 1) \in SUBSET Catalogue
    <3>1. \A i : i \in 1 .. n <=> i \in 1 .. n - 1 \/ i = n
      BY <1>1
    <3>2. \A i \in 1 .. n - 1 : i \in 1 .. N
      BY <1>1
    <3> HIDE DEF N
    <3> QED  BY <1>1, <3>1, <3>2
  <2> HIDE DEF Seen, step, N
  <2>4. Keep(d, ts[n]) \in Seq(Catalogue) /\ Kept(Keep(d, ts[n]), Seen(n - 1) \cup {ts[n]})
    BY <2>2, <2>3, KeepCollapses
  <2> QED  BY <2>1, <2>3, <2>4
<1>5. LoopPreserves(N, V, <<>>, step, G)
  <2> HIDE DEF N, V, step, G
  <2> QED  BY <1>3, <1>4 DEF LoopPreserves
<1>6. LoopHolds(N, V, <<>>, step, G)
  <2> HIDE DEF N, V, step, G
  <2> QED  BY ONLY <1>1, <1>2, <1>5, LoopWithin
<1> DEFINE Rule(g) == g = [n \in 0 .. N |-> IF n = 0 THEN <<>> ELSE Keep(g[n - 1], ts[n])]
           w == CHOOSE g : Rule(g)
<1>7. CollapseByRecording(ts) = w[N]
  BY DEF CollapseByRecording, Collapsed
<1>8. \E g : Rule(g)
  <2>1. PICK g \in [0 .. N -> V] : Rounds(g, N, <<>>, step)
    <3> HIDE DEF N, V, step, G
    <3> QED  BY <1>6 DEF LoopHolds
  <2> HIDE DEF V
  <2>2. ASSUME NEW n \in 1 .. N  PROVE g[n] = Keep(g[n - 1], ts[n])
    <3>1. n - 1 \in 0 .. N
      BY <1>1
    <3>2. g[n - 1] \in V
      BY <3>1
    <3>3. g[n] = step[<<n, g[n - 1]>>]
      BY <2>1 DEF Rounds
    <3> QED  BY <3>2, <3>3
  <2>3. g[0] = <<>>
    BY <2>1 DEF Rounds
  <2> HIDE DEF step
  <2>4. ASSUME NEW n \in 0 .. N
        PROVE  g[n] = IF n = 0 THEN <<>> ELSE Keep(g[n - 1], ts[n])
    <3>1. n = 0 \/ n \in 1 .. N
      BY <1>1
    <3> QED  BY <2>2, <2>3, <3>1
  <2>5. g = [n \in 0 .. N |-> IF n = 0 THEN <<>> ELSE Keep(g[n - 1], ts[n])]
    <3> HIDE DEF N
    <3> QED  BY <2>4
  <2> QED  BY <2>5
<1>9. Rule(w)
  <2> HIDE DEF Rule
  <2> QED  BY <1>8
<1>10. PICK h : h = w
  OBVIOUS
<1>11. Rule(h)
  BY <1>9, <1>10
<1> HIDE DEF w
<1>12. InLoop(h, N, V, <<>>, step)
  <2>1. h[0] = <<>>
    BY <1>1, <1>11
  <2>2. ASSUME NEW n \in 1 .. N, h[n - 1] \in V  PROVE h[n] = step[<<n, h[n - 1]>>]
    <3>1. n \in 0 .. N /\ n # 0
      BY <1>1
    <3>2. h[n] = Keep(h[n - 1], ts[n])
      BY <1>11, <3>1
    <3> HIDE DEF V
    <3> QED  BY <2>2, <3>2
  <2> HIDE DEF step, N, V
  <2> QED  BY <2>1, <2>2 DEF InLoop
<1>13. \A n \in 0 .. N : h[n] \in V /\ <<n, h[n]>> \in G
  <2> HIDE DEF N, V, step, G
  <2> QED  BY <1>6, <1>12 DEF LoopHolds
<1>14. N \in 0 .. N
  BY <1>1
<1>15. h[N] \in V /\ Kept(h[N], Seen(N))
  <2>1. h[N] \in V /\ <<N, h[N]>> \in G
    BY <1>13, <1>14
  <2> HIDE DEF N, V, Seen
  <2> QED  BY <2>1
<1>16. Seen(N) = ToSet(ts)
  BY <1>1 DEF ToSet
<1> QED  BY <1>7, <1>10, <1>15, <1>16 DEF Kept

\* What is fresh to the seed, of a list.
LEMMA FreshNames ==
    ASSUME NEW s \in Seeds, NEW ts \in Seq(Catalogue)
    PROVE  Fresh(s, ts) \in Seq(Catalogue) /\ ToSet(Fresh(s, ts)) = {t \in ToSet(ts) : IsFresh(s, t)}
<1> DEFINE I == {i \in DOMAIN ts : IsFresh(s, ts[i])}
<1>1. I \in SUBSET DOMAIN ts /\ Fresh(s, ts) = Only(ts, I)
  BY DEF Fresh
<1>2. Only(ts, I) \in Seq(Catalogue) /\ \A x : x \in ToSet(Only(ts, I)) <=> \E i \in I : ts[i] = x
  <2> HIDE DEF I
  <2> QED  BY <1>1, OnlyKeeps, OnlyNames
<1>3. \A x : x \in ToSet(ts) <=> \E i \in DOMAIN ts : ts[i] = x
  BY DEF ToSet
<1>4. ASSUME NEW x  PROVE x \in ToSet(Only(ts, I)) <=> x \in {t \in ToSet(ts) : IsFresh(s, t)}
  <2>1. (\E i \in I : ts[i] = x) <=> (\E i \in DOMAIN ts : ts[i] = x) /\ IsFresh(s, x)
    OBVIOUS
  <2> HIDE DEF I
  <2> QED  BY <1>2, <1>3, <2>1
<1> QED  BY <1>1, <1>2, <1>4

\* A method's picks, whichever it is.
LEMMA SelectPicks ==
    ASSUME NEW m, NEW s \in Seeds, NEW ts \in Seq(Catalogue), NEW want \in Nat
    PROVE  /\ Picks(Select(m, s, ts, want), ToSet(ts), want)
           /\ m # "shuffle" => Chain(m, s, Select(m, s, ts, want), ToSet(ts))
BY GreedyPicks, ShufflePicks DEF Select

\* The tail a method makes of an offer.
LEMMA TailPicks ==
    ASSUME NEW m, NEW s \in Seeds, NEW ts \in Seq(Catalogue), NEW want \in Nat
    PROVE  LET best == BestCopies({t \in ToSet(ts) : IsFresh(s, t)})
           IN  /\ Picks(SelectTail(m, s, ts, want), best, want)
               /\ m # "shuffle" => Chain(m, s, SelectTail(m, s, ts, want), best)
<1> DEFINE best == BestCopies({t \in ToSet(ts) : IsFresh(s, t)})
           candidates == CollapseByRecording(Fresh(s, ts))
           picked == Select(m, s, candidates, want)
           I == {i \in DOMAIN candidates : candidates[i] \notin ToSet(picked)}
           rest == Only(candidates, I)
           more == Select("bpm", s, rest, want - Len(picked))
<1>1. candidates \in Seq(Catalogue) /\ ToSet(candidates) = best
  BY FreshNames, CollapseNames
<1> HIDE DEF candidates, best
<1>2. Picks(picked, best, want) /\ (m # "shuffle" => Chain(m, s, picked, best))
  BY <1>1, SelectPicks
<1>3. SelectTail(m, s, ts, want) =
          IF m = "harmonic" /\ Len(picked) < want THEN picked \o more ELSE picked
  BY DEF SelectTail, candidates
<1> HIDE DEF picked
<1>4. /\ picked \in Seq(Catalogue) /\ IsInjective(picked) /\ ToSet(picked) \subseteq best
      /\ Len(picked) = IF want <= Cardinality(best) THEN want ELSE Cardinality(best)
  BY <1>2 DEF Picks
<1>5. ASSUME Len(picked) < want  PROVE picked \o more = picked
  <2>1. Len(picked) = Cardinality(best) /\ Len(picked) \in Nat /\ want - Len(picked) \in Nat
    BY <1>4, <1>5
  <2>2. IsFiniteSet(best)
    BY <1>1, UniqueNames
  <2>3. Cardinality(ToSet(picked)) = Len(picked)
    BY <1>4, OnceCounts
  <2>4. best = ToSet(picked)
    BY <1>4, <2>1, <2>2, <2>3, FS_Subset
  <2>5. \A i \in DOMAIN candidates : candidates[i] \in ToSet(candidates)
    BY DEF ToSet
  <2>6. I = {}
    BY <1>1, <2>4, <2>5
  <2>7. I \in SUBSET DOMAIN candidates
    OBVIOUS
  <2> HIDE DEF I
  <2>8. rest \in Seq(Catalogue) /\ \A x : x \in ToSet(rest) <=> \E i \in I : candidates[i] = x
    BY <1>1, <2>7, OnlyKeeps, OnlyNames
  <2>9. ToSet(rest) = {}
    BY <2>6, <2>8
  <2> HIDE DEF rest
  <2>10. Picks(more, {}, want - Len(picked))
    BY <2>1, <2>8, <2>9, SelectPicks
  <2>11. more \in Seq(Catalogue) /\ ToSet(more) \subseteq {}
    BY <2>10 DEF Picks
  <2> HIDE DEF more
  <2>12. more = <<>>
    <3>1. Len(more) = 0
      BY <2>11, NamesOf
    <3> QED  BY <2>11, <3>1
  <2> QED  BY <1>4, <2>12
<1>6. SelectTail(m, s, ts, want) = picked
  BY <1>3, <1>5
<1> QED  BY <1>2, <1>6 DEF best

-----------------------------------------------------------------------------
(* The wheel.                                                              *)

\* The keys pool_list lets through are the ones that cost half a unit or nothing.
LEMMA NeighboursAreNear ==
    ASSUME NEW s \in Seeds, s.num # 0, NEW num \in 1 .. 12, NEW letter \in {"A", "B"}
    PROVE  <<num, letter>> \in Neighbours(s) <=> KeyPenalty(s, [num |-> num, letter |-> letter]) <= 1
<1> DEFINE a == s.num
           raw == Abs(a - num)
           y == [num |-> num, letter |-> letter]
           hours == Min({raw, 12 - raw})
           free == IF hours = 0 THEN 0 ELSE hours - 1
<1>1. a \in 1 .. 12 /\ s.letter \in {"A", "B"}
  BY FeaturesOf
<1> HIDE DEF a
<1>2. raw = (IF a - num < 0 THEN num - a ELSE a - num) /\ raw \in 0 .. 11
  BY <1>1 DEF Abs
<1> HIDE DEF raw
<1>3. hours = (IF raw <= 12 - raw THEN raw ELSE 12 - raw)
  <2>1. raw \in Nat /\ 12 - raw \in Nat
    BY <1>2
  <2> QED  BY <2>1, MinOfTwo
<1>4. KeyPenalty(s, y) = IF hours = 0 /\ s.letter # letter THEN 1
                         ELSE 2 * free + (IF s.letter = letter THEN 0 ELSE 3)
  <2>1. y.num = num /\ y.letter = letter /\ num # 0
    OBVIOUS
  <2> HIDE DEF y, hours
  <2>2. KeyPenalty(s, y) =
            CASE s.num = 0 \/ num = 0             -> 6
              [] s.num # 0 /\ num # 0 /\ hours = 0 /\ s.letter # letter -> 1
              [] OTHER -> 2 * free + (IF s.letter = letter THEN 0 ELSE 3)
    BY <2>1 DEF KeyPenalty, hours, raw, a
  <2> QED  BY <2>1, <2>2
<1> HIDE DEF hours
<1>5. hours \in 0 .. 6
  BY <1>2, <1>3
<1>6. KeyPenalty(s, y) <= 1 <=> hours = 0 \/ (hours = 1 /\ s.letter = letter)
  BY <1>4, <1>5
<1>7. hours = 0 <=> num = a
  BY <1>1, <1>2, <1>3
<1>8. hours = 1 <=> raw = 1 \/ raw = 11
  BY <1>2, <1>3
<1>9. raw = 1 \/ raw = 11 <=> num = (a % 12) + 1 \/ num = ((a + 10) % 12) + 1
  <2>1. /\ a % 12 = IF a = 12 THEN 0 ELSE a
        /\ (a + 10) % 12 = IF a = 1 THEN 11 ELSE a - 2
    BY <1>1
  <2> QED  BY <1>1, <1>2, <2>1
<1>10. <<num, letter>> \in Neighbours(s) <=>
           \/ (num = a /\ letter = s.letter) \/ (num = (a % 12) + 1 /\ letter = s.letter)
           \/ (num = ((a + 10) % 12) + 1 /\ letter = s.letter)
           \/ (num = a /\ letter = IF s.letter = "A" THEN "B" ELSE "A")
  BY DEF Neighbours, a
<1>11. letter = (IF s.letter = "A" THEN "B" ELSE "A") <=> letter # s.letter
  BY <1>1
<1> QED  BY <1>6, <1>7, <1>8, <1>9, <1>10, <1>11

-----------------------------------------------------------------------------
(* The tail.                                                               *)

\* An answer lists the pool.
LEMMA AnswerNames ==
    ASSUME NEW s \in Seeds, NEW o \in AnswerLists(s)
    PROVE  o \in Seq(Catalogue) /\ ToSet(o) = PoolList(s)
<1> DEFINE T == PoolList(s)
           n == Cardinality(T)
<1>1. T \in SUBSET Catalogue /\ IsFiniteSet(T)
  <2>1. T \in SUBSET Catalogue
    BY DEF PoolList
  <2> HIDE DEF T
  <2> QED  BY <2>1, FeaturesOf, FS_Subset
<1> HIDE DEF T
<1>2. n \in Nat
  BY <1>1, FS_CardinalityType
<1>3. ASSUME NEW p \in SetToSeqs(T)  PROVE p \in Seq(Catalogue) /\ ToSet(p) = T /\ Len(p) = n
  <2>1. p \in [1 .. n -> T] /\ \A i, j \in 1 .. n : i # j => p[i] # p[j]
    BY <1>3 DEF SetToSeqs
  <2> HIDE DEF n
  <2>2. p \in Seq(Catalogue) /\ Len(p) = n /\ DOMAIN p = 1 .. n
    BY <1>1, <1>2, <2>1
  <2>3. IsInjective(p) /\ ToSet(p) \in SUBSET T
    BY <2>1, <2>2 DEF IsInjective, ToSet
  <2>4. Cardinality(ToSet(p)) = n
    BY <2>2, <2>3, OnceCounts
  <2>5. ToSet(p) = T
    BY <1>1, <2>3, <2>4, FS_Subset DEF n
  <2> QED  BY <2>2, <2>5
<1>4. o \in SetToSeqs(T) \/ \E p \in SetToSeqs(T) \ {<<>>} : o = Append(p, p[1])
  BY DEF AnswerLists, T
<1>5. CASE o \in SetToSeqs(T)
  BY <1>3, <1>5 DEF T
<1>6. ASSUME NEW p \in SetToSeqs(T) \ {<<>>}, o = Append(p, p[1])
      PROVE  o \in Seq(Catalogue) /\ ToSet(o) = T
  <2>1. p \in Seq(Catalogue) /\ ToSet(p) = T /\ Len(p) # 0
    BY <1>3
  <2>2. /\ Len(p) \in Nat /\ \A x : x \in T <=> \E i \in 1 .. Len(p) : p[i] = x
    BY <2>1, NamesOf
  <2>3. 1 \in 1 .. Len(p) /\ p[1] \in T /\ p[1] \in Catalogue
    BY <1>1, <2>1, <2>2
  <2>4. /\ o \in Seq(Catalogue) /\ Len(o) = Len(p) + 1 /\ o[Len(p) + 1] = p[1]
        /\ \A i \in 1 .. Len(p) : o[i] = p[i]
    BY <1>6, <2>1, <2>3, AppendProperties
  <2>5. \A x : x \in ToSet(o) <=> \E i \in 1 .. Len(p) + 1 : o[i] = x
    BY <2>4, NamesOf
  <2>6. \A i : i \in 1 .. Len(p) + 1 <=> i \in 1 .. Len(p) \/ i = Len(p) + 1
    BY <2>2
  <2>7. ASSUME NEW x  PROVE x \in ToSet(o) <=> x \in T
    BY <2>2, <2>3, <2>4, <2>5, <2>6
  <2> QED  BY <2>4, <2>7
<1> QED  BY <1>4, <1>5, <1>6 DEF T

\* The tail is what the method makes of the answer, and nothing before there is one.
TailIInv ==
    /\ seed \in Seeds /\ method \in {"off", "harmonic", "bpm", "shuffle"} /\ need \in Needs \cup {0}
    /\ \/ need = 0 /\ offer = <<>> /\ tail = <<>>
       \/ need # 0 /\ offer = <<>> /\ tail = <<>>
       \/ need # 0 /\ offer \in AnswerLists(seed) /\ tail = SelectTail(method, seed, offer, need)

\* A tail made of an answer is a chain of the best there is.
LEMMA TailHolds == TailIInv => TailIsChain
<1> SUFFICES ASSUME TailIInv  PROVE TailIsChain
  OBVIOUS
<1> DEFINE fresh == {t \in PoolList(seed) : t.id # seed.id /\ (t.rec = 0 \/ t.rec # seed.rec)}
           best  == {t \in fresh : \A u \in fresh \ {t} :
                                     t.rec = 0 \/ t.rec # u.rec \/ PreferredCopy(t, u)}
           Links == method \in {"harmonic", "bpm"} =>
               \A i \in DOMAIN tail :
                   LET s == IF i = 1 THEN seed ELSE tail[i - 1]
                   IN  \A u \in best \ {tail[j] : j \in 1 .. i} :
                           LexLess(Rank(method, s, tail[i]), Rank(method, s, u))
           Long == offer # <<>> => Len(tail) = Min({need, Cardinality(best)})
           Wheel == seed.num # 0 => \A num \in 1 .. 12, letter \in {"A", "B"} :
               <<num, letter>> \in Neighbours(seed)
                   <=> KeyPenalty(seed, [num |-> num, letter |-> letter]) <= 1
<1>1. seed \in Seeds /\ need \in Nat
  <2>1. seed \in Seeds /\ need \in Needs \cup {0}
    BY DEF TailIInv
  <2>2. Needs \subseteq Nat \ {0}
    BY StrategiesAssumption
  <2> QED  BY <2>1, <2>2
<1>2. Wheel
  BY <1>1, NeighboursAreNear
<1>3. ToSet(tail) \subseteq best /\ IsInjective(tail) /\ Long /\ Links
  <2>1. CASE offer = <<>> /\ tail = <<>>
    <3>1. DOMAIN tail = {}
      BY <2>1, NoEntries
    <3> HIDE DEF best
    <3> QED  BY <2>1, <3>1 DEF ToSet, IsInjective
  <2>2. CASE offer \in AnswerLists(seed) /\ tail = SelectTail(method, seed, offer, need)
    <3>1. offer \in Seq(Catalogue) /\ ToSet(offer) = PoolList(seed)
      BY <1>1, <2>2, AnswerNames
    <3>2. best = BestCopies({t \in ToSet(offer) : IsFresh(seed, t)})
      <4>1. fresh = {t \in ToSet(offer) : IsFresh(seed, t)}
        BY <3>1 DEF IsFresh
      <4> HIDE DEF fresh
      <4> QED  BY <4>1 DEF BestCopies
    <3> HIDE DEF best
    <3>3. /\ Picks(tail, best, need)
          /\ method # "shuffle" => Chain(method, seed, tail, best)
      BY <1>1, <2>2, <3>1, <3>2, TailPicks
    <3>4. ToSet(tail) \subseteq best /\ IsInjective(tail)
          /\ Len(tail) = IF need <= Cardinality(best) THEN need ELSE Cardinality(best)
      BY <3>3 DEF Picks
    <3>5. Cardinality(best) \in Nat
      <4>1. best \in SUBSET Catalogue
        BY <3>1, <3>2 DEF BestCopies, PoolList
      <4> QED  BY <4>1, FeaturesOf, FS_Subset, FS_CardinalityType
    <3>6. Long
      BY <1>1, <3>4, <3>5, MinOfTwo
    <3>7. Links
      BY <3>3 DEF Chain, Compare
    <3> QED  BY <3>4, <3>6, <3>7
  <2> QED  BY <2>1, <2>2 DEF TailIInv
<1> QED  BY <1>2, <1>3 DEF TailIsChain

\* A new seed or a new method throws the tail away, and an answer makes one: the
\* method is applied to the answer as a whole (Ask, Regenerate).
LEMMA TailIInvIsInductive ==
    /\ StrategiesInit => TailIInv
    /\ TailIInv /\ [StrategiesNext]_strategyVars => TailIInv'
<1>1. StrategiesInit => TailIInv
  BY DEF StrategiesInit, TailIInv, Seeds
<1>2. ASSUME TailIInv, [StrategiesNext]_strategyVars  PROVE TailIInv'
  <2>1. ASSUME NEW s \in Catalogue \cup {NoSeed}, NEW m \in {"harmonic", "bpm", "shuffle"},
               NEW n \in Needs, Ask(s, m, n)
        PROVE  TailIInv'
    <3>1. n # 0
      BY StrategiesAssumption
    <3> QED  BY <1>2, <2>1, <3>1 DEF TailIInv, Ask, Seeds
  <2>2. CASE Regenerate
    BY <1>2, <2>2 DEF TailIInv, Regenerate
  <2>3. CASE UNCHANGED strategyVars
    BY <1>2, <2>3 DEF TailIInv, strategyVars
  <2> QED  BY <1>2, <2>1, <2>2, <2>3 DEF StrategiesNext
<1> QED  BY <1>1, <1>2

\* The tail of the queue is a chain of best compatible copies
\* (lib/queue-strategies.ts:228 greedyWalk, lib/queue-engine.ts regenerate): each
\* track is the nearest to the one before among those not yet taken, none is the
\* seed or another copy of its recording, no better copy of it was left out, and
\* it is as long as the copies allow.  For every catalogue, need and draw.
THEOREM TailChains == StrategiesSpec => []TailIsChain
<1>1. StrategiesSpec => []TailIInv
  BY TailIInvIsInductive, PTL DEF StrategiesSpec
<1> QED  BY <1>1, TailHolds, PTL

\* What the queue answers is a part of the catalogue.
LEMMA TailTypes == TailIInv => StrategiesTypeOK
<1> SUFFICES ASSUME TailIInv  PROVE StrategiesTypeOK
  OBVIOUS
<1>1. ToSet(offer) \subseteq Catalogue
  <2>1. CASE offer = <<>>
    BY <2>1 DEF ToSet
  <2>2. CASE offer \in AnswerLists(seed)
    BY <2>2, AnswerNames, NamesOf DEF TailIInv
  <2> QED  BY <2>1, <2>2 DEF TailIInv
<1> QED  BY <1>1 DEF TailIInv, StrategiesTypeOK, Seeds

\* Seeds, offers and tails are made of tracks of the catalogue.
THEOREM StrategiesTyped == StrategiesSpec => []StrategiesTypeOK
<1>1. StrategiesSpec => []TailIInv
  BY TailIInvIsInductive, PTL DEF StrategiesSpec
<1> QED  BY <1>1, TailTypes, PTL
===============================================================================
