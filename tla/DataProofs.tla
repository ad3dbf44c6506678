----------------------------- MODULE DataProofs -----------------------------
(***************************************************************************)
(* Facts about lists, finite sets and the operators that work through      *)
(* them, for the modules that prove the components.                        *)
(*                                                                         *)
(*   Subsequences  what a filter keeps, proved of Nth and Only             *)
(*   Induction     over the naturals and over the subsets of a finite set, *)
(*                 stated of a set G instead of a predicate                *)
(*   Recursion     what CHOOSE finds for a recursive function over the     *)
(*                 subsets of a finite set, as the folds define one        *)
(*   Sums          SumFunctionOnSet and SumFunction                        *)
(*   Loops         folds, and functions of the round, that keep a property *)
(*                 of what they carry                                      *)
(*                                                                         *)
(* Inductions over the naturals are by the least counterexample,           *)
(* LeastNatural, or by NaturalsInG.                                        *)
(***************************************************************************)
EXTENDS Subsequences, Sequences, SequencesExt, FiniteSetsExt, Functions,
        FiniteSetTheorems, SequenceTheorems, WellFoundedInduction, TLAPS

\* A set of natural numbers that is not empty has a least one.
LEMMA LeastNatural ==
    ASSUME NEW T \in SUBSET Nat, T # {}
    PROVE  \E x \in T : \A y \in T : x <= y
<1> DEFINE Less == {ss \in Nat \X Nat : ss[1] < ss[2]}
<1>1. IsWellFoundedOn(Less, Nat)
  BY NatLessThanWellFounded, Zenon DEF Less, OpToRel
<1>2. PICK x \in T : \A y \in T : ~(<<y, x>> \in Less)
  <2> HIDE DEF Less
  <2> QED  BY <1>1, WFMin, Zenon
<1>3. ASSUME NEW y \in T  PROVE x <= y
  <2>1. x \in Nat /\ y \in Nat
    OBVIOUS
  <2>2. ~(y < x)
    BY <1>2, <2>1
  <2> QED  BY <2>1, <2>2
<1> QED  BY <1>3

\* The place of an index among the members of I, as a count of them.
LEMMA PlaceFacts ==
    ASSUME NEW m \in Nat, NEW I \in SUBSET (1 .. m)
    PROVE  /\ IsFiniteSet(I) /\ Cardinality(I) \in Nat /\ Cardinality(I) <= m
           /\ Place(I, 0) = 0 /\ Place(I, m) = Cardinality(I)
           /\ \A i \in Nat : Place(I, i) \in 0 .. Cardinality(I)
           /\ \A i \in Nat : Place(I, i + 1) = IF i + 1 \in I THEN Place(I, i) + 1 ELSE Place(I, i)
           /\ \A i, k \in Nat : i <= k => Place(I, i) <= Place(I, k)
           /\ \A i \in Nat, k \in I : i < k => Place(I, i) < Place(I, k)
<1>0. \A j \in I : j \in Nat /\ 1 <= j /\ j <= m
  OBVIOUS
<1> USE <1>0
<1> DEFINE To(i) == {j \in I : j <= i}
<1>1. IsFiniteSet(I) /\ Cardinality(I) \in Nat /\ Cardinality(I) <= m
  <2>1. IsFiniteSet(1 .. m) /\ Cardinality(1 .. m) = m
    <3>1. IsFiniteSet(1 .. m) /\ Cardinality(1 .. m) = IF 1 > m THEN 0 ELSE m - 1 + 1
      BY FS_Interval
    <3> QED  BY <3>1
  <2> QED  BY <2>1, FS_Subset, FS_CardinalityType
<1>2. \A i \in Nat : IsFiniteSet(To(i)) /\ Cardinality(To(i)) \in Nat /\ Cardinality(To(i)) <= Cardinality(I)
  BY <1>1, FS_Subset, FS_CardinalityType
<1>9. \A i : To(i) \in SUBSET I /\ \A j \in I : j \in To(i) <=> j <= i
  OBVIOUS
<1>3. To(0) = {} /\ To(m) = I
  <2> HIDE DEF To
  <2>1. \A j \in I : j \notin To(0)
    BY <1>0, <1>9
  <2>2. \A j \in I : j \in To(m)
    BY <1>0, <1>9
  <2>3. To(0) \in SUBSET I /\ To(m) \in SUBSET I
    BY <1>9
  <2> QED  BY <2>1, <2>2, <2>3
<1>4. Cardinality({}) = 0
  BY FS_EmptySet
<1>5. ASSUME NEW i \in Nat
      PROVE  Cardinality(To(i + 1)) = IF i + 1 \in I THEN Cardinality(To(i)) + 1 ELSE Cardinality(To(i))
  <2>1. CASE i + 1 \in I
    <3> HIDE DEF To
    <3>0. \A j \in I : j \in To(i + 1) <=> j \in To(i) \/ j = i + 1
      BY <1>0, <1>9
    <3>1. To(i + 1) \in SUBSET I /\ To(i) \in SUBSET I /\ i + 1 \notin To(i)
      BY <1>9, <2>1
    <3>2. To(i + 1) = To(i) \cup {i + 1} /\ i + 1 \notin To(i)
      BY <2>1, <3>0, <3>1
    <3>3. IsFiniteSet(To(i))
      BY <1>2
    <3> QED  BY <2>1, <3>2, <3>3, FS_AddElement
  <2>2. CASE i + 1 \notin I
    <3>1. \A j \in I : j <= i + 1 <=> j <= i
      BY <2>2
    <3>2. To(i + 1) = To(i)
      BY <3>1
    <3> QED  BY <2>2, <3>2
  <2> QED  BY <2>1, <2>2
<1>6. ASSUME NEW i \in Nat, NEW k \in Nat, i <= k  PROVE Cardinality(To(i)) <= Cardinality(To(k))
  <2> HIDE DEF To
  <2>0. \A j \in I : j \in To(i) => j \in To(k)
    BY <1>0, <1>6, <1>9
  <2>1. To(i) \in SUBSET To(k)
    BY <1>9, <2>0
  <2> QED  BY <1>2, <2>1, FS_Subset
<1>7. ASSUME NEW i \in Nat, NEW k \in I, i < k  PROVE Cardinality(To(i)) < Cardinality(To(k))
  <2> HIDE DEF To
  <2>0. k \in Nat /\ k \in To(k) /\ k \notin To(i)
    BY <1>7, <1>9
  <2>3. \A j \in I : j \in To(i) => j \in To(k)
    BY <1>0, <1>7, <1>9, <2>0
  <2>1. To(i) \in SUBSET To(k) /\ k \in To(k) /\ k \notin To(i) /\ k \in Nat
    BY <1>9, <2>0, <2>3
  <2>2. To(i) # To(k) /\ IsFiniteSet(To(k)) /\ Cardinality(To(k)) \in Nat /\ Cardinality(To(i)) \in Nat
    BY <1>2, <2>1
  <2>4. Cardinality(To(i)) <= Cardinality(To(k)) /\ Cardinality(To(i)) # Cardinality(To(k))
    BY <2>1, <2>2, FS_Subset
  <2> QED  BY <2>2, <2>4
<1>8. \A i : Place(I, i) = Cardinality(To(i))
  BY DEF Place
<1> HIDE DEF To
<1>11. Place(I, 0) = 0 /\ Place(I, m) = Cardinality(I)
  BY ONLY <1>3, <1>4, <1>8
<1>10. \A i \in Nat : Place(I, i) \in 0 .. Cardinality(I)
  BY <1>1, <1>2, <1>8
<1>12. \A i \in Nat : Place(I, i + 1) = IF i + 1 \in I THEN Place(I, i) + 1 ELSE Place(I, i)
  BY ONLY <1>5, <1>8
<1>13. \A i, k \in Nat : i <= k => Place(I, i) <= Place(I, k)
  BY ONLY <1>6, <1>8
<1>14. \A i \in Nat, k \in I : i < k => Place(I, i) < Place(I, k)
  BY ONLY <1>7, <1>8
<1> QED  BY ONLY <1>1, <1>10, <1>11, <1>12, <1>13, <1>14

\* Each place is taken by one member.
LEMMA NthMember ==
    ASSUME NEW m \in Nat, NEW I \in SUBSET (1 .. m), NEW n \in 1 .. Cardinality(I)
    PROVE  Nth(I, n) \in I /\ Place(I, Nth(I, n)) = n
<1>0. \A j \in I : j \in Nat /\ 1 <= j /\ j <= m
  OBVIOUS
<1> USE PlaceFacts
<1> DEFINE T == {i \in Nat : Place(I, i) >= n}
<1>1. n \in Nat /\ m \in T
  <2>1. Cardinality(I) \in Nat /\ Place(I, m) = Cardinality(I)
    OBVIOUS
  <2> QED  BY <2>1
<1>2. PICK i \in T : \A j \in T : i <= j
  <2> T \in SUBSET Nat /\ T # {}
    BY <1>1
  <2> HIDE DEF T
  <2> QED  BY LeastNatural
<1>3. i # 0
  <2>1. Place(I, 0) = 0
    OBVIOUS
  <2> QED  BY <2>1, <1>2
<1> DEFINE h == i - 1
<1>4. h \in Nat /\ i = h + 1 /\ h \notin T
  BY <1>2, <1>3
<1>5. Place(I, h) \in Nat /\ Place(I, i) \in Nat /\ Place(I, h) < n /\ Place(I, i) >= n
  <2>1. Place(I, h) \in 0 .. Cardinality(I) /\ Place(I, i) \in 0 .. Cardinality(I)
    BY <1>4
  <2> QED  BY <1>2, <1>4, <2>1
<1>6. Place(I, i) = IF i \in I THEN Place(I, h) + 1 ELSE Place(I, h)
  <2> HIDE DEF h
  <2>1. h \in Nat /\ i = h + 1
    BY <1>4
  <2> QED  BY <2>1
<1>7. i \in I /\ Place(I, i) = n
  <2>1. CASE i \in I
    <3>1. Place(I, i) = Place(I, h) + 1
      BY <1>6, <2>1
    <3> HIDE DEF h, T
    <3>2. n \in Nat /\ Place(I, h) \in Nat /\ Place(I, h) < n /\ Place(I, i) >= n
      BY <1>1, <1>5
    <3> QED  BY ONLY <2>1, <3>1, <3>2
  <2>2. CASE i \notin I
    <3>1. Place(I, i) = Place(I, h)
      BY <1>6, <2>2
    <3> HIDE DEF h, T
    <3> QED  BY <1>1, <1>5, <3>1
  <2> QED  BY <2>1, <2>2
<1> QED  BY <1>7 DEF Nth

\* Each member has its place: Nth is onto.
LEMMA NthOfPlace ==
    ASSUME NEW m \in Nat, NEW I \in SUBSET (1 .. m), NEW i \in I
    PROVE  Place(I, i) \in 1 .. Cardinality(I) /\ Nth(I, Place(I, i)) = i
<1>0. \A j \in I : j \in Nat /\ 1 <= j /\ j <= m
  OBVIOUS
<1>1. Place(I, i) \in 0 .. Cardinality(I) /\ Cardinality(I) \in Nat
  BY <1>0, PlaceFacts
<1>2. Place(I, 0) < Place(I, i) /\ Place(I, 0) = 0
  <2>1. 0 \in Nat /\ 0 < i
    BY <1>0
  <2> QED  BY <2>1, PlaceFacts
<1>3. Place(I, i) \in 1 .. Cardinality(I)
  BY <1>1, <1>2
<1> DEFINE k == Nth(I, Place(I, i))
<1>4. k \in I /\ Place(I, k) = Place(I, i)
  BY <1>3, NthMember
<1>5. ~(k < i) /\ ~(i < k)
  <2> HIDE DEF k
  <2>0. k \in Nat /\ i \in Nat /\ Place(I, i) \in Nat
    BY <1>0, <1>1, <1>4
  <2>1. k < i => Place(I, k) < Place(I, i)
    BY <2>0, PlaceFacts
  <2>2. i < k => Place(I, i) < Place(I, k)
    BY <1>4, <2>0, PlaceFacts
  <2> QED  BY <1>4, <2>0, <2>1, <2>2
<1>6. k = i
  <2> HIDE DEF k
  <2> QED  BY <1>0, <1>4, <1>5
<1> QED  BY <1>3, <1>6

\* The members come in their order.
LEMMA NthOrdered ==
    ASSUME NEW m \in Nat, NEW I \in SUBSET (1 .. m),
           NEW a \in 1 .. Cardinality(I), NEW b \in 1 .. Cardinality(I), a < b
    PROVE  Nth(I, a) < Nth(I, b)
<1>0. \A j \in I : j \in Nat /\ 1 <= j /\ j <= m
  OBVIOUS
<1>1. Nth(I, a) \in I /\ Nth(I, b) \in I /\ Place(I, Nth(I, a)) = a /\ Place(I, Nth(I, b)) = b
  BY NthMember
<1>2. Nth(I, a) \in Nat /\ Nth(I, b) \in Nat /\ Cardinality(I) \in Nat
  BY <1>0, <1>1, PlaceFacts
<1>3. Nth(I, b) <= Nth(I, a) => b <= a
  <2>1. Nth(I, b) <= Nth(I, a) => Place(I, Nth(I, b)) <= Place(I, Nth(I, a))
    BY <1>2, PlaceFacts
  <2> QED  BY <1>1, <2>1
<1> QED  BY <1>2, <1>3

\* g lists the members of I in their order, each once.
Enumerates(g, c, I) ==
    /\ g \in [1 .. c -> I]
    /\ \A a, b \in 1 .. c : a < b => g[a] < g[b]
    /\ \A i \in I : \E n \in 1 .. c : g[n] = i

\* A list of the members in their order is the only one.
LEMMA Enumerated ==
    ASSUME NEW m \in Nat, NEW I \in SUBSET (1 .. m), NEW c \in Nat, NEW g, Enumerates(g, c, I)
    PROVE  Cardinality(I) = c /\ \A n \in 1 .. c : Nth(I, n) = g[n]
<1>a. /\ g \in [1 .. c -> I]
      /\ \A a, b \in 1 .. c : a < b => g[a] < g[b]
      /\ \A i \in I : \E n \in 1 .. c : g[n] = i
  BY DEF Enumerates
<1> USE <1>a
<1>0. \A j \in I : j \in Nat /\ 1 <= j /\ j <= m
  OBVIOUS
<1>1. \A a, b \in 1 .. c : g[a] = g[b] => a = b
  <2>1. c \in Nat /\ \A a \in 1 .. c : g[a] \in Nat
    BY <1>0
  <2>2. \A a, b \in 1 .. c : a < b => g[a] < g[b]
    OBVIOUS
  <2>3. ASSUME NEW a \in 1 .. c, NEW b \in 1 .. c, g[a] = g[b]  PROVE a = b
    <3>1. ~(a < b) /\ ~(b < a)
      BY ONLY <2>1, <2>2, <2>3
    <3> QED  BY ONLY <2>1, <3>1
  <2> QED  BY ONLY <2>3
<1>2. Cardinality(I) = c
  <2>1. g \in Bijection(1 .. c, I)
    BY <1>1 DEF Bijection, Injection, Surjection, IsInjective
  <2> QED  BY <2>1, FS_CountingElements DEF ExistsBijection
<1>3. ASSUME NEW n \in 1 .. c  PROVE Place(I, g[n]) = n
  <2> DEFINE B == {j \in I : j <= g[n]}
             h == [k \in 1 .. n |-> g[k]]
  <2>1. \A a \in 1 .. c : g[a] \in I /\ g[a] \in Nat
    BY <1>0
  <2>2. \A k \in 1 .. n : k \in 1 .. c /\ g[k] \in B
    BY <2>1
  <2>3. ASSUME NEW j \in B  PROVE \E k \in 1 .. n : g[k] = j
    <3>1. PICK k \in 1 .. c : g[k] = j
      OBVIOUS
    <3>2. ~(n < k)
      BY <2>1, <3>1
    <3> QED  BY <3>1, <3>2
  <2>4. h \in Bijection(1 .. n, B)
    BY <1>1, <2>2, <2>3 DEF Bijection, Injection, Surjection, IsInjective
  <2>5. Cardinality(B) = n
    <3> n \in Nat
      OBVIOUS
    <3> HIDE DEF B, h
    <3> QED  BY <2>4, FS_CountingElements DEF ExistsBijection
  <2> QED  BY <2>5 DEF Place
<1>4. ASSUME NEW n \in 1 .. c  PROVE Nth(I, n) = g[n]
  <2>1. g[n] \in I
    OBVIOUS
  <2> QED  BY <1>3, <2>1, NthOfPlace
<1> QED  BY <1>2, <1>4

\* What a filter keeps of a list: a list of the elements at I, each once.
LEMMA OnlyKeeps ==
    ASSUME NEW S, NEW s \in Seq(S), NEW I \in SUBSET DOMAIN s
    PROVE  /\ Only(s, I) \in Seq(S)
           /\ Len(Only(s, I)) = Cardinality(I) /\ DOMAIN Only(s, I) = 1 .. Cardinality(I)
           /\ Cardinality(I) \in Nat /\ Cardinality(I) <= Len(s)
           /\ \A n \in 1 .. Cardinality(I) : Nth(I, n) \in I /\ Only(s, I)[n] = s[Nth(I, n)]
           /\ \A i \in I : Place(I, i) \in 1 .. Cardinality(I) /\ Only(s, I)[Place(I, i)] = s[i]
           /\ \A a, b \in 1 .. Cardinality(I) : a < b => Nth(I, a) < Nth(I, b)
<1>1. Len(s) \in Nat /\ DOMAIN s = 1 .. Len(s) /\ \A i \in 1 .. Len(s) : s[i] \in S
  OBVIOUS
<1>2. I \in SUBSET (1 .. Len(s))
  BY <1>1
<1>3. Cardinality(I) \in Nat /\ Cardinality(I) <= Len(s)
  BY <1>1, <1>2, PlaceFacts
<1>4. \A n \in 1 .. Cardinality(I) : Nth(I, n) \in I
  BY <1>1, <1>2, NthMember
<1>5. \A n \in 1 .. Cardinality(I) : s[Nth(I, n)] \in S
  BY <1>1, <1>4
<1>6. Only(s, I) \in [1 .. Cardinality(I) -> S]
  BY <1>5 DEF Only
<1>7. Only(s, I) \in Seq(S)
  BY <1>3, <1>6, SeqDef
<1>8. Len(Only(s, I)) = Cardinality(I) /\ DOMAIN Only(s, I) = 1 .. Cardinality(I)
  BY <1>3, <1>6, <1>7, LenProperties
<1>9. \A n \in 1 .. Cardinality(I) : Only(s, I)[n] = s[Nth(I, n)]
  BY DEF Only
<1>10. \A i \in I : Place(I, i) \in 1 .. Cardinality(I) /\ Nth(I, Place(I, i)) = i
  BY <1>1, <1>2, NthOfPlace
<1>11. \A a, b \in 1 .. Cardinality(I) : a < b => Nth(I, a) < Nth(I, b)
  BY <1>1, <1>2, NthOrdered
<1> QED  BY <1>3, <1>4, <1>7, <1>8, <1>9, <1>10, <1>11

\* A list is what a filter keeps when it lists the elements at I in order.
LEMMA OnlyIs ==
    ASSUME NEW S, NEW s \in Seq(S), NEW I \in SUBSET DOMAIN s, NEW t \in Seq(S),
           NEW g \in [1 .. Len(t) -> I],
           \A a, b \in 1 .. Len(t) : a < b => g[a] < g[b],
           \A i \in I : \E n \in 1 .. Len(t) : g[n] = i,
           \A n \in 1 .. Len(t) : t[n] = s[g[n]]
    PROVE  Only(s, I) = t
<1>1. Len(s) \in Nat /\ Len(t) \in Nat /\ I \in SUBSET (1 .. Len(s))
  OBVIOUS
<1>2. Cardinality(I) = Len(t) /\ \A n \in 1 .. Len(t) : Nth(I, n) = g[n]
  <2> DEFINE m == Len(s)
             c == Len(t)
  <2>1. m \in Nat /\ c \in Nat /\ I \in SUBSET (1 .. m) /\ g \in [1 .. c -> I]
    BY <1>1
  <2>2. /\ \A a, b \in 1 .. c : a < b => g[a] < g[b]
        /\ \A i \in I : \E n \in 1 .. c : g[n] = i
    OBVIOUS
  <2> HIDE DEF m, c
  <2>3. Enumerates(g, c, I)
    BY ONLY <2>1, <2>2 DEF Enumerates
  <2>4. Cardinality(I) = c /\ \A n \in 1 .. c : Nth(I, n) = g[n]
    BY ONLY <2>1, <2>3, Enumerated
  <2> QED  BY ONLY <2>4 DEF c
<1>3. Only(s, I) = [n \in 1 .. Len(t) |-> t[n]]
  BY <1>2 DEF Only
<1>4. t \in [1 .. Len(t) -> S]
  BY LenProperties
<1> QED  BY <1>3, <1>4

\* The same, for a t that g matches with the members of I.
Matches(s, I, t, g) ==
    /\ g \in [1 .. Len(t) -> I]
    /\ \A a, b \in 1 .. Len(t) : a < b => g[a] < g[b]
    /\ \A i \in I : \E n \in 1 .. Len(t) : g[n] = i
    /\ \A n \in 1 .. Len(t) : t[n] = s[g[n]]

\* A list matched with I, in order, is what Only keeps.
LEMMA OnlyMatches ==
    ASSUME NEW S, NEW s \in Seq(S), NEW I \in SUBSET DOMAIN s, NEW t \in Seq(S), NEW g,
           Matches(s, I, t, g)
    PROVE  Only(s, I) = t
<1> USE DEF Matches
<1>1. g \in [1 .. Len(t) -> I]
  OBVIOUS
<1>2. /\ \A a, b \in 1 .. Len(t) : a < b => g[a] < g[b]
      /\ \A i \in I : \E n \in 1 .. Len(t) : g[n] = i
      /\ \A n \in 1 .. Len(t) : t[n] = s[g[n]]
  OBVIOUS
<1> HIDE DEF Matches
<1> QED  BY <1>1, <1>2, OnlyIs, SMTT(60)

\* What a list names.
LEMMA NamesOf ==
    ASSUME NEW S, NEW s \in Seq(S)
    PROVE  /\ Len(s) \in Nat /\ DOMAIN s = 1 .. Len(s) /\ \A i \in 1 .. Len(s) : s[i] \in S
           /\ \A x : x \in ToSet(s) <=> \E i \in 1 .. Len(s) : s[i] = x
           /\ ToSet(s) \subseteq S
BY DEF ToSet

\* A filter names what it kept, and no element twice if the list did not.
LEMMA OnlyNames ==
    ASSUME NEW S, NEW s \in Seq(S), NEW I \in SUBSET DOMAIN s
    PROVE  /\ \A x : x \in ToSet(Only(s, I)) <=> \E i \in I : s[i] = x
           /\ IsInjective(s) => IsInjective(Only(s, I))
<1> DEFINE t == Only(s, I)
           c == Cardinality(I)
<1>1. /\ t \in Seq(S) /\ Len(t) = c /\ c \in Nat
      /\ \A n \in 1 .. c : Nth(I, n) \in I /\ t[n] = s[Nth(I, n)]
      /\ \A i \in I : Place(I, i) \in 1 .. c /\ t[Place(I, i)] = s[i]
      /\ \A a, b \in 1 .. c : a < b => Nth(I, a) < Nth(I, b)
  BY OnlyKeeps
<1>2. DOMAIN t = 1 .. c
  BY <1>1
<1> HIDE DEF t, c
<1>3. \A x : x \in ToSet(t) <=> \E i \in I : s[i] = x
  BY <1>1, <1>2 DEF ToSet
<1>4. ASSUME IsInjective(s)  PROVE IsInjective(t)
  <2> SUFFICES ASSUME NEW a \in 1 .. c, NEW b \in 1 .. c, t[a] = t[b]  PROVE a = b
    BY <1>2 DEF IsInjective
  <2>1. /\ Nth(I, a) \in I /\ t[a] = s[Nth(I, a)]
        /\ Nth(I, b) \in I /\ t[b] = s[Nth(I, b)]
    BY <1>1
  <2>2. Nth(I, a) = Nth(I, b)
    BY <1>4, <2>1 DEF IsInjective
  <2>3. Nth(I, a) \in Nat
    BY <2>1
  <2>4. ~(Nth(I, a) < Nth(I, b)) /\ ~(Nth(I, b) < Nth(I, a))
    BY <2>2, <2>3
  <2>5. ~(a < b) /\ ~(b < a)
    BY <1>1, <2>4
  <2> QED  BY <1>1, <2>5
<1> QED  BY <1>3, <1>4 DEF t

\* A list that names nothing twice is as long as what it names.
LEMMA OnceCounts ==
    ASSUME NEW S, NEW p \in Seq(S), IsInjective(p)
    PROVE  IsFiniteSet(ToSet(p)) /\ Cardinality(ToSet(p)) = Len(p)
<1>1. /\ Len(p) \in Nat /\ DOMAIN p = 1 .. Len(p)
      /\ \A x : x \in ToSet(p) <=> \E i \in 1 .. Len(p) : p[i] = x
  BY NamesOf
<1> DEFINE n == Len(p)
           T == ToSet(p)
<1>2. p \in [1 .. n -> T]
  BY <1>1
<1>3. n \in Nat /\ (\A a, b \in 1 .. n : p[a] = p[b] => a = b) /\ \A x \in T : \E i \in 1 .. n : p[i] = x
  BY <1>1 DEF IsInjective
<1> HIDE DEF n, T
<1>4. p \in Bijection(1 .. n, T)
  BY <1>2, <1>3 DEF Bijection, Injection, Surjection, IsInjective
<1>5. ExistsBijection(1 .. n, T)
  BY <1>4 DEF ExistsBijection
<1>6. Cardinality(T) = n
  BY <1>3, <1>5, FS_CountingElements
<1>7. IsFiniteSet(T)
  BY <1>3, <1>5, FS_NatBijection
<1> QED  BY <1>6, <1>7 DEF n, T

\* A list without its element at a: the ones behind it move up.
LEMMA RemoveAtFacts ==
    ASSUME NEW S, NEW s \in Seq(S), NEW a \in 1 .. Len(s)
    PROVE  /\ RemoveAt(s, a) \in Seq(S) /\ Len(RemoveAt(s, a)) = Len(s) - 1
           /\ \A i \in 1 .. Len(s) - 1 : RemoveAt(s, a)[i] = IF i < a THEN s[i] ELSE s[i + 1]
<1> DEFINE l == Len(s)
           u == SubSeq(s, 1, a - 1)
           v == SubSeq(s, a + 1, l)
<1>1. l \in Nat /\ a \in Nat /\ 1 <= a /\ a <= l /\ \A i \in 1 .. l : s[i] \in S
  OBVIOUS
<1> HIDE DEF l
<1>2. /\ u \in Seq(S) /\ Len(u) = a - 1 /\ \A i \in 1 .. a - 1 : u[i] = s[i]
  <2>1. 1 \in Int /\ a - 1 \in Int /\ \A i \in 1 .. a - 1 : s[i] \in S
    BY <1>1
  <2>2. /\ u \in Seq(S) /\ Len(u) = IF 1 <= a - 1 THEN (a - 1) - 1 + 1 ELSE 0
        /\ \A i \in 1 .. (a - 1) - 1 + 1 : u[i] = s[1 + i - 1]
    BY <2>1, SubSeqProperties
  <2> HIDE DEF u
  <2> QED  BY <1>1, <2>2
<1>3. /\ v \in Seq(S) /\ Len(v) = l - a /\ \A i \in 1 .. l - a : v[i] = s[a + i]
  <2>1. a + 1 \in Int /\ l \in Int /\ \A i \in a + 1 .. l : s[i] \in S
    BY <1>1
  <2>2. /\ v \in Seq(S) /\ Len(v) = IF a + 1 <= l THEN l - (a + 1) + 1 ELSE 0
        /\ \A i \in 1 .. l - (a + 1) + 1 : v[i] = s[(a + 1) + i - 1]
    BY <2>1, SubSeqProperties
  <2> HIDE DEF v
  <2>3. Len(v) = l - a
    BY <1>1, <2>2
  <2>4. ASSUME NEW i \in 1 .. l - a  PROVE v[i] = s[a + i]
    <3>1. i \in 1 .. l - (a + 1) + 1 /\ (a + 1) + i - 1 = a + i
      BY <1>1
    <3> QED  BY <2>2, <3>1
  <2> QED  BY <2>2, <2>3, <2>4
<1>4. RemoveAt(s, a) = u \o v
  BY DEF RemoveAt, l
<1> HIDE DEF u, v
<1>5. /\ u \o v \in Seq(S) /\ Len(u \o v) = Len(u) + Len(v)
      /\ \A i \in 1 .. Len(u) + Len(v) : (u \o v)[i] = IF i <= Len(u) THEN u[i] ELSE v[i - Len(u)]
  BY <1>2, <1>3, ConcatProperties
<1>6. Len(u \o v) = l - 1
  BY <1>1, <1>2, <1>3, <1>5
<1>7. ASSUME NEW i \in 1 .. l - 1  PROVE (u \o v)[i] = IF i < a THEN s[i] ELSE s[i + 1]
  <2>1. i \in 1 .. Len(u) + Len(v)
    BY <1>1, <1>2, <1>3
  <2>2. CASE i < a
    BY <1>1, <1>2, <1>5, <2>1, <2>2
  <2>3. CASE ~(i < a)
    <3> DEFINE k == i - Len(u)
    <3>1. k \in 1 .. l - a /\ a + k = i + 1 /\ ~(i <= Len(u))
      BY <1>1, <1>2, <2>3
    <3> HIDE DEF k
    <3>2. v[k] = s[a + k]
      BY <1>3, <3>1
    <3> QED  BY <1>5, <2>1, <2>3, <3>1, <3>2 DEF k
  <2> QED  BY <2>2, <2>3
<1> QED  BY <1>4, <1>5, <1>6, <1>7 DEF l

\* A list with an element put in at b: the ones from there on move down.
LEMMA InsertAtFacts ==
    ASSUME NEW S, NEW s \in Seq(S), NEW e \in S, NEW b \in 1 .. Len(s) + 1
    PROVE  /\ InsertAt(s, b, e) \in Seq(S) /\ Len(InsertAt(s, b, e)) = Len(s) + 1
           /\ \A i \in 1 .. Len(s) + 1 :
                 InsertAt(s, b, e)[i] = IF i < b THEN s[i] ELSE IF i = b THEN e ELSE s[i - 1]
<1> DEFINE l == Len(s)
           u == SubSeq(s, 1, b - 1)
           v == SubSeq(s, b, l)
           w == u \o <<e>>
<1>1. l \in Nat /\ b \in Nat /\ 1 <= b /\ b <= l + 1 /\ \A i \in 1 .. l : s[i] \in S
  OBVIOUS
<1> HIDE DEF l
<1>2. /\ u \in Seq(S) /\ Len(u) = b - 1 /\ \A i \in 1 .. b - 1 : u[i] = s[i]
  <2>1. 1 \in Int /\ b - 1 \in Int /\ \A i \in 1 .. b - 1 : s[i] \in S
    BY <1>1
  <2>2. /\ u \in Seq(S) /\ Len(u) = IF 1 <= b - 1 THEN (b - 1) - 1 + 1 ELSE 0
        /\ \A i \in 1 .. (b - 1) - 1 + 1 : u[i] = s[1 + i - 1]
    BY <2>1, SubSeqProperties
  <2> HIDE DEF u
  <2> QED  BY <1>1, <2>2
<1>3. /\ v \in Seq(S) /\ Len(v) = l - b + 1 /\ \A i \in 1 .. l - b + 1 : v[i] = s[b + i - 1]
  <2>1. b \in Int /\ l \in Int /\ \A i \in b .. l : s[i] \in S
    BY <1>1
  <2>2. /\ v \in Seq(S) /\ Len(v) = IF b <= l THEN l - b + 1 ELSE 0
        /\ \A i \in 1 .. l - b + 1 : v[i] = s[b + i - 1]
    BY <2>1, SubSeqProperties
  <2> HIDE DEF v
  <2> QED  BY <1>1, <2>2
<1>4. InsertAt(s, b, e) = w \o v
  BY DEF InsertAt, l
<1>5. /\ w \in Seq(S) /\ Len(w) = b
      /\ \A i \in 1 .. b : w[i] = IF i < b THEN s[i] ELSE e
  <2> HIDE DEF u
  <2>1. <<e>> \in Seq(S) /\ Len(<<e>>) = 1 /\ <<e>>[1] = e
    OBVIOUS
  <2>2. /\ w \in Seq(S) /\ Len(w) = Len(u) + 1
        /\ \A i \in 1 .. Len(u) + 1 : w[i] = IF i <= Len(u) THEN u[i] ELSE <<e>>[i - Len(u)]
    BY <1>2, <2>1, ConcatProperties
  <2> HIDE DEF w
  <2> QED  BY SMTT(30), <1>1, <1>2, <2>1, <2>2
<1> HIDE DEF w, v
<1>6. /\ w \o v \in Seq(S) /\ Len(w \o v) = Len(w) + Len(v)
      /\ \A i \in 1 .. Len(w) + Len(v) : (w \o v)[i] = IF i <= Len(w) THEN w[i] ELSE v[i - Len(w)]
  BY <1>3, <1>5, ConcatProperties
<1>7. Len(w \o v) = l + 1
  BY <1>1, <1>3, <1>5, <1>6
<1>8. ASSUME NEW i \in 1 .. l + 1
      PROVE  (w \o v)[i] = IF i < b THEN s[i] ELSE IF i = b THEN e ELSE s[i - 1]
  <2>1. i \in 1 .. Len(w) + Len(v)
    BY <1>1, <1>3, <1>5
  <2>2. CASE i <= b
    BY <1>1, <1>5, <1>6, <2>1, <2>2
  <2>3. CASE ~(i <= b)
    <3> DEFINE k == i - b
    <3>1. k \in 1 .. l - b + 1 /\ b + k - 1 = i - 1 /\ ~(i <= Len(w)) /\ i - Len(w) = k
      BY <1>1, <1>5, <2>3
    <3> HIDE DEF k
    <3>2. v[k] = s[b + k - 1]
      BY <1>3, <3>1
    <3> QED  BY <1>1, <1>6, <2>1, <2>3, <3>1, <3>2
  <2> QED  BY <2>2, <2>3
<1> QED  BY <1>4, <1>6, <1>7, <1>8 DEF l

-----------------------------------------------------------------------------
(* Induction and recursion.                                                *)

\* Induction over the naturals, for the predicate "is a member of G".
LEMMA NaturalsInG ==
    ASSUME NEW G, 0 \in G, \A n \in Nat : n \in G => n + 1 \in G
    PROVE  \A n \in Nat : n \in G
<1> SUFFICES ASSUME Nat \ G # {}  PROVE FALSE
  OBVIOUS
<1>1. PICK n \in Nat \ G : \A m \in Nat \ G : n <= m
  BY LeastNatural
<1>2. n # 0 /\ n - 1 \in Nat /\ n - 1 \in G
  BY <1>1
<1> QED  BY <1>1, <1>2

\* Induction over the subsets of a finite set: a subset is good when all smaller
\* ones are.
LEMMA SubsetsInG ==
    ASSUME NEW S, IsFiniteSet(S), NEW G,
           \A T \in SUBSET S : (\A U \in SUBSET T : U # T => U \in G) => T \in G
    PROVE  \A T \in SUBSET S : T \in G
<1> SUFFICES ASSUME (SUBSET S) \ G # {}  PROVE FALSE
  OBVIOUS
<1>1. (SUBSET S) \ G \subseteq FiniteSubsetsOf(S)
  BY FS_FiniteSubsetsOfFinite
<1> DEFINE R == StrictSubsetOrdering(S)
           F == FiniteSubsetsOf(S)
           B == (SUBSET S) \ G
<1>a. IsWellFoundedOn(R, F)
  BY FS_StrictSubsetOrderingWellFounded
<1>b. B \subseteq F /\ B # {}
  BY <1>1
<1> HIDE DEF R, F, B
<1>2. PICK T \in B : \A U \in B : ~(<<U, T>> \in R)
  BY <1>a, <1>b, WFMin
<1> USE DEF R, B
<1>3. ASSUME NEW U \in SUBSET T, U # T, U \notin G PROVE FALSE
  <2>1. <<U, T>> \in (SUBSET S) \X (SUBSET S)
    BY <1>3
  <2>2. <<U, T>> \in StrictSubsetOrdering(S)
    BY <1>3, <2>1 DEF StrictSubsetOrdering
  <2> QED  BY <1>2, <1>3, <2>2
<1> QED  BY <1>2, <1>3

\* A recursion over the subsets of S: `cut` says what a step takes off a subset,
\* `step` what it makes of the subset and the value of what is left.
CutsDown(S, cut) ==
    /\ cut \in [SUBSET S -> SUBSET S]
    /\ \A T \in SUBSET S : T # {} => cut[T] # {} /\ cut[T] \subseteq T

SolvesRecursion(g, S, base, cut, step) ==
    \A T \in SUBSET S : g[T] = IF T = {} THEN base ELSE step[<<T, g[T \ cut[T]]>>]

\* A recursion over the subsets of a finite set that cuts something off in every
\* step defines a function.
LEMMA RecursionOverSubsets ==
    ASSUME NEW S, IsFiniteSet(S), NEW V, NEW base \in V,
           NEW step \in [(SUBSET S) \X V -> V], NEW cut, CutsDown(S, cut)
    PROVE  \E g \in [SUBSET S -> V] : SolvesRecursion(g, S, base, cut, step)
<1> USE DEF CutsDown, SolvesRecursion
<1> DEFINE Small(n) == {T \in SUBSET S : Cardinality(T) <= n}
           Solves(g, n) == \A T \in Small(n) :
               g[T] = IF T = {} THEN base ELSE step[<<T, g[T \ cut[T]]>>]
           Good == {n \in Nat : \E g \in [SUBSET S -> V] : Solves(g, n)}
<1>0. \A T \in SUBSET S : IsFiniteSet(T) /\ Cardinality(T) \in Nat
  BY FS_Subset, FS_CardinalityType
<1>1. 0 \in Good
  <2>1. [T \in SUBSET S |-> base] \in [SUBSET S -> V]
    OBVIOUS
  <2>2. \A T \in Small(0) : T = {}
    BY <1>0, FS_EmptySet
  <2>3. Solves([T \in SUBSET S |-> base], 0)
    BY <2>2
  <2> QED  BY <2>1, <2>3
<1>2. ASSUME NEW n \in Nat, n \in Good PROVE n + 1 \in Good
  <2>1. PICK g \in [SUBSET S -> V] : Solves(g, n)
    BY <1>2
  <2> DEFINE h == [T \in SUBSET S |-> IF T = {} THEN base ELSE step[<<T, g[T \ cut[T]]>>]]
  <2>2. h \in [SUBSET S -> V]
    OBVIOUS
  <2>3. \A T \in Small(n) : h[T] = g[T]
    BY <2>1
  <2>4. ASSUME NEW T \in Small(n + 1), T # {} PROVE h[T \ cut[T]] = g[T \ cut[T]]
    <3>1. T \ cut[T] \in SUBSET T /\ T \ cut[T] # T /\ T \ cut[T] \in SUBSET S
      BY <2>4
    <3>2. Cardinality(T \ cut[T]) < Cardinality(T)
      BY <1>0, <3>1, FS_Subset
    <3>3. T \ cut[T] \in Small(n)
      BY <1>0, <2>4, <3>1, <3>2
    <3> QED  BY <2>3, <3>3
  <2>5. Solves(h, n + 1)
    BY <2>4
  <2> HIDE DEF h, Solves
  <2> QED  BY <2>2, <2>5
<1> HIDE DEF Good
<1>3. Cardinality(S) \in Good
  BY <1>0, <1>1, <1>2, NaturalsInG
<1>4. PICK g \in [SUBSET S -> V] : Solves(g, Cardinality(S))
  BY <1>3 DEF Good
<1>5. \A T \in SUBSET S : T \in Small(Cardinality(S))
  BY FS_Subset
<1> QED  BY <1>4, <1>5

-----------------------------------------------------------------------------
(* Sums.                                                                   *)

\* Numbers of which there are finitely many.
Summable(f, D) == IsFiniteSet(D) /\ \A k \in D : f[k] \in Int

\* The summand a sum begins with.
First(T) == CHOOSE x \in T : TRUE
Rest(T) == T \ {First(T)}

\* The function behind a sum: it takes one summand after another.
SumSteps(f, D) ==
    CHOOSE g : g = [T \in SUBSET D |->
                       IF T = {} THEN 0
                       ELSE f[CHOOSE x \in T : TRUE] + g[T \ {CHOOSE x \in T : TRUE}]]

\* A sum is the last of them, and each is the one before it and a summand.
LEMMA SumBySteps ==
    ASSUME NEW f, NEW D, Summable(f, D)
    PROVE  /\ SumFunctionOnSet(f, D) = SumSteps(f, D)[D]
           /\ \A T : T \subseteq D => SumSteps(f, D)[T] \in Int
           /\ SumSteps(f, D)[{}] = 0
           /\ \A T : T \subseteq D /\ T # {} =>
                  /\ First(T) \in T
                  /\ SumSteps(f, D)[T] = f[First(T)] + SumSteps(f, D)[Rest(T)]
<1> USE DEF Summable
<1> DEFINE Rule(g) == g = [T \in SUBSET D |->
                              IF T = {} THEN 0
                              ELSE f[CHOOSE x \in T : TRUE] + g[T \ {CHOOSE x \in T : TRUE}]]
           first(T) == CHOOSE x \in T : TRUE
           cut == [T \in SUBSET D |-> IF T = {} THEN {} ELSE {first(T)}]
           step == [p \in (SUBSET D) \X Int |-> IF p[1] = {} THEN 0 ELSE f[first(p[1])] + p[2]]
<1>1. \A T \in SUBSET D : T # {} => first(T) \in T
  OBVIOUS
<1>2. cut \in [SUBSET D -> SUBSET D]
  BY <1>1
<1>3. step \in [(SUBSET D) \X Int -> Int]
  <2>1. ASSUME NEW p \in (SUBSET D) \X Int, p[1] # {} PROVE f[first(p[1])] + p[2] \in Int
    <3>1. p[1] \in SUBSET D /\ p[2] \in Int
      OBVIOUS
    <3> QED  BY <1>1, <2>1, <3>1
  <2> QED  BY <2>1
<1>4. PICK g \in [SUBSET D -> Int] : \A T \in SUBSET D :
          g[T] = IF T = {} THEN 0 ELSE step[<<T, g[T \ cut[T]]>>]
  <2>1. \A T \in SUBSET D : T # {} => cut[T] # {} /\ cut[T] \subseteq T
    BY <1>1
  <2>2. CutsDown(D, cut)
    BY <1>2, <2>1 DEF CutsDown
  <2> HIDE DEF cut, step
  <2>3. \E g \in [SUBSET D -> Int] : SolvesRecursion(g, D, 0, cut, step)
    <3>1. 0 \in Int
      OBVIOUS
    <3> QED  BY <1>3, <2>2, <3>1, RecursionOverSubsets, Zenon
  <2> QED  BY <2>3 DEF SolvesRecursion
<1>5. \A T \in SUBSET D : T # {} =>
          step[<<T, g[T \ cut[T]]>>] = f[first(T)] + g[T \ {first(T)}]
  <2> TAKE T \in SUBSET D
  <2> HAVE T # {}
  <2>1. cut[T] = {first(T)} /\ g[T \ {first(T)}] \in Int
    BY <1>1
  <2>2. <<T, g[T \ {first(T)}]>> \in (SUBSET D) \X Int
    BY <2>1
  <2> QED  BY <2>1, <2>2
<1>6. Rule(g)
  <2>1. \A T \in SUBSET D : g[T] = IF T = {} THEN 0 ELSE f[first(T)] + g[T \ {first(T)}]
    <3> HIDE DEF cut, step, first
    <3> QED  BY <1>4, <1>5
  <2>2. g = [T \in SUBSET D |-> g[T]]
    OBVIOUS
  <2> HIDE DEF cut, step
  <2> QED  BY <2>1, <2>2
<1>7. Rule(SumSteps(f, D))
  <2>1. SumSteps(f, D) = CHOOSE h : Rule(h)
    BY DEF SumSteps
  <2> HIDE DEF Rule
  <2> QED  BY <1>6, <2>1
<1>8. SumFunctionOnSet(f, D) = SumSteps(f, D)[D]
  BY DEF SumSteps, SumFunctionOnSet, FoldFunctionOnSet, MapThenFoldSet
<1> DEFINE h == SumSteps(f, D)
<1>9. h = [T \in SUBSET D |-> IF T = {} THEN 0 ELSE f[first(T)] + h[T \ {first(T)}]]
  BY <1>7
<1> HIDE DEF h
<1>10. \A T \in SUBSET D : h[T] = IF T = {} THEN 0 ELSE f[first(T)] + h[T \ {first(T)}]
  BY <1>9
<1>11. h \in [SUBSET D -> Int]
  <2> DEFINE G == {T \in SUBSET D : h[T] \in Int}
  <2> HIDE DEF G
  <2>1. ASSUME NEW T \in SUBSET D, \A U \in SUBSET T : U # T => U \in G  PROVE T \in G
    <3>1. CASE T = {}
      <4>1. h[{}] = 0
        BY <1>10
      <4> QED  BY <3>1, <4>1 DEF G
    <3>2. CASE T # {}
      <4>1. first(T) \in T /\ T \ {first(T)} \in SUBSET T /\ T \ {first(T)} # T
        BY <1>1, <3>2
      <4>2. h[T \ {first(T)}] \in Int /\ f[first(T)] \in Int
        BY <4>1, <2>1 DEF G
      <4>3. h[T] = f[first(T)] + h[T \ {first(T)}]
        BY <1>10, <3>2
      <4> QED  BY <4>2, <4>3 DEF G
    <3> QED  BY <3>1, <3>2
  <2>2. \A T \in SUBSET D : T \in G
    BY <2>1, SubsetsInG
  <2>3. \A T \in SUBSET D : h[T] \in Int
    BY <2>2 DEF G
  <2>4. h = [T \in SUBSET D |-> h[T]]
    BY <1>9
  <2> QED  BY <2>3, <2>4
<1>12. h[{}] = 0 /\ \A T \in SUBSET D : T # {} => h[T] = f[first(T)] + h[T \ {first(T)}]
  BY <1>10
<1> QED  BY <1>1, <1>8, <1>11, <1>12 DEF h, First, Rest

\* One step of them.
LEMMA SumStep ==
    ASSUME NEW f, NEW D, Summable(f, D), NEW T, T \subseteq D, T # {}
    PROVE  /\ First(T) \in T /\ SumSteps(f, D)[T \ {First(T)}] \in Int
           /\ SumSteps(f, D)[T] = f[First(T)] + SumSteps(f, D)[T \ {First(T)}]
<1>1. /\ First(T) \in T
      /\ SumSteps(f, D)[T] = f[First(T)] + SumSteps(f, D)[Rest(T)]
  BY SumBySteps
<1>2. Rest(T) \subseteq D
  BY DEF Rest
<1>3. SumSteps(f, D)[Rest(T)] \in Int
  BY <1>2, SumBySteps
<1> QED  BY <1>1, <1>3 DEF Rest

\* What is left out of a sum, and what other summands there are, does not matter.
LEMMA SumStepsAgree ==
    ASSUME NEW f, NEW D, Summable(f, D), NEW g, NEW E, Summable(g, E),
           NEW T \in SUBSET D, T \subseteq E, \A k \in T : f[k] = g[k]
    PROVE  SumSteps(f, D)[T] = SumSteps(g, E)[T]
<1> DEFINE G == {U \in SUBSET T : SumSteps(f, D)[U] = SumSteps(g, E)[U]}
<1>0. IsFiniteSet(T)
  BY FS_Subset DEF Summable
<1> HIDE DEF G
<1>1. ASSUME NEW U \in SUBSET T, \A W \in SUBSET U : W # U => W \in G  PROVE U \in G
  <2>1. CASE U = {}
    <3>1. SumSteps(f, D)[{}] = 0 /\ SumSteps(g, E)[{}] = 0
      BY SumBySteps
    <3> QED  BY <2>1, <3>1 DEF G
  <2>2. CASE U # {}
    <3>0. U \in SUBSET D /\ U \in SUBSET E
      OBVIOUS
    <3>3. /\ SumSteps(f, D)[U] = f[First(U)] + SumSteps(f, D)[U \ {First(U)}]
          /\ SumSteps(g, E)[U] = g[First(U)] + SumSteps(g, E)[U \ {First(U)}]
          /\ First(U) \in U
      BY <2>2, <3>0, SumStep
    <3>1. U \ {First(U)} \in SUBSET U /\ U \ {First(U)} # U
      BY <3>3
    <3>2. SumSteps(f, D)[U \ {First(U)}] = SumSteps(g, E)[U \ {First(U)}]
      BY <1>1, <3>1 DEF G
    <3> QED  BY <3>2, <3>3 DEF G
  <2> QED  BY <2>1, <2>2
<1>2. \A U \in SUBSET T : U \in G
  BY <1>0, <1>1, SubsetsInG
<1> QED  BY <1>2 DEF G

\* A part of the summands.
LEMMA SummablePart ==
    ASSUME NEW f, NEW D, Summable(f, D), NEW T \in SUBSET D
    PROVE  Summable(f, T)
BY FS_Subset DEF Summable

\* A sum over a part of the summands is one of the steps.
LEMMA SumIsStep ==
    ASSUME NEW f, NEW D, Summable(f, D), NEW T \in SUBSET D
    PROVE  SumFunctionOnSet(f, T) = SumSteps(f, D)[T] /\ SumFunctionOnSet(f, T) \in Int
<1>1. Summable(f, T)
  BY SummablePart
<1>2. SumFunctionOnSet(f, T) = SumSteps(f, T)[T]
  BY <1>1, SumBySteps
<1>3. SumSteps(f, T)[T] = SumSteps(f, D)[T]
  BY <1>1, SumStepsAgree
<1>4. SumSteps(f, D)[T] \in Int
  BY SumBySteps
<1> QED  BY <1>2, <1>3, <1>4

\* A sum of nothing.
LEMMA SumOfNothing ==
    ASSUME NEW f
    PROVE  SumFunctionOnSet(f, {}) = 0
<1>1. Summable(f, {})
  BY FS_EmptySet DEF Summable
<1>2. SumFunctionOnSet(f, {}) = SumSteps(f, {})[{}] /\ SumSteps(f, {})[{}] = 0
  BY <1>1, SumBySteps
<1> QED  BY <1>2

\* Sums of the same summands are equal.
LEMMA SumOfSame ==
    ASSUME NEW D, NEW f, Summable(f, D), NEW g, \A k \in D : g[k] = f[k]
    PROVE  SumFunctionOnSet(f, D) = SumFunctionOnSet(g, D)
<1>1. Summable(g, D)
  BY DEF Summable
<1>2. SumSteps(f, D)[D] = SumSteps(g, D)[D]
  BY <1>1, SumStepsAgree
<1>3. SumFunctionOnSet(f, D) = SumSteps(f, D)[D] /\ SumFunctionOnSet(g, D) = SumSteps(g, D)[D]
  BY <1>1, SumBySteps
<1> QED  BY <1>2, <1>3

\* Any summand may be taken first.
LEMMA SumTakes ==
    ASSUME NEW f, NEW D, Summable(f, D), NEW k \in D
    PROVE  /\ SumFunctionOnSet(f, D) \in Int /\ SumFunctionOnSet(f, D \ {k}) \in Int
           /\ SumFunctionOnSet(f, D) = f[k] + SumFunctionOnSet(f, D \ {k})
<1> DEFINE h == SumSteps(f, D)
           first(T) == First(T)
           G == {T \in SUBSET D : \A j \in T : h[T] = f[j] + h[T \ {j}]}
<1>1. \A T \in SUBSET D : h[T] \in Int
  BY SumBySteps
<1>2. \A T \in SUBSET D : T # {} => first(T) \in T /\ h[T] = f[first(T)] + h[T \ {first(T)}]
  BY SumStep
<1>a. SumFunctionOnSet(f, D) = h[D] /\ SumFunctionOnSet(f, D \ {k}) = h[D \ {k}]
  BY SumIsStep
<1>b. IsFiniteSet(D) /\ \A j \in D : f[j] \in Int
  BY DEF Summable
<1> HIDE DEF h, first, G
<1>3. ASSUME NEW T \in SUBSET D, \A U \in SUBSET T : U # T => U \in G  PROVE T \in G
  <2> SUFFICES ASSUME NEW j \in T  PROVE h[T] = f[j] + h[T \ {j}]
    BY DEF G
  <2> DEFINE x == first(T)
  <2>1. x \in T /\ h[T] = f[x] + h[T \ {x}]
    BY <1>2
  <2> HIDE DEF x
  <2>2. CASE x = j
    BY <2>1, <2>2
  <2>3. CASE x # j
    <3>1. h[T \ {x}] = f[j] + h[(T \ {x}) \ {j}]
      <4>1. T \ {x} \in SUBSET T /\ T \ {x} # T /\ j \in T \ {x}
        BY <2>1, <2>3
      <4> QED  BY <4>1, <1>3 DEF G
    <3>2. h[T \ {j}] = f[x] + h[(T \ {j}) \ {x}]
      <4>1. T \ {j} \in SUBSET T /\ T \ {j} # T /\ x \in T \ {j}
        BY <2>1, <2>3
      <4> QED  BY <4>1, <1>3 DEF G
    <3>3. (T \ {x}) \ {j} = (T \ {j}) \ {x}
      OBVIOUS
    <3>4. h[(T \ {j}) \ {x}] \in Int /\ f[x] \in Int /\ f[j] \in Int
      BY <1>1, <1>b, <2>1
    <3> DEFINE a == h[(T \ {j}) \ {x}]
               b == h[T \ {x}]
               c == h[T \ {j}]
               d == h[T]
    <3>5. /\ a \in Int /\ f[x] \in Int /\ f[j] \in Int
          /\ d = f[x] + b /\ b = f[j] + a /\ c = f[x] + a
      BY <2>1, <3>1, <3>2, <3>3, <3>4
    <3> HIDE DEF a, b, c, d
    <3>6. d = f[j] + c
      BY <3>5
    <3> QED  BY <3>6 DEF c, d
  <2> QED  BY <2>2, <2>3
<1>4. \A T \in SUBSET D : T \in G
  BY <1>b, <1>3, SubsetsInG
<1>5. h[D] = f[k] + h[D \ {k}] /\ h[D] \in Int /\ h[D \ {k}] \in Int
  BY <1>1, <1>4 DEF G
<1> QED  BY <1>a, <1>5

\* A sum is at least another when its summands are.
LEMMA SumIsMonotone ==
    ASSUME NEW D, NEW f, Summable(f, D), NEW g, Summable(g, D), \A k \in D : f[k] <= g[k]
    PROVE  SumFunctionOnSet(f, D) <= SumFunctionOnSet(g, D)
<1> DEFINE G == {T \in SUBSET D : SumFunctionOnSet(f, T) <= SumFunctionOnSet(g, T)}
<1> HIDE DEF G
<1>1. ASSUME NEW T \in SUBSET D, \A U \in SUBSET T : U # T => U \in G  PROVE T \in G
  <2>1. CASE T = {}
    BY <2>1, SumOfNothing DEF G
  <2>2. CASE T # {}
    <3>1. PICK k \in T : TRUE
      BY <2>2
    <3>2. Summable(f, T) /\ Summable(g, T)
      BY SummablePart
    <3>3. /\ SumFunctionOnSet(f, T) = f[k] + SumFunctionOnSet(f, T \ {k})
          /\ SumFunctionOnSet(g, T) = g[k] + SumFunctionOnSet(g, T \ {k})
          /\ SumFunctionOnSet(f, T \ {k}) \in Int /\ SumFunctionOnSet(g, T \ {k}) \in Int
          /\ f[k] \in Int /\ g[k] \in Int /\ f[k] <= g[k]
      <4>1. /\ SumFunctionOnSet(f, T) = f[k] + SumFunctionOnSet(f, T \ {k})
            /\ SumFunctionOnSet(f, T \ {k}) \in Int
        BY <3>2, SumTakes
      <4>2. /\ SumFunctionOnSet(g, T) = g[k] + SumFunctionOnSet(g, T \ {k})
            /\ SumFunctionOnSet(g, T \ {k}) \in Int
        BY <3>2, SumTakes
      <4>3. f[k] \in Int /\ g[k] \in Int /\ f[k] <= g[k]
        BY DEF Summable
      <4> QED  BY <4>1, <4>2, <4>3
    <3>4. SumFunctionOnSet(f, T \ {k}) <= SumFunctionOnSet(g, T \ {k})
      BY <1>1 DEF G
    <3> QED  BY <3>3, <3>4 DEF G
  <2> QED  BY <2>1, <2>2
<1>2. \A T \in SUBSET D : T \in G
  BY <1>1, SubsetsInG DEF Summable
<1> QED  BY <1>2 DEF G

\* A sum of natural numbers is one.
LEMMA SumIsNatural ==
    ASSUME NEW D, NEW f, Summable(f, D), \A k \in D : f[k] >= 0
    PROVE  SumFunctionOnSet(f, D) \in Nat
<1> DEFINE G == {T \in SUBSET D : SumFunctionOnSet(f, T) \in Nat}
<1> HIDE DEF G
<1>1. ASSUME NEW T \in SUBSET D, \A U \in SUBSET T : U # T => U \in G  PROVE T \in G
  <2>1. CASE T = {}
    BY <2>1, SumOfNothing DEF G
  <2>2. CASE T # {}
    <3>1. PICK k \in T : TRUE
      BY <2>2
    <3>2. SumFunctionOnSet(f, T) = f[k] + SumFunctionOnSet(f, T \ {k})
      BY SummablePart, SumTakes
    <3>3. SumFunctionOnSet(f, T \ {k}) \in Nat /\ f[k] \in Nat
      BY <1>1 DEF G, Summable
    <3> QED  BY <3>2, <3>3 DEF G
  <2> QED  BY <2>1, <2>2
<1>2. \A T \in SUBSET D : T \in G
  BY <1>1, SubsetsInG DEF Summable
<1> QED  BY <1>2 DEF G

\* The sum over two disjoint sets.
LEMMA SumOfUnion ==
    ASSUME NEW D, NEW f, Summable(f, D), NEW E \in SUBSET D
    PROVE  /\ SumFunctionOnSet(f, D) \in Int /\ SumFunctionOnSet(f, E) \in Int
           /\ SumFunctionOnSet(f, D \ E) \in Int
           /\ SumFunctionOnSet(f, D) = SumFunctionOnSet(f, E) + SumFunctionOnSet(f, D \ E)
<1> DEFINE S(T) == SumFunctionOnSet(f, T)
           G == {T \in SUBSET E : S(D) = S(T) + S(D \ T)}
<1>0. \A T \in SUBSET D : S(T) \in Int
  BY SumIsStep
<1> HIDE DEF G
<1>1. ASSUME NEW T \in SUBSET E, \A U \in SUBSET T : U # T => U \in G  PROVE T \in G
  <2>1. CASE T = {}
    <3>1. D \ {} = D /\ S({}) = 0 /\ S(D) \in Int
      BY <1>0, SumOfNothing
    <3> HIDE DEF S
    <3> QED  BY <2>1, <3>1 DEF G
  <2>2. CASE T # {}
    <3>1. PICK k \in T : TRUE
      BY <2>2
    <3>2. Summable(f, T) /\ Summable(f, D \ (T \ {k})) /\ k \in D \ (T \ {k})
      BY SummablePart
    <3>3. S(T) = f[k] + S(T \ {k})
      BY <3>2, SumTakes
    <3>4. S(D \ (T \ {k})) = f[k] + S((D \ (T \ {k})) \ {k})
      BY <3>2, SumTakes
    <3>5. (D \ (T \ {k})) \ {k} = D \ T
      BY <3>2
    <3>6. S(D) = S(T \ {k}) + S(D \ (T \ {k}))
      BY <1>1 DEF G
    <3>7. S(T \ {k}) \in Int /\ S(D \ T) \in Int /\ f[k] \in Int
      BY <1>0 DEF Summable
    <3> HIDE DEF S
    <3>8. S(D) = S(T) + S(D \ T)
      <4> DEFINE a == S(T \ {k})
                 b == S(D \ (T \ {k}))
                 c == S(D \ T)
                 d == S(D)
                 e == S(T)
      <4>1. e = f[k] + a /\ b = f[k] + c /\ d = a + b /\ a \in Int /\ c \in Int /\ f[k] \in Int
        BY <3>3, <3>4, <3>5, <3>6, <3>7
      <4> HIDE DEF a, b, c, d, e
      <4>2. d = e + c
        BY <4>1
      <4> QED  BY <4>2 DEF c, d, e
    <3> QED  BY <3>8 DEF G
  <2> QED  BY <2>1, <2>2
<1>2. IsFiniteSet(E)
  BY FS_Subset DEF Summable
<1>3. E \in G
  BY <1>1, <1>2, SubsetsInG
<1> HIDE DEF S
<1>4. S(D) = S(E) + S(D \ E)
  BY <1>3 DEF G
<1>5. S(D) \in Int /\ S(E) \in Int /\ S(D \ E) \in Int
  BY <1>0
<1> QED  BY <1>4, <1>5 DEF S

-----------------------------------------------------------------------------
(* Loops: what FoldSeq does, one item after another.                       *)

\* A function takes the members of a finite set one by one.
OneByOne(g, S, base, step) ==
    \A T \in SUBSET S : g[T] = IF T = {} THEN base ELSE step[<<First(T), g[Rest(T)]>>]

\* There is such a function.
LEMMA TakesOneByOne ==
    ASSUME NEW S, IsFiniteSet(S), NEW V, NEW base \in V, NEW step \in [S \X V -> V]
    PROVE  \E g \in [SUBSET S -> V] : OneByOne(g, S, base, step)
<1> DEFINE cut == [T \in SUBSET S |-> IF T = {} THEN {} ELSE {First(T)}]
           all == [p \in (SUBSET S) \X V |-> IF p[1] = {} THEN base ELSE step[<<First(p[1]), p[2]>>]]
<1>1. \A T \in SUBSET S : T # {} => First(T) \in T
  BY DEF First
<1>2. CutsDown(S, cut)
  <2>1. cut \in [SUBSET S -> SUBSET S]
    BY <1>1
  <2>2. \A T \in SUBSET S : T # {} => cut[T] # {} /\ cut[T] \subseteq T
    BY <1>1
  <2> HIDE DEF cut
  <2> QED  BY <2>1, <2>2 DEF CutsDown
<1>3. all \in [(SUBSET S) \X V -> V]
  <2>1. ASSUME NEW p \in (SUBSET S) \X V, p[1] # {}  PROVE step[<<First(p[1]), p[2]>>] \in V
    <3>1. p[1] \in SUBSET S /\ p[2] \in V
      OBVIOUS
    <3>2. First(p[1]) \in S
      BY <1>1, <2>1, <3>1
    <3> QED  BY <3>1, <3>2
  <2> QED  BY <2>1
<1>4. PICK g \in [SUBSET S -> V] : SolvesRecursion(g, S, base, cut, all)
  <2> HIDE DEF cut, all
  <2> QED  BY <1>2, <1>3, RecursionOverSubsets
<1>5. ASSUME NEW T \in SUBSET S
      PROVE  g[T] = IF T = {} THEN base ELSE step[<<First(T), g[Rest(T)]>>]
  <2>1. CASE T = {}
    BY <1>4, <2>1 DEF SolvesRecursion
  <2>2. CASE T # {}
    <3>1. cut[T] = {First(T)} /\ T \ cut[T] = Rest(T) /\ Rest(T) \in SUBSET S
      BY <2>2 DEF Rest
    <3>2. g[T] = all[<<T, g[Rest(T)]>>]
      BY <1>4, <2>2, <3>1 DEF SolvesRecursion
    <3>3. <<T, g[Rest(T)]>> \in (SUBSET S) \X V
      BY <3>1
    <3> QED  BY <2>2, <3>2, <3>3
  <2> QED  BY <2>1, <2>2
<1> QED  BY <1>5 DEF OneByOne

\* What is taken first is a member, and less is left.
LEMMA FirstAndRest ==
    ASSUME NEW S, NEW T \in SUBSET S, T # {}
    PROVE  First(T) \in T /\ First(T) \in S /\ Rest(T) \in SUBSET S /\ Rest(T) \in SUBSET T
           /\ Rest(T) # T /\ T = Rest(T) \cup {First(T)} /\ First(T) \notin Rest(T)
BY DEF First, Rest

\* The same of a function that need only have members of V for values.
OneByOneIn(h, S, V, base, step) ==
    \A T \in SUBSET S : /\ T = {} => h[T] = base
                        /\ T # {} /\ h[Rest(T)] \in V => h[T] = step[<<First(T), h[Rest(T)]>>]

\* G holds at the start, and after each step if before it.
Preserves(S, V, base, step, G) ==
    /\ <<{}, base>> \in G
    /\ \A T \in SUBSET S, d \in V : T # {} /\ <<Rest(T), d>> \in G =>
           step[<<First(T), d>>] \in V /\ <<T, step[<<First(T), d>>]>> \in G

\* So there is such a function, and G holds of each.
HoldsAlong(S, V, base, step, G) ==
    /\ \E g \in [SUBSET S -> V] : OneByOne(g, S, base, step)
    /\ \A h : OneByOneIn(h, S, V, base, step) =>
           \A T \in SUBSET S : h[T] \in V /\ <<T, h[T]>> \in G

\* What holds before a fold and after each of its steps holds of its value,
\* whichever way its items are taken: G relates the items taken to the value.
LEMMA StepsWithin ==
    ASSUME NEW S, IsFiniteSet(S), NEW V, NEW base \in V, NEW step, NEW G,
           Preserves(S, V, base, step, G)
    PROVE  HoldsAlong(S, V, base, step, G)
<1> USE DEF Preserves
<1>1. ASSUME NEW h, OneByOneIn(h, S, V, base, step)
      PROVE  \A T \in SUBSET S : h[T] \in V /\ <<T, h[T]>> \in G
  <2> DEFINE Q == {T \in SUBSET S : h[T] \in V /\ <<T, h[T]>> \in G}
  <2>1. ASSUME NEW T \in SUBSET S, \A U \in SUBSET T : U # T => U \in Q  PROVE T \in Q
    <3>1. CASE T = {}
      BY <1>1, <3>1 DEF OneByOneIn
    <3>2. CASE T # {}
      <4>1. Rest(T) \in SUBSET T /\ Rest(T) # T /\ Rest(T) \in SUBSET S
        BY <3>2, FirstAndRest
      <4>2. h[Rest(T)] \in V /\ <<Rest(T), h[Rest(T)]>> \in G
        BY <2>1, <4>1
      <4>3. h[T] = step[<<First(T), h[Rest(T)]>>]
        BY <1>1, <3>2, <4>2 DEF OneByOneIn
      <4> QED  BY <3>2, <4>2, <4>3
    <3> QED  BY <3>1, <3>2
  <2> HIDE DEF Q
  <2>2. \A T \in SUBSET S : T \in Q
    BY <2>1, SubsetsInG
  <2> QED  BY <2>2 DEF Q
<1>2. \E g \in [SUBSET S -> V] : OneByOne(g, S, base, step)
  <2> DEFINE safe == [p \in S \X V |-> IF step[p] \in V THEN step[p] ELSE base]
  <2>1. safe \in [S \X V -> V]
    OBVIOUS
  <2>2. PICK g \in [SUBSET S -> V] : OneByOne(g, S, base, safe)
    <3> HIDE DEF safe
    <3> QED  BY <2>1, TakesOneByOne
  <2>3. \A T \in SUBSET S, d \in V : T # {} => 
            safe[<<First(T), d>>] = IF step[<<First(T), d>>] \in V THEN step[<<First(T), d>>] ELSE base
    <3> SUFFICES ASSUME NEW T \in SUBSET S, NEW d \in V, T # {}
                 PROVE  safe[<<First(T), d>>] =
                            IF step[<<First(T), d>>] \in V THEN step[<<First(T), d>>] ELSE base
      OBVIOUS
    <3>1. <<First(T), d>> \in S \X V
      BY FirstAndRest
    <3> QED  BY <3>1
  <2> HIDE DEF safe
  <2> DEFINE Q == {T \in SUBSET S : <<T, g[T]>> \in G}
  <2>4. ASSUME NEW T \in SUBSET S, \A U \in SUBSET T : U # T => U \in Q
        PROVE  T \in Q /\ g[T] = IF T = {} THEN base ELSE step[<<First(T), g[Rest(T)]>>]
    <3>1. CASE T = {}
      BY <2>2, <3>1 DEF OneByOne
    <3>2. CASE T # {}
      <4>1. Rest(T) \in SUBSET T /\ Rest(T) # T /\ Rest(T) \in SUBSET S
        BY <3>2, FirstAndRest
      <4>2. g[Rest(T)] \in V /\ <<Rest(T), g[Rest(T)]>> \in G
        BY <2>4, <4>1
      <4>3. g[T] = safe[<<First(T), g[Rest(T)]>>]
        BY <2>2, <3>2 DEF OneByOne
      <4>4. step[<<First(T), g[Rest(T)]>>] \in V /\ <<T, step[<<First(T), g[Rest(T)]>>]>> \in G
        BY <3>2, <4>2
      <4> QED  BY <2>3, <3>2, <4>2, <4>3, <4>4
    <3> QED  BY <3>1, <3>2
  <2> HIDE DEF Q
  <2>5. \A T \in SUBSET S : T \in Q
    <3>1. ASSUME NEW T \in SUBSET S, \A U \in SUBSET T : U # T => U \in Q  PROVE T \in Q
      BY <2>4, <3>1
    <3> QED  BY <3>1, SubsetsInG
  <2>6. \A T \in SUBSET S : g[T] = IF T = {} THEN base ELSE step[<<First(T), g[Rest(T)]>>]
    BY <2>4, <2>5
  <2> QED  BY <2>6 DEF OneByOne
<1> QED  BY <1>1, <1>2 DEF HoldsAlong

\* A loop of N rounds, whose values need only be what the step says while they
\* are in V.
InLoop(h, N, V, base, step) ==
    /\ h[0] = base
    /\ \A n \in 1 .. N : h[n - 1] \in V => h[n] = step[<<n, h[n - 1]>>]

\* G holds before the first round, and after each if before it.
LoopPreserves(N, V, base, step, G) ==
    /\ <<0, base>> \in G
    /\ \A n \in 1 .. N, d \in V : <<n - 1, d>> \in G =>
           step[<<n, d>>] \in V /\ <<n, step[<<n, d>>]>> \in G

Rounds(g, N, base, step) == g[0] = base /\ \A n \in 1 .. N : g[n] = step[<<n, g[n - 1]>>]

\* So there is such a loop, and G holds along each.
LoopHolds(N, V, base, step, G) ==
    /\ \E g \in [0 .. N -> V] : Rounds(g, N, base, step)
    /\ \A h : InLoop(h, N, V, base, step) => \A n \in 0 .. N : h[n] \in V /\ <<n, h[n]>> \in G

\* What holds before a loop and after each of its rounds holds along it.
LEMMA LoopWithin ==
    ASSUME NEW N \in Nat, NEW V, NEW base \in V, NEW step, NEW G,
           LoopPreserves(N, V, base, step, G)
    PROVE  LoopHolds(N, V, base, step, G)
<1> USE DEF LoopPreserves
<1>1. ASSUME NEW h, InLoop(h, N, V, base, step)
      PROVE  \A n \in 0 .. N : h[n] \in V /\ <<n, h[n]>> \in G
  <2> DEFINE Q == {n \in Nat : n \in 0 .. N => h[n] \in V /\ <<n, h[n]>> \in G}
  <2>1. 0 \in Q
    BY <1>1 DEF InLoop
  <2>2. ASSUME NEW n \in Nat, n \in Q  PROVE n + 1 \in Q
    <3> SUFFICES ASSUME n + 1 \in 0 .. N  PROVE h[n + 1] \in V /\ <<n + 1, h[n + 1]>> \in G
      OBVIOUS
    <3>1. n \in 0 .. N /\ n + 1 \in 1 .. N /\ (n + 1) - 1 = n
      OBVIOUS
    <3>2. h[n] \in V /\ <<n, h[n]>> \in G
      BY <2>2, <3>1
    <3>3. h[n + 1] = step[<<n + 1, h[n]>>]
      BY <1>1, <3>1, <3>2 DEF InLoop
    <3>4. <<(n + 1) - 1, h[n]>> \in G
      BY <3>1, <3>2
    <3> QED  BY <3>1, <3>2, <3>3, <3>4
  <2> HIDE DEF Q
  <2>3. \A n \in Nat : n \in Q
    BY <2>1, <2>2, NaturalsInG
  <2> QED  BY <2>3 DEF Q
<1>2. \E g \in [0 .. N -> V] : Rounds(g, N, base, step)
  <2> DEFINE Good(g, n) == /\ g[0] = base
                           /\ \A k \in 1 .. n : g[k] = step[<<k, g[k - 1]>>]
                           /\ \A k \in 0 .. n : <<k, g[k]>> \in G
             Q == {n \in Nat : n \in 0 .. N => \E g \in [0 .. n -> V] : Good(g, n)}
  <2>1. 0 \in Q
    <3> DEFINE g == [k \in 0 .. 0 |-> base]
    <3>1. g \in [0 .. 0 -> V] /\ Good(g, 0)
      OBVIOUS
    <3> QED  BY <3>1
  <2>2. ASSUME NEW n \in Nat, n \in Q  PROVE n + 1 \in Q
    <3> SUFFICES ASSUME n + 1 \in 0 .. N  PROVE \E g \in [0 .. n + 1 -> V] : Good(g, n + 1)
      OBVIOUS
    <3>1. n \in 0 .. N /\ n + 1 \in 1 .. N /\ (n + 1) - 1 = n
      OBVIOUS
    <3>2. PICK g \in [0 .. n -> V] : Good(g, n)
      BY <2>2, <3>1
    <3>3. g[n] \in V /\ <<(n + 1) - 1, g[n]>> \in G
      BY <3>1, <3>2
    <3>4. PICK v : v = step[<<n + 1, g[n]>>]
      OBVIOUS
    <3>5. v \in V /\ <<n + 1, v>> \in G
      BY <3>1, <3>3, <3>4
    <3> DEFINE e == [k \in 0 .. n + 1 |-> IF k = n + 1 THEN v ELSE g[k]]
    <3>6. \A k \in 0 .. n : e[k] = g[k]
      BY <3>1
    <3>7. e[n + 1] = v /\ e \in [0 .. n + 1 -> V]
      BY <3>5
    <3> HIDE DEF e
    <3>8. e[0] = base
      BY <3>2, <3>6
    <3>9. ASSUME NEW k \in 1 .. n + 1  PROVE e[k] = step[<<k, e[k - 1]>>]
      <4>1. CASE k = n + 1
        BY <3>4, <3>6, <3>7, <4>1
      <4>2. CASE k # n + 1
        <5>1. k \in 1 .. n /\ k - 1 \in 0 .. n /\ k \in 0 .. n
          BY <4>2
        <5> QED  BY <3>2, <3>6, <5>1
      <4> QED  BY <4>1, <4>2
    <3>10. ASSUME NEW k \in 0 .. n + 1  PROVE <<k, e[k]>> \in G
      <4>1. CASE k = n + 1
        BY <3>5, <3>7, <4>1
      <4>2. CASE k # n + 1
        <5>1. k \in 0 .. n
          BY <4>2
        <5> QED  BY <3>2, <3>6, <5>1
      <4> QED  BY <4>1, <4>2
    <3>11. Good(e, n + 1)
      BY <3>8, <3>9, <3>10
    <3> HIDE DEF Good
    <3> QED  BY <3>7, <3>11
  <2> HIDE DEF Q
  <2>3. \A n \in Nat : n \in Q
    BY <2>1, <2>2, NaturalsInG
  <2>4. N \in Q
    BY <2>3
  <2> QED  BY <2>4 DEF Q, Rounds
<1> QED  BY <1>1, <1>2 DEF LoopHolds

\* A finite set of numbers has a bound.
LEMMA FiniteIsBounded ==
    ASSUME NEW S \in SUBSET Nat, IsFiniteSet(S)
    PROVE  \E n \in Nat : S \subseteq 0 .. n
<1> DEFINE G == {T \in SUBSET S : \E n \in Nat : T \subseteq 0 .. n}
<1>1. ASSUME NEW T \in SUBSET S, \A U \in SUBSET T : U # T => U \in G  PROVE T \in G
  <2>1. CASE T = {}
    <3>1. T \subseteq 0 .. 0 /\ 0 \in Nat
      BY <2>1
    <3> QED  BY <3>1
  <2>2. CASE T # {}
    <3>1. Rest(T) \in SUBSET T /\ Rest(T) # T /\ T = Rest(T) \cup {First(T)} /\ First(T) \in T
      BY <2>2, FirstAndRest
    <3>2. PICK n \in Nat : Rest(T) \subseteq 0 .. n
      BY <1>1, <3>1
    <3>3. First(T) \in Nat
      BY <3>1
    <3>4. T \subseteq 0 .. (n + First(T)) /\ n + First(T) \in Nat
      <4> DEFINE R == Rest(T)
                 x == First(T)
      <4>1. T = R \cup {x} /\ x \in Nat /\ R \subseteq 0 .. n
        BY <3>1, <3>2, <3>3
      <4> HIDE DEF R, x
      <4>2. T \subseteq 0 .. (n + x) /\ n + x \in Nat
        BY <4>1
      <4> QED  BY <4>2 DEF x
    <3> QED  BY <3>4
  <2> QED  BY <2>1, <2>2
<1> HIDE DEF G
<1>2. \A T \in SUBSET S : T \in G
  BY <1>1, SubsetsInG
<1>3. S \in G
  BY <1>2
<1> QED  BY <1>3 DEF G

\* The least of a set of numbers.
LEMMA MinOfSet ==
    ASSUME NEW T \in SUBSET Nat, T # {}
    PROVE  Min(T) \in T /\ \A n \in T : Min(T) <= n
BY LeastNatural DEF Min

\* The smaller of two numbers.
LEMMA MinOfTwo ==
    ASSUME NEW a \in Int, NEW b \in Int
    PROVE  Min({a, b}) = IF a <= b THEN a ELSE b
<1> DEFINE m == IF a <= b THEN a ELSE b
<1>1. m \in {a, b} /\ \A y \in {a, b} : m <= y
  OBVIOUS
<1>2. \A x \in {a, b} : (\A y \in {a, b} : x <= y) => x = m
  OBVIOUS
<1>3. Min({a, b}) \in {a, b} /\ \A y \in {a, b} : Min({a, b}) <= y
  BY <1>1 DEF Min
<1> QED  BY <1>2, <1>3

\* The empty sequence has no entries.
LEMMA NoEntries ==  DOMAIN <<>> = {}
OBVIOUS
=============================================================================
