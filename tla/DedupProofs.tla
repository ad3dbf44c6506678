----------------------------- MODULE DedupProofs -----------------------------
(***************************************************************************)
(* Tracks and merges, for any number of files.                             *)
(*                                                                         *)
(* merged_into is a forest only because each merge in force has a loser of *)
(* its own, still standing when it was merged away, and because a merge is *)
(* undone only while nothing was merged after it into its loser.  Sound    *)
(* says so of the tables; the files move along that forest, and the        *)
(* preferred file of a track at its end is a live file of it unless a      *)
(* delete raced.  DedupInv adds what a job between its score and its       *)
(* resolve, and a seed between its read and its mint, still know.  The     *)
(* functions that loop in SQL are folds here: what their loops keep is     *)
(* StepsWithin of DataProofs.                                              *)
(***************************************************************************)
EXTENDS Dedup, DataProofs

-----------------------------------------------------------------------------
(* The tables.                                                             *)

Tracks == [into : Nat, pref : Uploads \cup {0}]
MergeRecords ==
    [loser : Nat, winner : Nat, moved : SUBSET Uploads, priorPref : Uploads \cup {0}, undone : BOOLEAN]
Dbs == [track : [Uploads -> Nat], tracks : Seq(Tracks), home : [Uploads -> Nat],
        merges : Seq(MergeRecords)]

Ids(db) == 1 .. Len(db.tracks)
InForce(db) == {i \in DOMAIN db.merges : ~db.merges[i].undone}

\* The merges in force are what merged_into says: each has its own loser, and a
\* track is merged away after what was merged into it.
Forest(db) ==
    /\ \A i \in InForce(db) :
          /\ db.merges[i].loser \in Ids(db) /\ db.merges[i].winner \in Ids(db)
          /\ db.tracks[db.merges[i].loser].into = db.merges[i].winner
    /\ \A t \in Ids(db) : db.tracks[t].into # 0 => \E i \in InForce(db) : db.merges[i].loser = t
    /\ \A i, j \in InForce(db) :
          /\ db.merges[i].loser = db.merges[j].loser => i = j
          /\ db.merges[j].loser = db.merges[i].winner => i < j

\* The tracks a file stood on: the one it was minted, and those it was moved to.
PathOf(db, f) ==
    {db.home[f]} \cup {db.merges[i].winner : i \in {j \in InForce(db) : f \in db.merges[j].moved}}

\* A file was moved by the merges on its path and by no other, and stands at
\* the path's end; no two moves led to one track.
Follows(db, f) ==
    /\ \A i \in InForce(db) : f \in db.merges[i].moved <=> db.merges[i].loser \in PathOf(db, f)
    /\ db.track[f] \in PathOf(db, f)
    /\ \A u \in PathOf(db, f) : db.tracks[u].into = 0 <=> u = db.track[f]
    /\ \A i \in InForce(db) : f \in db.merges[i].moved =>
          /\ db.merges[i].winner # db.home[f]
          /\ \A j \in InForce(db) :
                f \in db.merges[j].moved /\ db.merges[j].winner = db.merges[i].winner => i = j

\* A track's preferred file is there, stands on the track, and was moved with
\* it when the track was merged away.
Prefers(db, t, gone) ==
    LET p == db.tracks[t].pref
    IN  /\ p \in Uploads \ gone
        /\ db.tracks[t].into = 0 => db.track[p] = t
        /\ \A i \in InForce(db) : db.merges[i].loser = t => p \in db.merges[i].moved

\* The tables, but for what the seed overwrote (lost) and for the tracks (bad)
\* that were pointed at a file that is gone.
Sound(db, lost, bad, gone) ==
    /\ db \in Dbs /\ Forest(db)
    /\ \A f \in Uploads : /\ db.track[f] \in {0} \cup Ids(db) /\ db.home[f] \in {0} \cup Ids(db)
                          /\ (db.track[f] = 0) = (db.home[f] = 0)
    /\ \A i \in InForce(db) : \A f \in db.merges[i].moved : db.track[f] # 0
    /\ \A f \in Uploads \ lost : db.track[f] # 0 => Follows(db, f)
    /\ \A t \in Ids(db) \ bad : db.tracks[t].pref \notin {0} \cup lost => Prefers(db, t, gone)

Gone == Uploads \ Visible

\* The matcher's runs are told apart by their numbers, and are of these files.
JobsHold ==
    /\ jobsRun \in Nat
    /\ jobs \subseteq [id : Nat, file : Uploads, cands : SUBSET Uploads, at : {"scored", "done"}]
    /\ \A j \in jobs : j.id < jobsRun
    /\ \A j, k \in jobs : j.id = k.id => j = k

\* The files the seed has read, each once.
DueHolds ==
    /\ due \in Seq(Uploads)
    /\ \A i, j \in DOMAIN due : due[i] = due[j] => i = j

\* The inductive invariant.
DedupInv ==
    /\ fileState \in [Uploads -> {"analysing", "stored", "deleted"}]
    /\ Sound(Db, raced, tainted, Gone)
    /\ JobsHold /\ DueHolds /\ review \subseteq Uploads \X Uploads

-----------------------------------------------------------------------------
(* The end of a chain of merges.                                           *)

\* One step along it.
Up(db, u) == IF u = 0 \/ db.tracks[u].into = 0 THEN u ELSE db.tracks[u].into

\* The function behind Canonical.
CanonicalSteps(db, t) ==
    CHOOSE g : g = [T \in SUBSET DOMAIN db.tracks |->
                       IF T = {} THEN t
                       ELSE IF g[T \ {CHOOSE x \in T : TRUE}] = 0
                               \/ db.tracks[g[T \ {CHOOSE x \in T : TRUE}]].into = 0
                            THEN g[T \ {CHOOSE x \in T : TRUE}]
                            ELSE db.tracks[g[T \ {CHOOSE x \in T : TRUE}]].into]

\* The shape of the tables, and where merged_into leads.
Shaped(db) ==
    /\ db \in Dbs
    /\ \A t \in Ids(db) : db.tracks[t].into \in {0} \cup Ids(db)

\* Ids name rows, and merged_into leads from a row to a row.
LEMMA ShapeFacts ==
    ASSUME NEW db, Shaped(db)
    PROVE  /\ Len(db.tracks) \in Nat /\ DOMAIN db.tracks = Ids(db) /\ IsFiniteSet(Ids(db))
           /\ 0 \notin Ids(db)
           /\ \A t \in Ids(db) : db.tracks[t] \in Tracks
           /\ \A u \in {0} \cup Ids(db) : Up(db, u) \in {0} \cup Ids(db)
<1>1. db.tracks \in Seq(Tracks)
  BY DEF Shaped, Dbs
<1>2. Len(db.tracks) \in Nat /\ DOMAIN db.tracks = Ids(db)
  BY <1>1, LenProperties DEF Ids
<1>3. IsFiniteSet(Ids(db))
  BY <1>2, FS_Interval DEF Ids
<1>4. 0 \notin Ids(db)
  BY <1>2 DEF Ids
<1>5. \A t \in Ids(db) : db.tracks[t] \in Tracks
  BY <1>1, <1>2, ElementOfSeq
<1>6. \A u \in {0} \cup Ids(db) : Up(db, u) \in {0} \cup Ids(db)
  BY DEF Up, Shaped
<1> QED  BY <1>2, <1>3, <1>4, <1>5, <1>6

\* h[T] is where the walk from t is after as many steps as T has members.
Walks(db, t, h) ==
    /\ h[{}] = t
    /\ \A T \in SUBSET Ids(db) : T # {} => h[T] = Up(db, h[Rest(T)])

\* Canonical walks as many steps as there are tracks.
LEMMA CanonicalBySteps ==
    ASSUME NEW db, Shaped(db), NEW t \in {0} \cup Ids(db)
    PROVE  /\ Canonical(db, t) = CanonicalSteps(db, t)[Ids(db)]
           /\ Walks(db, t, CanonicalSteps(db, t))
<1> DEFINE D == Ids(db)
           V == {0} \cup D
           Rule(g) == g = [T \in SUBSET DOMAIN db.tracks |->
                       IF T = {} THEN t
                       ELSE IF g[T \ {CHOOSE x \in T : TRUE}] = 0
                               \/ db.tracks[g[T \ {CHOOSE x \in T : TRUE}]].into = 0
                            THEN g[T \ {CHOOSE x \in T : TRUE}]
                            ELSE db.tracks[g[T \ {CHOOSE x \in T : TRUE}]].into]
           step == [p \in D \X V |-> Up(db, p[2])]
<1>1. DOMAIN db.tracks = D /\ IsFiniteSet(D) /\ \A u \in V : Up(db, u) \in V
  BY ShapeFacts
<1>2. step \in [D \X V -> V]
  BY <1>1
<1>3. PICK g \in [SUBSET D -> V] : OneByOne(g, D, t, step)
  <2> HIDE DEF D, V, step
  <2>1. t \in V
    BY DEF V, D
  <2> QED  BY <1>1, <1>2, <2>1, TakesOneByOne
<1>4. \A T \in SUBSET D : g[T] = IF T = {} THEN t ELSE Up(db, g[Rest(T)])
  <2>1. ASSUME NEW T \in SUBSET D, T # {}  PROVE step[<<First(T), g[Rest(T)]>>] = Up(db, g[Rest(T)])
    <3>1. First(T) \in D /\ Rest(T) \in SUBSET D
      BY <2>1, FirstAndRest
    <3>2. <<First(T), g[Rest(T)]>> \in D \X V
      BY <3>1
    <3> QED  BY <3>2
  <2> QED  BY <1>3, <2>1 DEF OneByOne
<1>5. Rule(g)
  <2>1. \A h : Rule(h) <=> h = [T \in SUBSET D |-> IF T = {} THEN t ELSE Up(db, h[Rest(T)])]
    BY <1>1 DEF Up, Rest, First
  <2>2. g = [T \in SUBSET D |-> IF T = {} THEN t ELSE Up(db, g[Rest(T)])]
    BY <1>4
  <2> HIDE DEF Rule
  <2> QED  BY <2>1, <2>2
<1>6. Rule(CanonicalSteps(db, t))
  <2>1. CanonicalSteps(db, t) = CHOOSE h : Rule(h)
    BY DEF CanonicalSteps
  <2> HIDE DEF Rule
  <2> QED  BY <1>5, <2>1
<1>7. Canonical(db, t) = CanonicalSteps(db, t)[Ids(db)]
  BY <1>1 DEF Canonical, CanonicalSteps, FoldSeq, FoldFunction, FoldFunctionOnSet, MapThenFoldSet
<1> DEFINE h == CanonicalSteps(db, t)
<1>8. h = [T \in SUBSET D |-> IF T = {} THEN t ELSE Up(db, h[Rest(T)])]
  BY <1>1, <1>6 DEF Up, Rest, First
<1> HIDE DEF h
<1>9. \A T \in SUBSET D : h[T] = IF T = {} THEN t ELSE Up(db, h[Rest(T)])
  BY <1>8
<1> QED  BY <1>7, <1>9 DEF h, Walks

\* The walk stays where every step stays.
LEMMA CanonicalStays ==
    ASSUME NEW db, Shaped(db), NEW t \in {0} \cup Ids(db), NEW C, t \in C,
           \A u \in C : Up(db, u) \in C
    PROVE  Canonical(db, t) \in C
<1> DEFINE D == Ids(db)
           h == CanonicalSteps(db, t)
           G == {T \in SUBSET D : h[T] \in C}
<1>0. Canonical(db, t) = CanonicalSteps(db, t)[Ids(db)] /\ Walks(db, t, CanonicalSteps(db, t))
  BY CanonicalBySteps
<1>1. /\ Canonical(db, t) = h[D] /\ h[{}] = t
      /\ \A T \in SUBSET D : T # {} => h[T] = Up(db, h[Rest(T)])
  BY <1>0 DEF Walks
<1>2. IsFiniteSet(D)
  BY ShapeFacts
<1> HIDE DEF D, h
<1>3. ASSUME NEW T \in SUBSET D, \A U \in SUBSET T : U # T => U \in G  PROVE T \in G
  <2>1. CASE T = {}
    BY <1>1, <2>1
  <2>2. CASE T # {}
    <3>1. Rest(T) \in SUBSET T /\ Rest(T) # T
      BY <2>2, FirstAndRest
    <3>2. h[Rest(T)] \in C
      BY <1>3, <3>1
    <3> QED  BY <1>1, <2>2, <3>2
  <2> QED  BY <2>1, <2>2
<1> HIDE DEF G
<1>4. \A T \in SUBSET D : T \in G
  BY <1>2, <1>3, SubsetsInG
<1>5. D \in G
  BY <1>4
<1> QED  BY <1>1, <1>5 DEF G

\* No track leads to none, and the end of a chain leads to itself.
LEMMA CanonicalOfEnds ==
    ASSUME NEW db, Shaped(db), NEW t \in {0} \cup Ids(db), t = 0 \/ db.tracks[t].into = 0
    PROVE  Canonical(db, t) = t
<1> DEFINE C == {t}
<1>1. \A u \in C : Up(db, u) \in C
  BY DEF Up
<1>2. t \in C
  OBVIOUS
<1> HIDE DEF C
<1>3. Canonical(db, t) \in C
  BY <1>1, <1>2, CanonicalStays
<1> QED  BY <1>3 DEF C

\* Chains end: along them something grows.
Ranked(db, m) ==
    \A t \in Ids(db) : db.tracks[t].into # 0 =>
        /\ m[t] \in Nat
        /\ db.tracks[db.tracks[t].into].into # 0 => m[t] < m[db.tracks[t].into]

\* A track's chain is walked to its end.
LEMMA CanonicalEnds ==
    ASSUME NEW db, Shaped(db), NEW m, Ranked(db, m), NEW t \in Ids(db)
    PROVE  Canonical(db, t) \in Ids(db) /\ db.tracks[Canonical(db, t)].into = 0
<1> DEFINE D == Ids(db)
           h == CanonicalSteps(db, t)
           into(u) == db.tracks[u].into
           Passed(S, u) == \A x \in S : into(x) # 0 /\ m[x] < m[u]
           Good(T) == /\ h[T] \in D
                      /\ into(h[T]) # 0 => \E S \in SUBSET D : Cardinality(S) = Cardinality(T) /\ Passed(S, h[T])
           G == {T \in SUBSET D : Good(T)}
<1>0. Canonical(db, t) = CanonicalSteps(db, t)[Ids(db)] /\ Walks(db, t, CanonicalSteps(db, t))
  BY CanonicalBySteps
<1>1. /\ Canonical(db, t) = h[D] /\ h[{}] = t
      /\ \A T \in SUBSET D : T # {} => h[T] = Up(db, h[Rest(T)])
  BY <1>0 DEF Walks
<1>2. IsFiniteSet(D) /\ 0 \notin D /\ t \in D
      /\ \A S \in SUBSET D : IsFiniteSet(S) /\ Cardinality(S) \in Nat
  BY ShapeFacts, FS_Subset, FS_CardinalityType
<1>3. \A u \in D : into(u) \in {0} \cup D
  BY DEF Shaped
<1>4. \A u \in D : into(u) # 0 => m[u] \in Nat /\ (into(into(u)) # 0 => m[u] < m[into(u)])
  BY DEF Ranked
<1>5. \A u \in D : Up(db, u) = IF into(u) = 0 THEN u ELSE into(u)
  BY <1>2 DEF Up
<1> HIDE DEF D, h, into
<1>6. ASSUME NEW T \in SUBSET D, \A U \in SUBSET T : U # T => U \in G  PROVE T \in G
  <2>1. CASE T = {}
    <3>1. Passed({}, h[T]) /\ {} \in SUBSET D
      OBVIOUS
    <3> QED  BY <1>1, <1>2, <2>1, <3>1
  <2>2. CASE T # {}
    <3>1. Rest(T) \in SUBSET T /\ Rest(T) # T /\ Rest(T) \in SUBSET D
          /\ T = Rest(T) \cup {First(T)} /\ First(T) \notin Rest(T)
      BY <2>2, FirstAndRest
    <3>2. Good(Rest(T))
      BY <1>6, <3>1
    <3> DEFINE u == h[Rest(T)]
    <3>3. h[T] = Up(db, u) /\ u \in D
      BY <1>1, <2>2, <3>2
    <3>4. Cardinality(T) = Cardinality(Rest(T)) + 1
      <4>1. IsFiniteSet(Rest(T))
        BY <1>2, <3>1
      <4> QED  BY <3>1, <4>1, FS_AddElement
    <3> HIDE DEF u
    <3>5. CASE into(u) = 0
      BY <1>5, <3>3, <3>5
    <3>6. CASE into(u) # 0
      <4>1. h[T] = into(u) /\ into(u) \in D
        BY <1>3, <1>5, <3>3, <3>6
      <4>2. ASSUME into(h[T]) # 0
            PROVE  \E S \in SUBSET D : Cardinality(S) = Cardinality(T) /\ Passed(S, h[T])
        <5>1. PICK S \in SUBSET D : Cardinality(S) = Cardinality(Rest(T)) /\ Passed(S, u)
          BY <3>2, <3>6 DEF u
        <5>2. m[u] \in Nat /\ m[u] < m[h[T]] /\ m[h[T]] \in Nat
          BY <1>4, <3>3, <3>6, <4>1, <4>2
        <5>3. \A x \in S : m[x] \in Nat
          BY <1>4, <5>1
        <5>4. u \notin S
          BY <5>1, <5>2
        <5>5. S \cup {u} \in SUBSET D /\ Passed(S \cup {u}, h[T])
          BY <3>3, <3>6, <5>1, <5>2, <5>3
        <5>6. Cardinality(S \cup {u}) = Cardinality(T)
          <6>1. IsFiniteSet(S)
            BY <1>2
          <6>2. Cardinality(S \cup {u}) = Cardinality(S) + 1
            BY <5>4, <6>1, FS_AddElement
          <6> QED  BY <3>4, <5>1, <6>2
        <5> QED  BY <5>5, <5>6
      <4> QED  BY <4>1, <4>2
    <3> QED  BY <3>5, <3>6
  <2> QED  BY <2>1, <2>2
<1> HIDE DEF G
<1>7. \A T \in SUBSET D : T \in G
  BY <1>2, <1>6, SubsetsInG
<1>8. Good(D)
  BY <1>7 DEF G
<1>9. ASSUME into(h[D]) # 0  PROVE FALSE
  <2>1. PICK S \in SUBSET D : Cardinality(S) = Cardinality(D) /\ Passed(S, h[D])
    BY <1>8, <1>9
  <2>2. S = D
    BY <1>2, <2>1, FS_Subset
  <2>3. m[h[D]] < m[h[D]] /\ m[h[D]] \in Nat
    BY <1>4, <1>8, <1>9, <2>1, <2>2
  <2> QED  BY <2>3
<1> QED  BY <1>1, <1>8, <1>9 DEF into, D

\* Whoever starts a step further along ends at the same place.
LEMMA CanonicalOfNext ==
    ASSUME NEW db, Shaped(db), NEW m, Ranked(db, m), NEW t \in Ids(db), db.tracks[t].into # 0
    PROVE  Canonical(db, t) = Canonical(db, db.tracks[t].into)
<1> DEFINE D == Ids(db)
           n == db.tracks[t].into
           h == CanonicalSteps(db, t)
           k == CanonicalSteps(db, n)
           G == {T \in SUBSET D : k[T] = Up(db, h[T])}
<1>0. n \in D /\ t \in D
  BY DEF Shaped
<1>11. Canonical(db, t) = CanonicalSteps(db, t)[Ids(db)] /\ Walks(db, t, CanonicalSteps(db, t))
  BY CanonicalBySteps
<1>1. /\ Canonical(db, t) = h[D] /\ h[{}] = t
      /\ \A T \in SUBSET D : T # {} => h[T] = Up(db, h[Rest(T)])
  BY <1>11 DEF Walks
<1>12. Canonical(db, n) = CanonicalSteps(db, n)[Ids(db)] /\ Walks(db, n, CanonicalSteps(db, n))
  BY <1>0, CanonicalBySteps
<1>2. /\ Canonical(db, n) = k[D] /\ k[{}] = n
      /\ \A T \in SUBSET D : T # {} => k[T] = Up(db, k[Rest(T)])
  BY <1>12 DEF Walks
<1>3. IsFiniteSet(D) /\ 0 \notin D
  BY ShapeFacts
<1>4. n = Up(db, t)
  BY <1>0, <1>3 DEF Up
<1>5. Canonical(db, t) \in D /\ db.tracks[Canonical(db, t)].into = 0
  BY CanonicalEnds
<1> HIDE DEF D, h, k, n
<1>6. ASSUME NEW T \in SUBSET D, \A U \in SUBSET T : U # T => U \in G  PROVE T \in G
  <2>1. CASE T = {}
    BY <1>1, <1>2, <1>4, <2>1
  <2>2. CASE T # {}
    <3>1. Rest(T) \in SUBSET T /\ Rest(T) # T
      BY <2>2, FirstAndRest
    <3>2. k[Rest(T)] = Up(db, h[Rest(T)])
      BY <1>6, <3>1
    <3> QED  BY <1>1, <1>2, <2>2, <3>2
  <2> QED  BY <2>1, <2>2
<1> HIDE DEF G
<1>7. \A T \in SUBSET D : T \in G
  BY <1>3, <1>6, SubsetsInG
<1>8. k[D] = Up(db, h[D])
  BY <1>7 DEF G
<1>9. Up(db, Canonical(db, t)) = Canonical(db, t)
  BY <1>5 DEF Up
<1> QED  BY <1>1, <1>2, <1>8, <1>9 DEF n

\* Canonical is what keeps its value along a chain and is an end's own.
LEMMA CanonicalIs ==
    ASSUME NEW db, Shaped(db), NEW m, Ranked(db, m), NEW g,
           \A t \in Ids(db) : IF db.tracks[t].into = 0 THEN g[t] = t ELSE g[t] = g[db.tracks[t].into]
    PROVE  \A t \in Ids(db) : Canonical(db, t) = g[t]
<1> SUFFICES ASSUME NEW t \in Ids(db)  PROVE Canonical(db, t) = g[t]
  OBVIOUS
<1> DEFINE C == {u \in Ids(db) : g[u] = g[t]}
<1>1. \A u \in C : Up(db, u) \in C
  <2> SUFFICES ASSUME NEW u \in C  PROVE Up(db, u) \in C
    OBVIOUS
  <2>1. u \in Ids(db) /\ u # 0 /\ db.tracks[u].into \in {0} \cup Ids(db)
    BY ShapeFacts DEF Shaped
  <2> QED  BY <2>1 DEF Up
<1>2. t \in C
  OBVIOUS
<1> HIDE DEF C
<1>3. Canonical(db, t) \in C
  BY <1>1, <1>2, CanonicalStays
<1>4. Canonical(db, t) \in Ids(db) /\ db.tracks[Canonical(db, t)].into = 0
  BY CanonicalEnds
<1>5. g[Canonical(db, t)] = Canonical(db, t)
  BY <1>4
<1> QED  BY <1>3, <1>5 DEF C

\* The merges in force rank the tracks: a track is merged away before what it
\* was merged into.
LEMMA ForestIsRanked ==
    ASSUME NEW db, db \in Dbs, Forest(db)
    PROVE  Shaped(db) /\ \E m : Ranked(db, m)
<1> DEFINE m == [t \in Ids(db) |-> CHOOSE i \in InForce(db) : db.merges[i].loser = t]
<1>0. \A i, j \in InForce(db) : db.merges[j].loser = db.merges[i].winner => i < j
  BY DEF Forest
<1>1. \A t \in Ids(db) : db.tracks[t].into # 0 => m[t] \in InForce(db) /\ db.merges[m[t]].loser = t
  BY DEF Forest
<1>2. InForce(db) \subseteq Nat
  BY LenProperties DEF InForce, Dbs
<1>3. ASSUME NEW t \in Ids(db), db.tracks[t].into # 0
      PROVE  /\ db.tracks[t].into \in Ids(db) /\ m[t] \in Nat
             /\ db.tracks[db.tracks[t].into].into # 0 => m[t] < m[db.tracks[t].into]
  <2>1. m[t] \in InForce(db) /\ db.merges[m[t]].loser = t /\ db.merges[m[t]].winner = db.tracks[t].into
        /\ db.tracks[t].into \in Ids(db)
    BY <1>1, <1>3 DEF Forest
  <2>2. ASSUME db.tracks[db.tracks[t].into].into # 0  PROVE m[t] < m[db.tracks[t].into]
    <3>1. PICK i \in InForce(db) : i = m[t] /\ db.merges[i].winner = db.tracks[t].into
      BY <2>1
    <3>2. PICK j \in InForce(db) : j = m[db.tracks[t].into] /\ db.merges[j].loser = db.tracks[t].into
      BY <1>1, <2>1, <2>2
    <3>3. i < j
      BY <1>0, <3>1, <3>2
    <3> QED  BY <3>1, <3>2, <3>3
  <2> QED  BY <1>2, <2>1, <2>2
<1>4. Shaped(db)
  BY <1>3 DEF Shaped
<1>5. Ranked(db, m)
  BY <1>3 DEF Ranked
<1> QED  BY <1>4, <1>5

-----------------------------------------------------------------------------
(* Sound tables.                                                           *)

\* What they are made of.
LEMMA SoundFacts ==
    ASSUME NEW db, NEW lost, NEW bad, NEW gone, Sound(db, lost, bad, gone)
    PROVE  /\ db \in Dbs /\ Shaped(db) /\ (\E m : Ranked(db, m)) /\ Forest(db)
           /\ db.tracks \in Seq(Tracks) /\ db.merges \in Seq(MergeRecords)
           /\ db.track \in [Uploads -> Nat] /\ db.home \in [Uploads -> Nat]
           /\ Len(db.tracks) \in Nat /\ DOMAIN db.tracks = Ids(db) /\ 0 \notin Ids(db)
           /\ Len(db.merges) \in Nat /\ DOMAIN db.merges = 1 .. Len(db.merges)
           /\ InForce(db) \subseteq 1 .. Len(db.merges)
           /\ \A i \in InForce(db) :
                 /\ db.merges[i] \in MergeRecords /\ db.merges[i].moved \subseteq Uploads
                 /\ db.merges[i].loser \in Ids(db) /\ db.merges[i].winner \in Ids(db)
                 /\ db.merges[i].loser # db.merges[i].winner
                 /\ db.tracks[db.merges[i].loser].into = db.merges[i].winner
           /\ \A t \in Ids(db) : db.tracks[t] \in Tracks /\ db.tracks[t].into \in {0} \cup Ids(db)
                                 /\ db.tracks[t].pref \in Uploads \cup {0}
<1>1. db \in Dbs /\ Forest(db)
  BY DEF Sound
<1>2. Shaped(db) /\ (\E m : Ranked(db, m))
  BY <1>1, ForestIsRanked
<1>3. /\ db.tracks \in Seq(Tracks) /\ db.merges \in Seq(MergeRecords)
      /\ db.track \in [Uploads -> Nat] /\ db.home \in [Uploads -> Nat]
  BY <1>1 DEF Dbs
<1>4. Len(db.merges) \in Nat /\ DOMAIN db.merges = 1 .. Len(db.merges)
      /\ InForce(db) \subseteq 1 .. Len(db.merges)
  BY <1>3, LenProperties DEF InForce
<1>5. \A i \in 1 .. Len(db.merges) : db.merges[i] \in MergeRecords
  BY <1>3, <1>4, ElementOfSeq
<1>6. ASSUME NEW i \in InForce(db)
      PROVE  /\ db.merges[i] \in MergeRecords /\ db.merges[i].moved \subseteq Uploads
             /\ db.merges[i].loser \in Ids(db) /\ db.merges[i].winner \in Ids(db)
             /\ db.merges[i].loser # db.merges[i].winner
             /\ db.tracks[db.merges[i].loser].into = db.merges[i].winner
  <2>1. db.merges[i] \in MergeRecords
    BY <1>4, <1>5
  <2>2. db.merges[i].moved \subseteq Uploads
    BY <2>1 DEF MergeRecords
  <2>3. db.merges[i].loser # db.merges[i].winner
    <3>1. \A j \in InForce(db) : db.merges[j].loser = db.merges[i].winner => i < j
      BY <1>1 DEF Forest
    <3>2. i \in Nat
      BY <1>4
    <3> QED  BY <3>1, <3>2
  <2> QED  BY <1>1, <2>1, <2>2, <2>3 DEF Forest
<1>7. \A t \in Ids(db) : db.tracks[t] \in Tracks /\ db.tracks[t].into \in {0} \cup Ids(db)
                                 /\ db.tracks[t].pref \in Uploads \cup {0}
  BY <1>2, ShapeFacts DEF Shaped, Tracks
<1> QED  BY <1>1, <1>2, <1>3, <1>4, <1>6, <1>7, ShapeFacts

\* A path is of tracks.
LEMMA PathIsOfTracks ==
    ASSUME NEW db, NEW lost, NEW bad, NEW gone, Sound(db, lost, bad, gone),
           NEW f \in Uploads, db.track[f] # 0
    PROVE  PathOf(db, f) \subseteq Ids(db) /\ db.track[f] \in Ids(db) /\ db.home[f] \in Ids(db)
<1>1. db.home[f] \in Ids(db) /\ db.track[f] \in Ids(db)
  BY DEF Sound
<1>2. \A i \in InForce(db) : db.merges[i].winner \in Ids(db)
  BY SoundFacts
<1> QED  BY <1>1, <1>2 DEF PathOf

\* A file is at the end of its path.
LEMMA AtTheEnd ==
    ASSUME NEW db, NEW lost, NEW bad, NEW gone, Sound(db, lost, bad, gone),
           NEW f \in Uploads \ lost, db.track[f] # 0
    PROVE  Canonical(db, db.home[f]) = db.track[f] /\ db.tracks[db.track[f]].into = 0
<1> DEFINE C == PathOf(db, f)
<1>1. /\ C \subseteq Ids(db) /\ db.home[f] \in Ids(db)
      /\ Shaped(db) /\ Forest(db) /\ 0 \notin Ids(db)
  BY PathIsOfTracks, SoundFacts
<1>2. PICK m : Ranked(db, m)
  BY SoundFacts
<1>3. Follows(db, f)
  BY DEF Sound
<1>4. ASSUME NEW u \in C  PROVE Up(db, u) \in C
  <2>1. CASE db.tracks[u].into = 0
    BY <1>4, <2>1 DEF Up
  <2>2. CASE db.tracks[u].into # 0
    <3>1. u \in Ids(db) /\ u # 0
      BY <1>1
    <3>2. PICK i \in InForce(db) : db.merges[i].loser = u
      BY <1>1, <2>2, <3>1 DEF Forest
    <3>3. f \in db.merges[i].moved
      BY <1>3, <1>4, <3>2 DEF Follows
    <3>4. db.merges[i].winner \in C
      BY <3>3 DEF PathOf
    <3>5. db.tracks[u].into = db.merges[i].winner
      BY <1>1, <3>2 DEF Forest
    <3> QED  BY <2>2, <3>1, <3>4, <3>5 DEF Up
  <2> QED  BY <2>1, <2>2
<1>5. db.home[f] \in C
  BY DEF PathOf
<1> HIDE DEF C
<1>6. Canonical(db, db.home[f]) \in C
  BY <1>1, <1>4, <1>5, CanonicalStays
<1>7. db.tracks[Canonical(db, db.home[f])].into = 0
  BY <1>1, <1>2, CanonicalEnds
<1> QED  BY <1>3, <1>6, <1>7 DEF Follows, C

\* A minted track.
LEMMA MintIs ==
    ASSUME NEW db \in Dbs, NEW f \in Uploads
    PROVE  /\ Mint(db, f) \in Dbs
           /\ Len(Mint(db, f).tracks) = Len(db.tracks) + 1 /\ Len(db.tracks) \in Nat
           /\ Ids(Mint(db, f)) = Ids(db) \cup {Len(db.tracks) + 1}
           /\ \A t \in Ids(db) : Mint(db, f).tracks[t] = db.tracks[t] /\ t # Len(db.tracks) + 1
           /\ Mint(db, f).tracks[Len(db.tracks) + 1].into = 0
           /\ Mint(db, f).tracks[Len(db.tracks) + 1].pref = f
           /\ Mint(db, f).merges = db.merges
           /\ \A g \in Uploads :
                 /\ Mint(db, f).track[g] = IF g = f THEN Len(db.tracks) + 1 ELSE db.track[g]
                 /\ Mint(db, f).home[g] = IF g = f THEN Len(db.tracks) + 1 ELSE db.home[g]
<1> DEFINE n == Len(db.tracks) + 1
           d == Mint(db, f)
           r == [into |-> 0, pref |-> f]
<1>1. /\ db.tracks \in Seq(Tracks) /\ db.merges \in Seq(MergeRecords)
      /\ db.track \in [Uploads -> Nat] /\ db.home \in [Uploads -> Nat] /\ n \in Nat
      /\ Len(db.tracks) \in Nat
  BY LenProperties DEF Dbs
<1>2. /\ d.tracks = Append(db.tracks, r) /\ d.merges = db.merges
      /\ d.track = [db.track EXCEPT ![f] = n] /\ d.home = [db.home EXCEPT ![f] = n]
  BY DEF Mint, Dbs
<1>4. r \in Tracks
  BY DEF Tracks
<1>5. /\ d.tracks \in Seq(Tracks) /\ Len(d.tracks) = n
      /\ \A t \in 1 .. Len(db.tracks) : d.tracks[t] = db.tracks[t]
      /\ d.tracks[n] = r
  <2> DEFINE s == db.tracks
  <2>1. s \in Seq(Tracks) /\ d.tracks = Append(s, r) /\ n = Len(s) + 1
    BY <1>1, <1>2
  <2> HIDE DEF s, d, r
  <2>2. /\ d.tracks \in Seq(Tracks) /\ Len(d.tracks) = Len(s) + 1
        /\ \A t \in 1 .. Len(s) : d.tracks[t] = s[t]
        /\ d.tracks[Len(s) + 1] = r
    BY <1>4, <2>1, AppendProperties
  <2> QED  BY <2>2 DEF s
<1>6. d.track \in [Uploads -> Nat] /\ d.home \in [Uploads -> Nat]
  BY <1>1, <1>2
<1>7. d \in Dbs
  <2>1. /\ [db.track EXCEPT ![f] = n] \in [Uploads -> Nat] /\ [db.home EXCEPT ![f] = n] \in [Uploads -> Nat]
        /\ Append(db.tracks, r) \in Seq(Tracks)
    BY <1>1, <1>4, AppendProperties
  <2> QED  BY <1>1, <2>1 DEF Mint, Dbs
<1>8. Ids(d) = Ids(db) \cup {n} /\ \A t \in Ids(db) : t # n /\ t \in 1 .. Len(db.tracks)
  <2> HIDE DEF d
  <2> QED  BY <1>1, <1>5 DEF Ids
<1>9. \A g \in Uploads : /\ d.track[g] = IF g = f THEN n ELSE db.track[g]
                         /\ d.home[g] = IF g = f THEN n ELSE db.home[g]
  BY <1>1, <1>2
<1>10. d.tracks[n].into = 0 /\ d.tracks[n].pref = f
  BY <1>5
<1> HIDE DEF d, r
<1> QED  BY <1>1, <1>2, <1>5, <1>7, <1>8, <1>9, <1>10 DEF d, Ids

\* Minting keeps the tables sound.
LEMMA MintKeeps ==
    ASSUME NEW db, NEW lost, NEW bad, NEW gone, Sound(db, lost, bad, gone),
           NEW f \in Uploads, f \notin lost => db.track[f] = 0 /\ f \notin gone
    PROVE  Sound(Mint(db, f), lost, bad, gone)
<1> DEFINE d == Mint(db, f)
           n == Len(db.tracks) + 1
<1>1. /\ d \in Dbs /\ Ids(d) = Ids(db) \cup {n} /\ n # 0 /\ n \notin Ids(db)
      /\ \A t \in Ids(db) : d.tracks[t] = db.tracks[t] /\ t # n
      /\ d.tracks[n].into = 0 /\ d.tracks[n].pref = f
      /\ d.merges = db.merges
      /\ \A g \in Uploads :
            /\ d.track[g] = IF g = f THEN n ELSE db.track[g]
            /\ d.home[g] = IF g = f THEN n ELSE db.home[g]
  BY MintIs, SoundFacts DEF Ids
<1>2. /\ InForce(d) = InForce(db) /\ Forest(db)
      /\ \A i \in InForce(db) :
            /\ db.merges[i].moved \subseteq Uploads
            /\ db.merges[i].loser \in Ids(db) /\ db.merges[i].winner \in Ids(db)
  BY <1>1, SoundFacts DEF InForce
<1>3. /\ \A g \in Uploads : /\ db.track[g] \in {0} \cup Ids(db) /\ db.home[g] \in {0} \cup Ids(db)
                            /\ (db.track[g] = 0) = (db.home[g] = 0)
      /\ \A i \in InForce(db) : \A g \in db.merges[i].moved : db.track[g] # 0
      /\ \A g \in Uploads \ lost : db.track[g] # 0 => Follows(db, g)
      /\ \A t \in Ids(db) \ bad : db.tracks[t].pref \notin {0} \cup lost => Prefers(db, t, gone)
  BY DEF Sound
<1> HIDE DEF d, n
<1>4. Forest(d)
  <2>1. /\ \A i \in InForce(d) :
              /\ d.merges[i].loser \in Ids(d) /\ d.merges[i].winner \in Ids(d)
              /\ d.tracks[d.merges[i].loser].into = d.merges[i].winner
    BY <1>1, <1>2 DEF Forest
  <2>2. \A t \in Ids(d) : d.tracks[t].into # 0 => \E i \in InForce(d) : d.merges[i].loser = t
    BY <1>1, <1>2 DEF Forest
  <2>3. \A i, j \in InForce(d) :
          /\ d.merges[i].loser = d.merges[j].loser => i = j
          /\ d.merges[j].loser = d.merges[i].winner => i < j
    BY <1>1, <1>2 DEF Forest
  <2> QED  BY <2>1, <2>2, <2>3 DEF Forest
<1>5. \A g \in Uploads : /\ d.track[g] \in {0} \cup Ids(d) /\ d.home[g] \in {0} \cup Ids(d)
                         /\ (d.track[g] = 0) = (d.home[g] = 0)
  BY <1>1, <1>3
<1>6. \A i \in InForce(d) : \A g \in d.merges[i].moved : d.track[g] # 0
  BY <1>1, <1>2, <1>3
<1>7. ASSUME NEW g \in Uploads \ lost, d.track[g] # 0  PROVE Follows(d, g)
  <2>1. CASE g = f
    <3>1. db.track[f] = 0
      BY <2>1
    <3>2. \A i \in InForce(d) : f \notin d.merges[i].moved /\ d.merges[i].loser # n
      BY <1>1, <1>2, <1>3, <3>1
    <3>3. PathOf(d, f) = {n}
      BY <1>1, <3>2 DEF PathOf
    <3> QED  BY <1>1, <2>1, <3>2, <3>3 DEF Follows
  <2>2. CASE g # f
    <3>1. db.track[g] # 0 /\ Follows(db, g) /\ d.track[g] = db.track[g] /\ d.home[g] = db.home[g]
      BY <1>1, <1>3, <1>7, <2>2
    <3>2. PathOf(d, g) = PathOf(db, g)
      BY <1>1, <1>2, <3>1 DEF PathOf
    <3>3. PathOf(db, g) \subseteq Ids(db)
      BY <3>1, PathIsOfTracks
    <3> QED  BY <1>1, <1>2, <3>1, <3>2, <3>3 DEF Follows
  <2> QED  BY <2>1, <2>2
<1>8. ASSUME NEW t \in Ids(d) \ bad, d.tracks[t].pref \notin {0} \cup lost  PROVE Prefers(d, t, gone)
  <2>1. CASE t = n
    <3>1. f \notin gone /\ d.track[f] = n
      BY <1>1, <1>8, <2>1
    <3>2. \A i \in InForce(d) : d.merges[i].loser # n
      BY <1>1, <1>2
    <3> QED  BY <1>1, <2>1, <3>1, <3>2 DEF Prefers
  <2>2. CASE t \in Ids(db)
    <3>1. Prefers(db, t, gone) /\ d.tracks[t] = db.tracks[t] /\ t # 0
      BY <1>1, <1>3, <1>8, <2>2, SoundFacts
    <3> DEFINE p == db.tracks[t].pref
    <3>2. p \in Uploads \ gone /\ p \notin lost
      BY <1>8, <3>1 DEF Prefers
    <3>3. p # f
      <4>1. ASSUME p = f  PROVE FALSE
        <5>1. db.track[f] = 0
          BY <3>2, <4>1
        <5>2. db.tracks[t].into # 0
          BY <3>1, <4>1, <5>1 DEF Prefers
        <5>3. PICK i \in InForce(db) : db.merges[i].loser = t
          BY <1>2, <2>2, <5>2 DEF Forest
        <5>4. p \in db.merges[i].moved
          BY <3>1, <5>3 DEF Prefers
        <5> QED  BY <1>3, <4>1, <5>1, <5>4
      <4> QED  BY <4>1
    <3> QED  BY <1>1, <1>2, <3>1, <3>2, <3>3 DEF Prefers
  <2> QED  BY <1>1, <2>1, <2>2
<1>9. d \in Dbs
  BY <1>1
<1>10. Sound(d, lost, bad, gone)
  BY <1>4, <1>5, <1>6, <1>7, <1>8, <1>9 DEF Sound
<1> QED  BY <1>10 DEF d

-----------------------------------------------------------------------------
(* A merge.                                                                *)

\* The files on a track.
Standing(db, l) == {f \in Uploads : db.track[f] = l}

\* What a merge of two ends makes.
Merged(db, l, w) ==
    [db EXCEPT !.merges = Append(@, [loser |-> l, winner |-> w,
                                     moved |-> Standing(db, l),
                                     priorPref |-> db.tracks[w].pref, undone |-> FALSE]),
               !.track = [f \in Uploads |-> IF f \in Standing(db, l)
                                            THEN w ELSE db.track[f]],
               !.tracks[l].into = w]

\* Two ends that differ.
Ends(db, l, w) ==
    l \in Ids(db) /\ w \in Ids(db) /\ l # w /\ db.tracks[l].into = 0 /\ db.tracks[w].into = 0

\* dedup_merge_tracks merges the ends of the two chains.
LEMMA MergeTracksIs ==
    ASSUME NEW db, NEW t, NEW u
    PROVE  MergeTracks(db, t, u) = Merged(db, Canonical(db, t), Canonical(db, u))
BY DEF MergeTracks, Merged, Standing

\* What is left of the tables, told field by field.
IsMerged(d, db, l, w) ==
    /\ d \in Dbs /\ Len(d.tracks) = Len(db.tracks) /\ Ids(d) = Ids(db)
    /\ \A t \in Ids(db) : /\ d.tracks[t].pref = db.tracks[t].pref
                          /\ d.tracks[t].into = IF t = l THEN w ELSE db.tracks[t].into
    /\ \A f \in Uploads : /\ d.home[f] = db.home[f]
                          /\ d.track[f] = IF db.track[f] = l THEN w ELSE db.track[f]
    /\ Len(d.merges) = Len(db.merges) + 1 /\ Len(db.merges) \in Nat
    /\ InForce(d) = InForce(db) \cup {Len(db.merges) + 1}
    /\ InForce(db) \subseteq 1 .. Len(db.merges)
    /\ \A i \in InForce(db) : d.merges[i] = db.merges[i]
    /\ LET m == d.merges[Len(db.merges) + 1]
       IN  m.loser = l /\ m.winner = w /\ m.moved = Standing(db, l)

\* A merge adds one record, points the loser at the winner and moves its files.
LEMMA MergedIs ==
    ASSUME NEW db, Shaped(db), NEW l, NEW w, Ends(db, l, w)
    PROVE  IsMerged(Merged(db, l, w), db, l, w)
<1> DEFINE d == Merged(db, l, w)
           k == Len(db.merges) + 1
           r == [loser |-> l, winner |-> w, moved |-> Standing(db, l),
                 priorPref |-> db.tracks[w].pref, undone |-> FALSE]
           track2 == [f \in Uploads |-> IF f \in Standing(db, l) THEN w ELSE db.track[f]]
           tracks2 == [db.tracks EXCEPT ![l].into = w]
<1>1. /\ db.tracks \in Seq(Tracks) /\ db.merges \in Seq(MergeRecords) /\ db \in Dbs
      /\ db.track \in [Uploads -> Nat] /\ db.home \in [Uploads -> Nat]
      /\ Len(db.merges) \in Nat /\ DOMAIN db.merges = 1 .. Len(db.merges)
      /\ Len(db.tracks) \in Nat /\ DOMAIN db.tracks = Ids(db) /\ Ids(db) = 1 .. Len(db.tracks)
  BY LenProperties DEF Dbs, Shaped, Ids
<1>2. l \in Nat /\ w \in Nat /\ l \in Ids(db) /\ w \in Ids(db)
      /\ \A t \in Ids(db) : db.tracks[t] \in Tracks /\ db.tracks[t].pref \in Uploads \cup {0}
  BY <1>1, ShapeFacts DEF Ends, Tracks
<1>3. r \in MergeRecords
  BY <1>2 DEF MergeRecords, Standing
<1>4. track2 \in [Uploads -> Nat]
  BY <1>1, <1>2
<1>5. [db.tracks[l] EXCEPT !.into = w] \in Tracks /\ [db.tracks[l] EXCEPT !.into = w].into = w
      /\ [db.tracks[l] EXCEPT !.into = w].pref = db.tracks[l].pref
  BY <1>2 DEF Tracks
<1>6. /\ tracks2 \in Seq(Tracks) /\ Len(tracks2) = Len(db.tracks)
      /\ \A t \in Ids(db) : /\ tracks2[t].pref = db.tracks[t].pref
                            /\ tracks2[t].into = IF t = l THEN w ELSE db.tracks[t].into
  <2>1. tracks2 = [db.tracks EXCEPT ![l] = [db.tracks[l] EXCEPT !.into = w]]
    OBVIOUS
  <2>2. PICK x \in Tracks : x = [db.tracks[l] EXCEPT !.into = w] /\ x.into = w /\ x.pref = db.tracks[l].pref
    BY <1>5
  <2>3. tracks2 = [db.tracks EXCEPT ![l] = x]
    BY <2>1, <2>2
  <2> HIDE DEF tracks2
  <2>4. tracks2 \in Seq(Tracks) /\ Len(tracks2) = Len(db.tracks)
        /\ \A t \in Ids(db) : tracks2[t] = IF t = l THEN x ELSE db.tracks[t]
    BY <1>1, <1>2, <2>3, ExceptSeq
  <2> QED  BY <2>2, <2>4
<1>7. /\ Append(db.merges, r) \in Seq(MergeRecords) /\ Len(Append(db.merges, r)) = k
      /\ \A i \in 1 .. Len(db.merges) : Append(db.merges, r)[i] = db.merges[i]
      /\ Append(db.merges, r)[k] = r
  <2> HIDE DEF r
  <2> QED  BY <1>1, <1>3, AppendProperties
<1>8. /\ d.merges = Append(db.merges, r) /\ d.track = track2 /\ d.tracks = tracks2 /\ d.home = db.home
  BY <1>1 DEF Merged, Dbs
<1>9. d \in Dbs
  BY <1>1, <1>4, <1>6, <1>7 DEF Merged, Dbs
<1> HIDE DEF d, tracks2
<1>10. \A f \in Uploads : d.home[f] = db.home[f] /\ d.track[f] = IF db.track[f] = l THEN w ELSE db.track[f]
  BY <1>8 DEF Standing
<1>11. Ids(d) = Ids(db)
  BY <1>1, <1>6, <1>8 DEF Ids
<1> HIDE DEF track2
<1>12. InForce(d) = InForce(db) \cup {k} /\ InForce(db) \subseteq 1 .. Len(db.merges)
  <2>1. DOMAIN d.merges = 1 .. k /\ r.undone = FALSE
    BY <1>7, <1>8, LenProperties
  <2> HIDE DEF r
  <2>2. 1 .. k = (1 .. Len(db.merges)) \cup {k}
    BY <1>1
  <2> QED  BY <1>1, <1>7, <1>8, <2>1, <2>2 DEF InForce
<1>13. \A i \in InForce(db) : d.merges[i] = db.merges[i]
  <2> HIDE DEF r
  <2> QED  BY <1>7, <1>8, <1>12
<1>14. d.merges[k] = r /\ Len(d.merges) = k
  <2> HIDE DEF r
  <2> QED  BY <1>7, <1>8
<1>15. Len(d.tracks) = Len(db.tracks)
  BY <1>6, <1>8
<1>16. \A t \in Ids(db) : /\ d.tracks[t].pref = db.tracks[t].pref
                          /\ d.tracks[t].into = IF t = l THEN w ELSE db.tracks[t].into
  BY <1>6, <1>8
<1>17. d.merges[k].loser = l /\ d.merges[k].winner = w /\ d.merges[k].moved = Standing(db, l)
  BY <1>14
<1> HIDE DEF r
<1>18. IsMerged(d, db, l, w)
  BY <1>1, <1>9, <1>10, <1>11, <1>12, <1>13, <1>14, <1>15, <1>16, <1>17 DEF IsMerged
<1> QED  BY <1>18 DEF d

\* A merge keeps the tables sound.
LEMMA MergedKeeps ==
    ASSUME NEW db, NEW lost, NEW bad, NEW gone, Sound(db, lost, bad, gone),
           NEW l, NEW w, Ends(db, l, w)
    PROVE  Sound(Merged(db, l, w), lost, bad, gone)
<1> DEFINE d == Merged(db, l, w)
           k == Len(db.merges) + 1
           F == InForce(db)
<1>1. /\ d \in Dbs /\ Ids(d) = Ids(db)
      /\ \A t \in Ids(db) : /\ d.tracks[t].pref = db.tracks[t].pref
                            /\ d.tracks[t].into = IF t = l THEN w ELSE db.tracks[t].into
      /\ \A f \in Uploads : d.home[f] = db.home[f] /\ d.track[f] = IF db.track[f] = l THEN w ELSE db.track[f]
      /\ InForce(d) = F \cup {k} /\ F \subseteq 1 .. Len(db.merges) /\ Len(db.merges) \in Nat
      /\ \A i \in F : d.merges[i] = db.merges[i]
      /\ d.merges[k].loser = l /\ d.merges[k].winner = w
      /\ d.merges[k].moved = Standing(db, l)
      /\ \A f : f \in Standing(db, l) <=> f \in Uploads /\ db.track[f] = l
  <2>1. \A f : f \in Standing(db, l) <=> f \in Uploads /\ db.track[f] = l
    BY DEF Standing
  <2>2. Shaped(db)
    BY SoundFacts
  <2>3. IsMerged(d, db, l, w)
    BY <2>2, MergedIs
  <2> HIDE DEF d
  <2> QED  BY <2>1, <2>3 DEF IsMerged
<1>2. /\ Forest(db) /\ 0 \notin Ids(db)
      /\ \A i \in F :
            /\ db.merges[i].moved \subseteq Uploads
            /\ db.merges[i].loser \in Ids(db) /\ db.merges[i].winner \in Ids(db)
            /\ db.tracks[db.merges[i].loser].into = db.merges[i].winner
      /\ l \in Ids(db) /\ w \in Ids(db) /\ l # w /\ db.tracks[l].into = 0 /\ db.tracks[w].into = 0
      /\ l # 0 /\ w # 0
  BY SoundFacts DEF Ends
<1>3. /\ \A g \in Uploads : /\ db.track[g] \in {0} \cup Ids(db) /\ db.home[g] \in {0} \cup Ids(db)
                            /\ (db.track[g] = 0) = (db.home[g] = 0)
      /\ \A i \in F : \A g \in db.merges[i].moved : db.track[g] # 0
      /\ \A g \in Uploads \ lost : db.track[g] # 0 => Follows(db, g)
      /\ \A t \in Ids(db) \ bad : db.tracks[t].pref \notin {0} \cup lost => Prefers(db, t, gone)
  BY DEF Sound
<1>4. \A i \in F : i # k /\ i < k /\ i \in Nat
  BY <1>1
<1>5. \A i \in F : db.merges[i].loser # l /\ db.merges[i].loser # w
  BY <1>2
<1> HIDE DEF d, k
<1>6. Forest(d)
  <2>0. F \subseteq InForce(d) /\ k \in InForce(d)
    BY <1>1
  <2>1. ASSUME NEW i \in InForce(d)
        PROVE  /\ d.merges[i].loser \in Ids(d) /\ d.merges[i].winner \in Ids(d)
               /\ d.tracks[d.merges[i].loser].into = d.merges[i].winner
    <3>1. CASE i \in F
      BY SMTT(30), <1>1, <1>2, <1>5, <3>1
    <3>2. CASE i = k
      BY <1>1, <1>2, <3>2
    <3> QED  BY <1>1, <3>1, <3>2
  <2>2. ASSUME NEW t \in Ids(d), d.tracks[t].into # 0
        PROVE  \E i \in InForce(d) : d.merges[i].loser = t
    <3>1. CASE t = l
      BY <1>1, <2>0, <3>1
    <3>2. CASE t # l
      <4>1. db.tracks[t].into # 0 /\ t \in Ids(db)
        BY <1>1, <2>2, <3>2
      <4>2. PICK i \in F : db.merges[i].loser = t
        BY <1>2, <4>1 DEF Forest
      <4> QED  BY <1>1, <2>0, <4>2
    <3> QED  BY <3>1, <3>2
  <2>3. ASSUME NEW i \in InForce(d), NEW j \in InForce(d)
        PROVE  /\ d.merges[i].loser = d.merges[j].loser => i = j
               /\ d.merges[j].loser = d.merges[i].winner => i < j
    <3>1. CASE i \in F /\ j \in F
      <4>1. /\ db.merges[i].loser = db.merges[j].loser => i = j
            /\ db.merges[j].loser = db.merges[i].winner => i < j
        BY <1>2, <3>1 DEF Forest
      <4> QED  BY <1>1, <3>1, <4>1
    <3>2. CASE i \in F /\ j = k
      BY <1>1, <1>4, <1>5, <3>2
    <3>3. CASE i = k /\ j \in F
      BY <1>1, <1>5, <3>3
    <3>4. CASE i = k /\ j = k
      BY <1>1, <1>2, <3>4
    <3> QED  BY <1>1, <3>1, <3>2, <3>3, <3>4
  <2> QED  BY <2>1, <2>2, <2>3 DEF Forest
<1>7. \A g \in Uploads : /\ d.track[g] \in {0} \cup Ids(d) /\ d.home[g] \in {0} \cup Ids(d)
                         /\ (d.track[g] = 0) = (d.home[g] = 0)
  BY <1>1, <1>2, <1>3
<1>8. \A i \in InForce(d) : \A g \in d.merges[i].moved : d.track[g] # 0
  BY <1>1, <1>2, <1>3
<1>9. ASSUME NEW g \in Uploads \ lost, d.track[g] # 0  PROVE Follows(d, g)
  <2> DEFINE A == PathOf(db, g)
             B == PathOf(d, g)
  <2>1. db.track[g] # 0 /\ Follows(db, g) /\ d.home[g] = db.home[g]
    BY <1>1, <1>2, <1>3, <1>9
  <2>2. A \subseteq Ids(db)
    BY <2>1, PathIsOfTracks
  <2>3. \A u : u \in A <=> u = db.home[g] \/ \E i \in F : g \in db.merges[i].moved /\ db.merges[i].winner = u
    BY DEF PathOf
  <2>4. \A u : u \in B <=> u = d.home[g] \/ \E i \in InForce(d) : g \in d.merges[i].moved /\ d.merges[i].winner = u
    BY DEF PathOf
  <2>5. /\ \A i \in F : g \in db.merges[i].moved <=> db.merges[i].loser \in A
        /\ db.track[g] \in A
        /\ \A u \in A : db.tracks[u].into = 0 <=> u = db.track[g]
        /\ \A i \in F : g \in db.merges[i].moved =>
              /\ db.merges[i].winner # db.home[g]
              /\ \A j \in F :
                    g \in db.merges[j].moved /\ db.merges[j].winner = db.merges[i].winner => i = j
    BY <2>1 DEF Follows
  <2> HIDE DEF A, B
  <2>6. CASE db.track[g] = l
    <3>1. g \in d.merges[k].moved /\ d.track[g] = w
      BY <1>1, <2>6
    <3>2. w \notin A
      BY <1>2, <2>5, <2>6
    <3>3. \A u : u \in B <=> u \in A \/ u = w
      <4>1. \A u : u = w => u \in B
        BY <1>1, <2>4, <3>1
      <4>2. \A u : u \in A => u \in B
        BY <1>1, <2>1, <2>3, <2>4
      <4>3. \A u : u \in B => u \in A \/ u = w
        BY <1>1, <2>1, <2>3, <2>4
      <4> QED  BY <4>1, <4>2, <4>3
    <3>4. \A i \in InForce(d) : g \in d.merges[i].moved <=> d.merges[i].loser \in B
      BY <1>1, <1>5, <2>5, <2>6, <3>1, <3>3
    <3>5. \A u \in B : d.tracks[u].into = 0 <=> u = d.track[g]
      BY <1>1, <1>2, <2>2, <2>5, <2>6, <3>1, <3>2, <3>3
    <3>6. \A i \in F : g \in db.merges[i].moved => db.merges[i].winner # w
      BY <2>3, <3>2
    <3>7. w # db.home[g]
      BY <2>3, <3>2
    <3>8. \A i \in InForce(d) : g \in d.merges[i].moved =>
              /\ d.merges[i].winner # d.home[g]
              /\ \A j \in InForce(d) :
                    g \in d.merges[j].moved /\ d.merges[j].winner = d.merges[i].winner => i = j
      BY <1>1, <2>1, <2>5, <3>6, <3>7
    <3> QED  BY <3>1, <3>3, <3>4, <3>5, <3>8 DEF Follows, B
  <2>7. CASE db.track[g] # l
    <3>1. g \notin d.merges[k].moved /\ d.track[g] = db.track[g]
      BY <1>1, <2>7
    <3>2. l \notin A
      BY <1>2, <2>5, <2>7
    <3>3. \A u : u \in B <=> u \in A
      BY <1>1, <2>1, <2>3, <2>4, <3>1
    <3>4. \A i \in InForce(d) : g \in d.merges[i].moved <=> d.merges[i].loser \in B
      BY <1>1, <2>5, <3>1, <3>2, <3>3
    <3>5. \A u \in B : d.tracks[u].into = 0 <=> u = d.track[g]
      BY <1>1, <2>2, <2>5, <3>1, <3>2, <3>3
    <3>8. \A i \in InForce(d) : g \in d.merges[i].moved =>
              /\ d.merges[i].winner # d.home[g]
              /\ \A j \in InForce(d) :
                    g \in d.merges[j].moved /\ d.merges[j].winner = d.merges[i].winner => i = j
      BY <1>1, <2>1, <2>5, <3>1
    <3> QED  BY <2>5, <3>1, <3>3, <3>4, <3>5, <3>8 DEF Follows, B
  <2> QED  BY <2>6, <2>7
<1>10. ASSUME NEW t \in Ids(d) \ bad, d.tracks[t].pref \notin {0} \cup lost  PROVE Prefers(d, t, gone)
  <2> DEFINE p == db.tracks[t].pref
  <2>1. /\ t \in Ids(db) /\ p = d.tracks[t].pref /\ p \in Uploads \ gone
        /\ db.tracks[t].into = 0 => db.track[p] = t
        /\ \A i \in F : db.merges[i].loser = t => p \in db.merges[i].moved
    BY <1>1, <1>3, <1>10 DEF Prefers
  <2> HIDE DEF p
  <2>2. d.tracks[t].into = 0 => d.track[p] = t
    BY <1>1, <1>2, <2>1
  <2>3. ASSUME NEW i \in InForce(d), d.merges[i].loser = t  PROVE p \in d.merges[i].moved
    BY <1>1, <1>2, <2>1, <2>3
  <2> QED  BY <2>1, <2>2, <2>3 DEF Prefers
<1>11. Sound(d, lost, bad, gone)
  BY <1>1, <1>6, <1>7, <1>8, <1>9, <1>10 DEF Sound
<1> QED  BY <1>11 DEF d

\* After a merge, what ended at the loser ends at the winner.
LEMMA MergedEnds ==
    ASSUME NEW db, NEW lost, NEW bad, NEW gone, Sound(db, lost, bad, gone),
           NEW l, NEW w, Ends(db, l, w)
    PROVE  /\ \A t \in {0} \cup Ids(db) :
                 Canonical(Merged(db, l, w), t) =
                     IF Canonical(db, t) = l THEN w ELSE Canonical(db, t)
           /\ \A f \in Uploads :
                 TrackOf(Merged(db, l, w), f) =
                     IF TrackOf(db, f) = l THEN w ELSE TrackOf(db, f)
<1> DEFINE d == Merged(db, l, w)
           g == [t \in Ids(db) |-> IF Canonical(db, t) = l THEN w ELSE Canonical(db, t)]
<1>1. /\ Shaped(db) /\ 0 \notin Ids(db) /\ l \in Ids(db) /\ w \in Ids(db) /\ l # w
      /\ l # 0 /\ db.tracks[l].into = 0 /\ db.tracks[w].into = 0
  BY SoundFacts DEF Ends
<1>2. PICK m : Ranked(db, m)
  BY SoundFacts
<1>3. Shaped(d) /\ \E n : Ranked(d, n)
  <2>1. Sound(d, lost, bad, gone)
    BY MergedKeeps
  <2> HIDE DEF d
  <2> QED  BY <2>1, SoundFacts
<1>4. PICK n : Ranked(d, n)
  BY <1>3
<1>5. /\ Ids(d) = Ids(db)
      /\ \A t \in Ids(db) : d.tracks[t].into = IF t = l THEN w ELSE db.tracks[t].into
      /\ \A f \in Uploads : d.track[f] = IF db.track[f] = l THEN w ELSE db.track[f]
  <2>1. IsMerged(d, db, l, w)
    BY <1>1, MergedIs
  <2> HIDE DEF d
  <2> QED  BY <2>1 DEF IsMerged
<1>6. /\ \A t \in Ids(db) : db.tracks[t].into = 0 => Canonical(db, t) = t
      /\ \A t \in Ids(db) : db.tracks[t].into # 0 =>
            Canonical(db, t) = Canonical(db, db.tracks[t].into) /\ db.tracks[t].into \in Ids(db)
  <2>1. ASSUME NEW t \in Ids(db), db.tracks[t].into = 0  PROVE Canonical(db, t) = t
    BY <1>1, <2>1, CanonicalOfEnds
  <2>2. ASSUME NEW t \in Ids(db), db.tracks[t].into # 0
        PROVE  Canonical(db, t) = Canonical(db, db.tracks[t].into) /\ db.tracks[t].into \in Ids(db)
    BY <1>1, <1>2, <2>2, CanonicalOfNext DEF Shaped
  <2> QED  BY <2>1, <2>2
<1> HIDE DEF d
<1>7. \A t \in Ids(d) : IF d.tracks[t].into = 0 THEN g[t] = t ELSE g[t] = g[d.tracks[t].into]
  <2> SUFFICES ASSUME NEW t \in Ids(db)
               PROVE  IF d.tracks[t].into = 0 THEN g[t] = t ELSE g[t] = g[d.tracks[t].into]
    BY <1>5
  <2>1. CASE t = l
    BY <1>1, <1>5, <1>6, <2>1
  <2>2. CASE t # l /\ db.tracks[t].into = 0
    BY <1>5, <1>6, <2>2
  <2>3. CASE t # l /\ db.tracks[t].into # 0
    BY <1>5, <1>6, <2>3
  <2> QED  BY <2>1, <2>2, <2>3
<1>8. \A t \in Ids(db) : g[t] = IF Canonical(db, t) = l THEN w ELSE Canonical(db, t)
  OBVIOUS
<1> HIDE DEF g
<1>9. \A t \in Ids(db) : Canonical(d, t) = g[t]
  <2>1. \A t \in Ids(d) : Canonical(d, t) = g[t]
    BY <1>3, <1>4, <1>7, CanonicalIs
  <2> QED  BY <1>5, <2>1
<1>10. Canonical(d, 0) = 0 /\ Canonical(db, 0) = 0
  BY <1>1, <1>3, CanonicalOfEnds
<1>11. \A t \in {0} \cup Ids(db) : Canonical(d, t) = IF Canonical(db, t) = l THEN w ELSE Canonical(db, t)
  BY <1>1, <1>8, <1>9, <1>10
<1>12. ASSUME NEW f \in Uploads
       PROVE  TrackOf(d, f) = IF TrackOf(db, f) = l THEN w ELSE TrackOf(db, f)
  <2>1. db.track[f] \in {0} \cup Ids(db)
    BY DEF Sound
  <2>2. Canonical(db, l) = l /\ Canonical(db, w) = w
    BY <1>1, <1>6
  <2>3. CASE db.track[f] = l
    BY <1>1, <1>5, <1>11, <2>2, <2>3 DEF TrackOf
  <2>4. CASE db.track[f] # l
    BY <1>5, <1>11, <2>1, <2>4 DEF TrackOf
  <2> QED  BY <2>3, <2>4
<1> QED  BY <1>11, <1>12 DEF d

-----------------------------------------------------------------------------
(* The files in order, and the survivor.                                   *)

\* The files of a set in order: each of them, once.
LEMMA InOrderIs ==
    ASSUME NEW files \in SUBSET Uploads
    PROVE  /\ InOrder(files) \in Seq(Uploads)
           /\ DOMAIN InOrder(files) = 1 .. Cardinality(files) /\ IsFiniteSet(1 .. Cardinality(files))
           /\ \A i \in DOMAIN InOrder(files) : InOrder(files)[i] \in files
           /\ \A i, j \in DOMAIN InOrder(files) : InOrder(files)[i] = InOrder(files)[j] => i = j
           /\ \A f \in files : \E i \in DOMAIN InOrder(files) : InOrder(files)[i] = f
           /\ InOrder(files) = <<>> => files = {}
<1> DEFINE c == Cardinality(files)
           s == InOrder(files)
<1>1. IsFiniteSet(files) /\ c \in Nat
  BY DedupAssumption, FS_Subset, FS_CardinalityType
<1>2. PICK m \in Nat : Uploads \subseteq 0 .. m
  BY DedupAssumption, FiniteIsBounded
<1>3. files \in SUBSET (1 .. m)
  BY <1>2, DedupAssumption
<1>4. s = [n \in 1 .. c |-> Nth(files, n)]
  BY DEF InOrder
<1>5. \A n \in 1 .. c : Nth(files, n) \in files
  BY <1>3, NthMember
<1>6. \A f \in files : Place(files, f) \in 1 .. c /\ Nth(files, Place(files, f)) = f
  BY <1>3, NthOfPlace
<1>7. \A i, j \in 1 .. c : i < j => Nth(files, i) < Nth(files, j)
  BY <1>3, NthOrdered
<1> HIDE DEF c, s
<1>8. s \in Seq(Uploads) /\ Len(s) = c /\ DOMAIN s = 1 .. c
  <2>1. s \in [1 .. c -> Uploads]
    BY <1>4, <1>5
  <2> QED  BY <1>1, <2>1
<1>9. \A i \in DOMAIN s : s[i] \in files
  BY <1>4, <1>5, <1>8
<1>10. \A i, j \in DOMAIN s : s[i] = s[j] => i = j
  <2> SUFFICES ASSUME NEW i \in 1 .. c, NEW j \in 1 .. c, i # j  PROVE s[i] # s[j]
    BY <1>8
  <2>1. i < j \/ j < i
    BY <1>1
  <2>2. Nth(files, i) \in Nat /\ Nth(files, j) \in Nat
    BY <1>5, DedupAssumption
  <2> QED  BY <1>4, <1>7, <2>1, <2>2
<1>11. \A f \in files : \E i \in DOMAIN s : s[i] = f
  BY <1>4, <1>6, <1>8
<1>12. s = <<>> => files = {}
  <2>1. s = <<>> => DOMAIN s = {}
    OBVIOUS
  <2> QED  BY <1>11, <2>1
<1>13. IsFiniteSet(1 .. c)
  BY <1>1, FS_Interval
<1> QED  BY <1>8, <1>9, <1>10, <1>11, <1>12, <1>13 DEF s, c

\* The survivor of some tracks is one of them.
LEMMA SurvivorIsOne ==
    ASSUME NEW db, NEW ts \in SUBSET Nat, ts # {}, Uploads # {}
    PROVE  Survivor(db, ts) \in ts
<1> DEFINE age(t) == Min({f \in Uploads : db.track[f] = t} \cup {1 + Max(Uploads)})
           Wins(t) == \A u \in ts : age(t) < age(u) \/ (age(t) = age(u) /\ t <= u)
<1>1. 1 + Max(Uploads) \in Nat
  <2>1. PICK m \in Nat : Uploads \subseteq 0 .. m
    BY DedupAssumption, FiniteIsBounded
  <2> DEFINE B == {n \in Nat : Uploads \subseteq 0 .. n}
  <2>2. B \in SUBSET Nat /\ B # {}
    BY <2>1
  <2>3. PICK n \in B : \A k \in B : n <= k
    <3> HIDE DEF B
    <3> QED  BY <2>2, LeastNatural
  <2>4. \A x \in Uploads : x \in Nat \ {0} /\ x <= n
    BY <2>3, DedupAssumption
  <2>5. n \in Uploads
    <3>1. ASSUME n \notin Uploads  PROVE FALSE
      <4>1. PICK x : x \in Uploads
        OBVIOUS
      <4>2. n - 1 \in Nat /\ Uploads \subseteq 0 .. (n - 1)
        BY <2>3, <2>4, <3>1, <4>1
      <4> QED  BY <2>3, <4>2
    <3> QED  BY <3>1
  <2>6. \A y \in Uploads : n >= y
    BY <2>3, <2>4
  <2>7. \E x \in Uploads : \A y \in Uploads : x >= y
    BY <2>5, <2>6
  <2>8. Max(Uploads) \in Uploads
    BY <2>7 DEF Max
  <2> QED  BY <2>4, <2>8
<1>2. \A t : age(t) \in Nat
  <2> SUFFICES ASSUME NEW t  PROVE age(t) \in Nat
    OBVIOUS
  <2> DEFINE T == {f \in Uploads : db.track[f] = t} \cup {1 + Max(Uploads)}
  <2>1. T \in SUBSET Nat /\ T # {}
    BY <1>1, DedupAssumption
  <2> HIDE DEF T
  <2>2. \E x \in T : \A y \in T : x <= y
    BY <2>1, LeastNatural
  <2>3. Min(T) \in T
    BY <2>2 DEF Min
  <2>4. Min(T) \in Nat
    BY <2>1, <2>3
  <2> QED  BY <2>4 DEF T
<1>3. Survivor(db, ts) = CHOOSE t \in ts : Wins(t)
  BY DEF Survivor
<1> HIDE DEF age
<1>4. PICK t \in ts : Wins(t)
  <2> DEFINE A == {age(t) : t \in ts}
  <2>1. A \in SUBSET Nat /\ A # {}
    BY <1>2
  <2>2. PICK a \in A : \A b \in A : a <= b
    <3> HIDE DEF A
    <3> QED  BY <2>1, LeastNatural
  <2> DEFINE O == {t \in ts : age(t) = a}
  <2>3. O \in SUBSET Nat /\ O # {}
    BY <2>2
  <2>4. PICK t \in O : \A u \in O : t <= u
    <3> HIDE DEF O
    <3> QED  BY <2>3, LeastNatural
  <2>5. ASSUME NEW u \in ts  PROVE age(t) < age(u) \/ (age(t) = age(u) /\ t <= u)
    <3>1. age(t) = a /\ a <= age(u) /\ age(u) \in Nat /\ a \in Nat
      BY <1>2, <2>1, <2>2, <2>4
    <3>2. age(u) = a => t <= u
      BY <2>4
    <3> HIDE DEF O, A
    <3> QED  BY <3>1, <3>2
  <2> QED  BY <2>4, <2>5
<1> HIDE DEF Wins
<1> QED  BY <1>3, <1>4

-----------------------------------------------------------------------------
(* Tracks given.                                                           *)

\* dedup_assign_track mints only for a stored file that has none.
LEMMA AssignKeeps ==
    ASSUME NEW db, NEW lost, NEW bad, NEW gone, Sound(db, lost, bad, gone),
           NEW f \in Uploads, fileState[f] = "stored" => f \notin gone
    PROVE  Sound(Assign(db, f), lost, bad, gone)
<1>1. CASE db.track[f] # 0 \/ fileState[f] # "stored"
  BY <1>1 DEF Assign
<1>2. CASE db.track[f] = 0 /\ fileState[f] = "stored"
  <2>1. Sound(Mint(db, f), lost, bad, gone)
    BY <1>2, MintKeeps
  <2> QED  BY <1>2, <2>1 DEF Assign
<1> QED  BY <1>1, <1>2

-----------------------------------------------------------------------------
(* Lists of files, one after another.                                      *)

\* The function behind MintAll.
MintSteps(db, s) ==
    CHOOSE g : g = [T \in SUBSET DOMAIN s |->
                       IF T = {} THEN db
                       ELSE Mint(g[T \ {CHOOSE x \in T : TRUE}], s[CHOOSE x \in T : TRUE])]

\* MintAll goes through the list file by file.
LEMMA MintAllTakes ==
    ASSUME NEW db \in Dbs, NEW s, IsFiniteSet(DOMAIN s), NEW G, <<{}, db>> \in G,
           \A T \in SUBSET DOMAIN s, d \in Dbs : T # {} /\ <<Rest(T), d>> \in G =>
               Mint(d, s[First(T)]) \in Dbs /\ <<T, Mint(d, s[First(T)])>> \in G
    PROVE  MintAll(db, s) \in Dbs /\ <<DOMAIN s, MintAll(db, s)>> \in G
<1> DEFINE D == DOMAIN s
           Rule(g) == g = [T \in SUBSET DOMAIN s |->
                       IF T = {} THEN db
                       ELSE Mint(g[T \ {CHOOSE x \in T : TRUE}], s[CHOOSE x \in T : TRUE])]
           step == [p \in D \X Dbs |-> Mint(p[2], s[p[1]])]
           h == MintSteps(db, s)
<1>1. \A T \in SUBSET D, d \in Dbs : T # {} => step[<<First(T), d>>] = Mint(d, s[First(T)])
  <2> SUFFICES ASSUME NEW T \in SUBSET D, NEW d \in Dbs, T # {}
               PROVE  step[<<First(T), d>>] = Mint(d, s[First(T)])
    OBVIOUS
  <2>1. <<First(T), d>> \in D \X Dbs
    BY FirstAndRest
  <2> QED  BY <2>1
<1>2. \A T \in SUBSET D, d \in Dbs : T # {} /\ <<Rest(T), d>> \in G =>
          step[<<First(T), d>>] \in Dbs /\ <<T, step[<<First(T), d>>]>> \in G
  <2> HIDE DEF step
  <2> QED  BY <1>1
<1>3. HoldsAlong(D, Dbs, db, step, G)
  <2> HIDE DEF step
  <2>1. Preserves(D, Dbs, db, step, G)
    BY <1>2 DEF Preserves
  <2> HIDE DEF D
  <2>2. IsFiniteSet(D)
    BY DEF D
  <2> QED  BY <2>1, <2>2, StepsWithin
<1>4. PICK g \in [SUBSET D -> Dbs] : OneByOne(g, D, db, step)
  BY <1>3 DEF HoldsAlong
<1>5. Rule(g)
  <2>1. \A T \in SUBSET D : g[T] = IF T = {} THEN db ELSE Mint(g[Rest(T)], s[First(T)])
    <3> SUFFICES ASSUME NEW T \in SUBSET D
                 PROVE  g[T] = IF T = {} THEN db ELSE Mint(g[Rest(T)], s[First(T)])
      OBVIOUS
    <3>1. T # {} => g[Rest(T)] \in Dbs
      BY FirstAndRest
    <3> HIDE DEF step
    <3> QED  BY <1>1, <1>4, <3>1 DEF OneByOne
  <2> QED  BY <2>1 DEF Rest, First
<1>6. Rule(h)
  <2>1. h = CHOOSE k : Rule(k)
    BY DEF MintSteps
  <2> HIDE DEF Rule
  <2> QED  BY <1>5, <2>1
<1>7. MintAll(db, s) = h[D]
  BY DEF MintAll, MintSteps, FoldSeq, FoldFunction, FoldFunctionOnSet, MapThenFoldSet
<1> HIDE DEF h
<1>8. \A T \in SUBSET D : h[T] = IF T = {} THEN db ELSE Mint(h[Rest(T)], s[First(T)])
  BY <1>6 DEF Rest, First
<1>9. OneByOneIn(h, D, Dbs, db, step)
  <2> SUFFICES ASSUME NEW T \in SUBSET D, T # {}, h[Rest(T)] \in Dbs
               PROVE  h[T] = step[<<First(T), h[Rest(T)]>>]
    BY <1>8 DEF OneByOneIn
  <2> HIDE DEF step
  <2> QED  BY <1>1, <1>8
<1>10. \A T \in SUBSET D : h[T] \in Dbs /\ <<T, h[T]>> \in G
  <2> HIDE DEF step, D
  <2> QED  BY <1>3, <1>9 DEF HoldsAlong
<1> QED  BY <1>7, <1>10

\* The function behind AssignAll.
AssignSteps(db, s) ==
    CHOOSE g : g = [T \in SUBSET DOMAIN s |->
                       IF T = {} THEN db
                       ELSE Assign(g[T \ {CHOOSE x \in T : TRUE}], s[CHOOSE x \in T : TRUE])]

\* AssignAll goes through the list file by file.
LEMMA AssignAllTakes ==
    ASSUME NEW db \in Dbs, NEW s, IsFiniteSet(DOMAIN s), NEW G, <<{}, db>> \in G,
           \A T \in SUBSET DOMAIN s, d \in Dbs : T # {} /\ <<Rest(T), d>> \in G =>
               Assign(d, s[First(T)]) \in Dbs /\ <<T, Assign(d, s[First(T)])>> \in G
    PROVE  AssignAll(db, s) \in Dbs /\ <<DOMAIN s, AssignAll(db, s)>> \in G
<1> DEFINE D == DOMAIN s
           Rule(g) == g = [T \in SUBSET DOMAIN s |->
                       IF T = {} THEN db
                       ELSE Assign(g[T \ {CHOOSE x \in T : TRUE}], s[CHOOSE x \in T : TRUE])]
           step == [p \in D \X Dbs |-> Assign(p[2], s[p[1]])]
           h == AssignSteps(db, s)
<1>1. \A T \in SUBSET D, d \in Dbs : T # {} => step[<<First(T), d>>] = Assign(d, s[First(T)])
  <2> SUFFICES ASSUME NEW T \in SUBSET D, NEW d \in Dbs, T # {}
               PROVE  step[<<First(T), d>>] = Assign(d, s[First(T)])
    OBVIOUS
  <2>1. <<First(T), d>> \in D \X Dbs
    BY FirstAndRest
  <2> QED  BY <2>1
<1>2. \A T \in SUBSET D, d \in Dbs : T # {} /\ <<Rest(T), d>> \in G =>
          step[<<First(T), d>>] \in Dbs /\ <<T, step[<<First(T), d>>]>> \in G
  <2> HIDE DEF step
  <2> QED  BY <1>1
<1>3. HoldsAlong(D, Dbs, db, step, G)
  <2> HIDE DEF step
  <2>1. Preserves(D, Dbs, db, step, G)
    BY <1>2 DEF Preserves
  <2> HIDE DEF D
  <2>2. IsFiniteSet(D)
    BY DEF D
  <2> QED  BY <2>1, <2>2, StepsWithin
<1>4. PICK g \in [SUBSET D -> Dbs] : OneByOne(g, D, db, step)
  BY <1>3 DEF HoldsAlong
<1>5. Rule(g)
  <2>1. \A T \in SUBSET D : g[T] = IF T = {} THEN db ELSE Assign(g[Rest(T)], s[First(T)])
    <3> SUFFICES ASSUME NEW T \in SUBSET D
                 PROVE  g[T] = IF T = {} THEN db ELSE Assign(g[Rest(T)], s[First(T)])
      OBVIOUS
    <3>1. T # {} => g[Rest(T)] \in Dbs
      BY FirstAndRest
    <3> HIDE DEF step
    <3> QED  BY <1>1, <1>4, <3>1 DEF OneByOne
  <2> QED  BY <2>1 DEF Rest, First
<1>6. Rule(h)
  <2>1. h = CHOOSE k : Rule(k)
    BY DEF AssignSteps
  <2> HIDE DEF Rule
  <2> QED  BY <1>5, <2>1
<1>7. AssignAll(db, s) = h[D]
  BY DEF AssignAll, AssignSteps, FoldSeq, FoldFunction, FoldFunctionOnSet, MapThenFoldSet
<1> HIDE DEF h
<1>8. \A T \in SUBSET D : h[T] = IF T = {} THEN db ELSE Assign(h[Rest(T)], s[First(T)])
  BY <1>6 DEF Rest, First
<1>9. OneByOneIn(h, D, Dbs, db, step)
  <2> SUFFICES ASSUME NEW T \in SUBSET D, T # {}, h[Rest(T)] \in Dbs
               PROVE  h[T] = step[<<First(T), h[Rest(T)]>>]
    BY <1>8 DEF OneByOneIn
  <2> HIDE DEF step
  <2> QED  BY <1>1, <1>8
<1>10. \A T \in SUBSET D : h[T] \in Dbs /\ <<T, h[T]>> \in G
  <2> HIDE DEF step, D
  <2> QED  BY <1>3, <1>9 DEF HoldsAlong
<1> QED  BY <1>7, <1>10

\* The function behind MergeAll.
MergeSteps(db, s, winner) ==
    CHOOSE g : g = [T \in SUBSET DOMAIN s |->
                       IF T = {} THEN db
                       ELSE MergeFile(g[T \ {CHOOSE x \in T : TRUE}], s[CHOOSE x \in T : TRUE], winner)]

\* MergeAll goes through the list file by file.
LEMMA MergeAllTakes ==
    ASSUME NEW db \in Dbs, NEW s, IsFiniteSet(DOMAIN s), NEW winner, NEW G, <<{}, db>> \in G,
           \A T \in SUBSET DOMAIN s, d \in Dbs : T # {} /\ <<Rest(T), d>> \in G =>
               MergeFile(d, s[First(T)], winner) \in Dbs /\ <<T, MergeFile(d, s[First(T)], winner)>> \in G
    PROVE  MergeAll(db, s, winner) \in Dbs /\ <<DOMAIN s, MergeAll(db, s, winner)>> \in G
<1> DEFINE D == DOMAIN s
           Rule(g) == g = [T \in SUBSET DOMAIN s |->
                       IF T = {} THEN db
                       ELSE MergeFile(g[T \ {CHOOSE x \in T : TRUE}], s[CHOOSE x \in T : TRUE], winner)]
           step == [p \in D \X Dbs |-> MergeFile(p[2], s[p[1]], winner)]
           h == MergeSteps(db, s, winner)
<1>1. \A T \in SUBSET D, d \in Dbs : T # {} => step[<<First(T), d>>] = MergeFile(d, s[First(T)], winner)
  <2> SUFFICES ASSUME NEW T \in SUBSET D, NEW d \in Dbs, T # {}
               PROVE  step[<<First(T), d>>] = MergeFile(d, s[First(T)], winner)
    OBVIOUS
  <2>1. <<First(T), d>> \in D \X Dbs
    BY FirstAndRest
  <2> QED  BY <2>1
<1>2. \A T \in SUBSET D, d \in Dbs : T # {} /\ <<Rest(T), d>> \in G =>
          step[<<First(T), d>>] \in Dbs /\ <<T, step[<<First(T), d>>]>> \in G
  <2> HIDE DEF step
  <2> QED  BY <1>1
<1>3. HoldsAlong(D, Dbs, db, step, G)
  <2> HIDE DEF step
  <2>1. Preserves(D, Dbs, db, step, G)
    BY <1>2 DEF Preserves
  <2> HIDE DEF D
  <2>2. IsFiniteSet(D)
    BY DEF D
  <2> QED  BY <2>1, <2>2, StepsWithin
<1>4. PICK g \in [SUBSET D -> Dbs] : OneByOne(g, D, db, step)
  BY <1>3 DEF HoldsAlong
<1>5. Rule(g)
  <2>1. \A T \in SUBSET D : g[T] = IF T = {} THEN db ELSE MergeFile(g[Rest(T)], s[First(T)], winner)
    <3> SUFFICES ASSUME NEW T \in SUBSET D
                 PROVE  g[T] = IF T = {} THEN db ELSE MergeFile(g[Rest(T)], s[First(T)], winner)
      OBVIOUS
    <3>1. T # {} => g[Rest(T)] \in Dbs
      BY FirstAndRest
    <3> HIDE DEF step
    <3> QED  BY <1>1, <1>4, <3>1 DEF OneByOne
  <2> QED  BY <2>1 DEF Rest, First
<1>6. Rule(h)
  <2>1. h = CHOOSE k : Rule(k)
    BY DEF MergeSteps
  <2> HIDE DEF Rule
  <2> QED  BY <1>5, <2>1
<1>7. MergeAll(db, s, winner) = h[D]
  BY DEF MergeAll, MergeSteps, FoldSeq, FoldFunction, FoldFunctionOnSet, MapThenFoldSet
<1> HIDE DEF h
<1>8. \A T \in SUBSET D : h[T] = IF T = {} THEN db ELSE MergeFile(h[Rest(T)], s[First(T)], winner)
  BY <1>6 DEF Rest, First
<1>9. OneByOneIn(h, D, Dbs, db, step)
  <2> SUFFICES ASSUME NEW T \in SUBSET D, T # {}, h[Rest(T)] \in Dbs
               PROVE  h[T] = step[<<First(T), h[Rest(T)]>>]
    BY <1>8 DEF OneByOneIn
  <2> HIDE DEF step
  <2> QED  BY <1>1, <1>8
<1>10. \A T \in SUBSET D : h[T] \in Dbs /\ <<T, h[T]>> \in G
  <2> HIDE DEF step, D
  <2> QED  BY <1>3, <1>9 DEF HoldsAlong
<1> QED  BY <1>7, <1>10

\* A list's places and items.
LEMMA ListFacts ==
    ASSUME NEW s \in Seq(Uploads)
    PROVE  IsFiniteSet(DOMAIN s) /\ \A i \in DOMAIN s : s[i] \in Uploads
<1>1. DOMAIN s = 1 .. Len(s) /\ Len(s) \in Nat
  BY LenProperties
<1>2. IsFiniteSet(1 .. Len(s))
  BY <1>1, FS_Interval
<1>3. \A i \in 1 .. Len(s) : s[i] \in Uploads
  BY ElementOfSeq
<1> QED  BY <1>1, <1>2, <1>3

\* Tracks minted for a list of files, each once, keep the tables sound.
LEMMA MintAllKeeps ==
    ASSUME NEW db, NEW lost, NEW bad, NEW gone, Sound(db, lost, bad, gone),
           NEW s \in Seq(Uploads),
           \A i, j \in DOMAIN s : s[i] = s[j] => i = j,
           \A i \in DOMAIN s : s[i] \notin lost => db.track[s[i]] = 0 /\ s[i] \notin gone
    PROVE  MintAll(db, s) \in Dbs /\ Sound(MintAll(db, s), lost, bad, gone)
<1> DEFINE G == {p \in (SUBSET DOMAIN s) \X Dbs :
                    /\ Sound(p[2], lost, bad, gone)
                    /\ \A i \in DOMAIN s \ p[1] : p[2].track[s[i]] = db.track[s[i]]}
<1>1. db \in Dbs /\ IsFiniteSet(DOMAIN s) /\ \A i \in DOMAIN s : s[i] \in Uploads
  BY ListFacts, SoundFacts
<1>2. <<{}, db>> \in G
  <2>1. <<{}, db>> \in (SUBSET DOMAIN s) \X Dbs
    BY <1>1
  <2> QED  BY <2>1
<1>3. ASSUME NEW T \in SUBSET DOMAIN s, NEW d \in Dbs, T # {}, <<Rest(T), d>> \in G
      PROVE  Mint(d, s[First(T)]) \in Dbs /\ <<T, Mint(d, s[First(T)])>> \in G
  <2> DEFINE f == s[First(T)]
             e == Mint(d, f)
  <2>1. First(T) \in T /\ First(T) \in DOMAIN s /\ First(T) \notin Rest(T) /\ T = Rest(T) \cup {First(T)}
    BY <1>3, FirstAndRest
  <2>2. /\ Sound(d, lost, bad, gone)
        /\ \A i \in DOMAIN s \ Rest(T) : d.track[s[i]] = db.track[s[i]]
    BY <1>3
  <2>3. f \in Uploads /\ (f \notin lost => d.track[f] = 0 /\ f \notin gone)
    BY <1>1, <2>1, <2>2
  <2>4. e \in Dbs /\ \A g \in Uploads : g # f => e.track[g] = d.track[g]
    BY <2>3, MintIs
  <2>5. Sound(e, lost, bad, gone)
    BY <2>2, <2>3, MintKeeps
  <2>6. \A i \in DOMAIN s \ T : s[i] # f /\ s[i] \in Uploads /\ i \notin Rest(T)
    BY <1>1, <2>1
  <2> HIDE DEF e
  <2>7. \A i \in DOMAIN s \ T : e.track[s[i]] = db.track[s[i]]
    BY <2>2, <2>4, <2>6
  <2>8. <<T, e>> \in (SUBSET DOMAIN s) \X Dbs
    BY <2>4
  <2>9. <<T, e>> \in G
    BY <2>5, <2>7, <2>8
  <2> QED  BY <2>4, <2>9 DEF e
<1> HIDE DEF G
<1>4. MintAll(db, s) \in Dbs /\ <<DOMAIN s, MintAll(db, s)>> \in G
  BY <1>1, <1>2, <1>3, MintAllTakes
<1> QED  BY <1>4 DEF G

\* So do tracks assigned to a list of files.
LEMMA AssignAllKeeps ==
    ASSUME NEW db, NEW lost, NEW bad, NEW gone, Sound(db, lost, bad, gone),
           NEW s \in Seq(Uploads),
           \A f \in Uploads : fileState[f] = "stored" => f \notin gone
    PROVE  AssignAll(db, s) \in Dbs /\ Sound(AssignAll(db, s), lost, bad, gone)
           /\ \A f \in Uploads : db.track[f] # 0 => AssignAll(db, s).track[f] # 0
<1> DEFINE G == {p \in (SUBSET DOMAIN s) \X Dbs :
                    /\ Sound(p[2], lost, bad, gone)
                    /\ \A f \in Uploads : db.track[f] # 0 => p[2].track[f] # 0}
<1>1. db \in Dbs /\ IsFiniteSet(DOMAIN s) /\ \A i \in DOMAIN s : s[i] \in Uploads
  BY ListFacts, SoundFacts
<1>2. <<{}, db>> \in G
  <2>1. <<{}, db>> \in (SUBSET DOMAIN s) \X Dbs
    BY <1>1
  <2> QED  BY <2>1
<1>3. ASSUME NEW T \in SUBSET DOMAIN s, NEW d \in Dbs, T # {}, <<Rest(T), d>> \in G
      PROVE  Assign(d, s[First(T)]) \in Dbs /\ <<T, Assign(d, s[First(T)])>> \in G
  <2> DEFINE f == s[First(T)]
             e == Assign(d, f)
  <2>1. f \in Uploads
    BY <1>1, <1>3, FirstAndRest
  <2>2. Sound(d, lost, bad, gone) /\ \A g \in Uploads : db.track[g] # 0 => d.track[g] # 0
    BY <1>3
  <2>3. Sound(e, lost, bad, gone)
    BY <2>1, <2>2, AssignKeeps
  <2>4. \A g \in Uploads : d.track[g] # 0 => e.track[g] # 0
    <3>1. CASE d.track[f] # 0 \/ fileState[f] # "stored"
      BY <3>1 DEF Assign
    <3>2. CASE d.track[f] = 0 /\ fileState[f] = "stored"
      <4>1. e = Mint(d, f)
        BY <3>2 DEF Assign
      <4> HIDE DEF f, e
      <4>2. /\ Len(d.tracks) \in Nat
            /\ \A g \in Uploads : Mint(d, f).track[g] = IF g = f THEN Len(d.tracks) + 1 ELSE d.track[g]
        BY <2>1, MintIs
      <4>3. Len(d.tracks) + 1 # 0
        BY <4>2
      <4> QED  BY <4>1, <4>2, <4>3
    <3> QED  BY <3>1, <3>2
  <2> HIDE DEF e
  <2>5. e \in Dbs
    BY <2>3, SoundFacts
  <2>6. <<T, e>> \in (SUBSET DOMAIN s) \X Dbs
    BY <2>5
  <2>7. <<T, e>> \in G
    BY <2>2, <2>3, <2>4, <2>6
  <2> QED  BY <2>5, <2>7 DEF e
<1> HIDE DEF G
<1>4. AssignAll(db, s) \in Dbs /\ <<DOMAIN s, AssignAll(db, s)>> \in G
  BY <1>1, <1>2, <1>3, AssignAllTakes
<1> QED  BY <1>4 DEF G

-----------------------------------------------------------------------------
(* Tracks joined.                                                          *)

\* Where the track of a file leads.
LEMMA TrackOfFacts ==
    ASSUME NEW db, NEW lost, NEW bad, NEW gone, Sound(db, lost, bad, gone)
    PROVE  /\ \A t \in Ids(db) : /\ Canonical(db, t) \in Ids(db)
                                 /\ db.tracks[Canonical(db, t)].into = 0
           /\ \A t \in {0} \cup Ids(db) : t = 0 \/ db.tracks[t].into = 0 => Canonical(db, t) = t
           /\ \A f \in Uploads : /\ TrackOf(db, f) \in {0} \cup Ids(db)
                                 /\ (TrackOf(db, f) = 0) <=> (db.track[f] = 0)
                                 /\ TrackOf(db, f) # 0 => db.tracks[TrackOf(db, f)].into = 0
                                 /\ Canonical(db, TrackOf(db, f)) = TrackOf(db, f)
<1>1. Shaped(db) /\ 0 \notin Ids(db)
  BY SoundFacts
<1>2. PICK m : Ranked(db, m)
  BY SoundFacts
<1>3. \A t \in Ids(db) : Canonical(db, t) \in Ids(db) /\ db.tracks[Canonical(db, t)].into = 0
  BY <1>1, <1>2, CanonicalEnds
<1>4. \A t \in {0} \cup Ids(db) : t = 0 \/ db.tracks[t].into = 0 => Canonical(db, t) = t
  BY <1>1, CanonicalOfEnds
<1>5. \A f \in Uploads : db.track[f] \in {0} \cup Ids(db)
  BY DEF Sound
<1>6. Canonical(db, 0) = 0
  BY <1>4
<1> QED  BY <1>1, <1>3, <1>4, <1>5, <1>6 DEF TrackOf

\* After the merges for a list, what is joined to the winner's end.
Joins(e, db, winner, lost, bad, gone) ==
    /\ e \in Dbs /\ Sound(e, lost, bad, gone) /\ Ids(e) = Ids(db)
    /\ Canonical(e, winner) = Canonical(db, winner)
    /\ \A f \in Uploads : TrackOf(db, f) \in {0, Canonical(db, winner)} =>
                              TrackOf(e, f) = TrackOf(db, f)

\* Nothing merged joins nothing.
LEMMA JoinsNone ==
    ASSUME NEW db, NEW lost, NEW bad, NEW gone, Sound(db, lost, bad, gone), NEW winner
    PROVE  Joins(db, db, winner, lost, bad, gone)
BY SoundFacts DEF Joins

\* One list after another.
LEMMA JoinsMore ==
    ASSUME NEW db, NEW lost, NEW bad, NEW gone, NEW winner, NEW d, NEW e,
           Joins(d, db, winner, lost, bad, gone), Joins(e, d, winner, lost, bad, gone)
    PROVE  Joins(e, db, winner, lost, bad, gone)
BY DEF Joins

\* A file's track is joined to the winner's.
LEMMA MergeFileJoins ==
    ASSUME NEW db, NEW lost, NEW bad, NEW gone, Sound(db, lost, bad, gone),
           NEW f \in Uploads, NEW winner \in Ids(db)
    PROVE  /\ Joins(MergeFile(db, f, winner), db, winner, lost, bad, gone)
           /\ TrackOf(MergeFile(db, f, winner), f) \in {0, Canonical(db, winner)}
<1> DEFINE t == TrackOf(db, f)
           W == Canonical(db, winner)
           e == MergeFile(db, f, winner)
<1>1. CASE t = 0 \/ t = W
  <2>1. e = db
    BY <1>1 DEF MergeFile
  <2> QED  BY <1>1, <2>1, JoinsNone
<1>2. CASE t # 0 /\ t # W
  <2>1. /\ t \in Ids(db) /\ db.tracks[t].into = 0 /\ Canonical(db, t) = t
        /\ W \in Ids(db) /\ db.tracks[W].into = 0 /\ Canonical(db, W) = W /\ 0 \notin Ids(db)
    BY <1>2, TrackOfFacts, SoundFacts
  <2>2. Ends(db, t, W)
    BY <1>2, <2>1 DEF Ends
  <2>3. e = Merged(db, t, W)
    BY <1>2, <2>1, MergeTracksIs DEF MergeFile
  <2> HIDE DEF t, W, e
  <2>4. Sound(e, lost, bad, gone)
    BY <2>2, <2>3, MergedKeeps
  <2>5. /\ \A u \in {0} \cup Ids(db) : Canonical(e, u) = IF Canonical(db, u) = t THEN W ELSE Canonical(db, u)
        /\ \A g \in Uploads : TrackOf(e, g) = IF TrackOf(db, g) = t THEN W ELSE TrackOf(db, g)
    BY <2>2, <2>3, MergedEnds
  <2>6. e \in Dbs /\ Ids(e) = Ids(db)
    <3>1. IsMerged(e, db, t, W)
      BY <2>2, <2>3, MergedIs, SoundFacts
    <3> QED  BY <3>1 DEF IsMerged
  <2>7. Canonical(e, winner) = W
    BY <1>2, <2>5 DEF W
  <2>8. TrackOf(e, f) = W
    BY <2>5 DEF t
  <2>9. \A g \in Uploads : TrackOf(db, g) \in {0, W} => TrackOf(e, g) = TrackOf(db, g)
    BY <1>2, <2>5
  <2> QED  BY <2>4, <2>6, <2>7, <2>8, <2>9 DEF Joins, W, e
<1> QED  BY <1>1, <1>2

\* So are those of a list.
LEMMA MergeAllJoins ==
    ASSUME NEW db, NEW lost, NEW bad, NEW gone, Sound(db, lost, bad, gone),
           NEW s \in Seq(Uploads), NEW winner \in Ids(db)
    PROVE  /\ Joins(MergeAll(db, s, winner), db, winner, lost, bad, gone)
           /\ \A i \in DOMAIN s :
                 TrackOf(MergeAll(db, s, winner), s[i]) \in {0, Canonical(db, winner)}
<1> DEFINE W == Canonical(db, winner)
           G == {p \in (SUBSET DOMAIN s) \X Dbs :
                    /\ Joins(p[2], db, winner, lost, bad, gone)
                    /\ \A i \in p[1] : TrackOf(p[2], s[i]) \in {0, W}}
<1>1. db \in Dbs /\ IsFiniteSet(DOMAIN s) /\ \A i \in DOMAIN s : s[i] \in Uploads
  BY ListFacts, SoundFacts
<1>2. <<{}, db>> \in G
  <2>1. <<{}, db>> \in (SUBSET DOMAIN s) \X Dbs
    BY <1>1
  <2> QED  BY <2>1, JoinsNone
<1>3. ASSUME NEW T \in SUBSET DOMAIN s, NEW d \in Dbs, T # {}, <<Rest(T), d>> \in G
      PROVE  /\ MergeFile(d, s[First(T)], winner) \in Dbs
             /\ <<T, MergeFile(d, s[First(T)], winner)>> \in G
  <2> DEFINE f == s[First(T)]
             e == MergeFile(d, f, winner)
  <2>1. f \in Uploads /\ T = Rest(T) \cup {First(T)} /\ Rest(T) \subseteq DOMAIN s
    BY <1>1, <1>3, FirstAndRest
  <2>2. Joins(d, db, winner, lost, bad, gone) /\ \A i \in Rest(T) : TrackOf(d, s[i]) \in {0, W}
    BY <1>3
  <2>3. Sound(d, lost, bad, gone) /\ winner \in Ids(d) /\ Canonical(d, winner) = W
    BY <2>2 DEF Joins
  <2>4. Joins(e, d, winner, lost, bad, gone) /\ TrackOf(e, f) \in {0, W}
    BY <2>1, <2>3, MergeFileJoins
  <2> HIDE DEF e, W
  <2>5. Joins(e, db, winner, lost, bad, gone)
    BY <2>2, <2>4, JoinsMore
  <2>6. \A i \in Rest(T) : TrackOf(e, s[i]) = TrackOf(d, s[i])
    BY <1>1, <2>1, <2>2, <2>3, <2>4 DEF Joins
  <2>7. \A i \in T : TrackOf(e, s[i]) \in {0, W}
    BY <2>1, <2>2, <2>4, <2>6
  <2>8. e \in Dbs
    BY <2>5 DEF Joins
  <2>9. <<T, e>> \in (SUBSET DOMAIN s) \X Dbs
    BY <2>8
  <2>10. <<T, e>> \in G
    BY <2>5, <2>7, <2>9
  <2> QED  BY <2>8, <2>10 DEF e
<1> HIDE DEF G
<1>4. MergeAll(db, s, winner) \in Dbs /\ <<DOMAIN s, MergeAll(db, s, winner)>> \in G
  BY <1>1, <1>2, <1>3, MergeAllTakes
<1> QED  BY <1>4 DEF G

\* The accepted copies and the probe end on one track.
LEMMA JoinedFacts ==
    ASSUME NEW db, NEW lost, NEW bad, NEW gone, Sound(db, lost, bad, gone),
           \A f \in Uploads : fileState[f] = "stored" => f \notin gone,
           NEW job, job.file \in Uploads, db.track[job.file] # 0, NEW s \in Seq(Uploads)
    PROVE  /\ Joined(db, job, s) \in Dbs /\ Sound(Joined(db, job, s), lost, bad, gone)
           /\ TrackOf(Joined(db, job, s), job.file) # 0 =>
                  \A i \in DOMAIN s : TrackOf(Joined(db, job, s), s[i]) \in
                                          {0, TrackOf(Joined(db, job, s), job.file)}
<1> DEFINE a == AssignAll(db, s)
           ts == {TrackOf(a, c) : c \in {job.file} \cup ToSet(s)} \ {0}
           winner == Survivor(a, ts)
           m == MergeAll(a, s, winner)
           e == MergeFile(m, job.file, winner)
           W == Canonical(a, winner)
<1>1. /\ Sound(a, lost, bad, gone) /\ a.track[job.file] # 0
      /\ \A i \in DOMAIN s : s[i] \in Uploads
  BY AssignAllKeeps, ListFacts
<1>2. Joined(db, job, s) = e
  BY DEF Joined, Winner
<1> HIDE DEF a
<1>3. \A f \in Uploads : TrackOf(a, f) \in {0} \cup Ids(a)
  BY <1>1, TrackOfFacts
<1>4. ts \subseteq Ids(a) /\ ts # {}
  <2>1. TrackOf(a, job.file) # 0
    BY <1>1, TrackOfFacts
  <2>2. ToSet(s) \subseteq Uploads
    BY <1>1 DEF ToSet
  <2> QED  BY <1>3, <2>1, <2>2
<1>5. Ids(a) \subseteq Nat
  BY <1>1, SoundFacts DEF Ids
<1> HIDE DEF ts
<1>6. winner \in Ids(a)
  <2>1. winner \in ts
    BY <1>4, <1>5, SurvivorIsOne
  <2> QED  BY <1>4, <2>1
<1> HIDE DEF winner
<1>7. Joins(m, a, winner, lost, bad, gone) /\ \A i \in DOMAIN s : TrackOf(m, s[i]) \in {0, W}
  BY <1>1, <1>6, MergeAllJoins
<1> HIDE DEF m
<1>8. Sound(m, lost, bad, gone) /\ winner \in Ids(m) /\ Canonical(m, winner) = W
  BY <1>6, <1>7 DEF Joins
<1> HIDE DEF W
<1>9. Joins(e, m, winner, lost, bad, gone) /\ TrackOf(e, job.file) \in {0, W}
  BY <1>8, MergeFileJoins
<1> HIDE DEF e
<1>10. \A i \in DOMAIN s : TrackOf(e, s[i]) \in {0, W}
  BY <1>1, <1>7, <1>8, <1>9 DEF Joins
<1>11. e \in Dbs /\ Sound(e, lost, bad, gone)
  BY <1>9 DEF Joins
<1>12. TrackOf(e, job.file) # 0 => \A i \in DOMAIN s : TrackOf(e, s[i]) \in {0, TrackOf(e, job.file)}
  BY <1>9, <1>10
<1> QED  BY <1>2, <1>11, <1>12

-----------------------------------------------------------------------------
(* Preferred files changed, and merges undone.                             *)

\* Tables that differ in preferred files only.
SameButPrefs(e, db) ==
    /\ e \in Dbs /\ Len(e.tracks) = Len(db.tracks)
    /\ \A t \in Ids(db) : e.tracks[t].into = db.tracks[t].into
    /\ e.track = db.track /\ e.home = db.home /\ e.merges = db.merges

\* They are as sound as the new preferred files.
LEMMA PrefsMayChange ==
    ASSUME NEW db, NEW lost, NEW bad, NEW gone, Sound(db, lost, bad, gone),
           NEW e, SameButPrefs(e, db), NEW more, lost \subseteq more, NEW bad2, NEW gone2,
           \A t \in Ids(db) \ bad2 : e.tracks[t].pref \notin {0} \cup more => Prefers(e, t, gone2)
    PROVE  Sound(e, more, bad2, gone2)
<1>1. /\ e \in Dbs /\ Ids(e) = Ids(db) /\ InForce(e) = InForce(db) /\ e.merges = db.merges
      /\ \A t \in Ids(db) : e.tracks[t].into = db.tracks[t].into
      /\ e.track = db.track /\ e.home = db.home
  BY DEF SameButPrefs, Ids, InForce
<1>2. Forest(db)
  BY DEF Sound
<1>3. Forest(e)
  <2>1. /\ \A i \in InForce(e) : e.merges[i].loser \in Ids(e) /\ e.merges[i].winner \in Ids(e)
                                 /\ e.tracks[e.merges[i].loser].into = e.merges[i].winner
        /\ \A t \in Ids(e) : e.tracks[t].into # 0 => \E i \in InForce(e) : e.merges[i].loser = t
    BY <1>1, <1>2 DEF Forest
  <2>2. \A i, j \in InForce(e) :
          /\ e.merges[i].loser = e.merges[j].loser => i = j
          /\ e.merges[j].loser = e.merges[i].winner => i < j
    BY <1>1, <1>2 DEF Forest
  <2> QED  BY <2>1, <2>2 DEF Forest
<1>4. \A f \in Uploads \ more : e.track[f] # 0 => Follows(e, f)
  <2> SUFFICES ASSUME NEW f \in Uploads \ more, e.track[f] # 0  PROVE Follows(e, f)
    OBVIOUS
  <2>1. Follows(db, f) /\ PathOf(db, f) \subseteq Ids(db)
    <3>1. f \in Uploads \ lost /\ db.track[f] # 0
      BY <1>1
    <3>2. PathOf(db, f) \subseteq Ids(db)
      BY <3>1, PathIsOfTracks
    <3> QED  BY <3>1, <3>2 DEF Sound
  <2>2. PathOf(e, f) = PathOf(db, f)
    BY <1>1 DEF PathOf
  <2> QED  BY <1>1, <2>1, <2>2 DEF Follows
<1>5. /\ \A f \in Uploads : /\ e.track[f] \in {0} \cup Ids(e) /\ e.home[f] \in {0} \cup Ids(e)
                            /\ (e.track[f] = 0) = (e.home[f] = 0)
      /\ \A i \in InForce(e) : \A f \in e.merges[i].moved : e.track[f] # 0
  BY <1>1 DEF Sound
<1> QED  BY <1>1, <1>3, <1>4, <1>5 DEF Sound

\* What undoing the i-th merge makes.
IsUndone(e, db, i, p) ==
    LET m == db.merges[i]
    IN  /\ e \in Dbs /\ Ids(e) = Ids(db) /\ InForce(e) = InForce(db) \ {i}
        /\ \A j \in InForce(e) : e.merges[j] = db.merges[j]
        /\ \A t \in Ids(db) :
              /\ e.tracks[t].into = IF t = m.loser THEN 0 ELSE db.tracks[t].into
              /\ e.tracks[t].pref = IF t = m.winner THEN p ELSE db.tracks[t].pref
        /\ \A f \in Uploads : /\ e.home[f] = db.home[f]
                              /\ e.track[f] = IF f \in m.moved THEN m.loser ELSE db.track[f]

\* A merge that no later one depends on can be undone.
LEMMA UndoKeeps ==
    ASSUME NEW db, NEW lost, NEW bad, NEW gone, Sound(db, lost, bad, gone),
           NEW i \in InForce(db),
           \A j \in InForce(db) : j > i =>
               {db.merges[j].loser, db.merges[j].winner} \cap {db.merges[i].loser, db.merges[i].winner} = {},
           NEW e, NEW p \in Uploads \cup {0}, IsUndone(e, db, i, p), NEW bad2, bad \subseteq bad2,
           db.merges[i].winner \notin bad2 /\ p # 0 => p \notin gone /\ e.track[p] = db.merges[i].winner
    PROVE  Sound(e, lost, bad2, gone)
<1> DEFINE l == db.merges[i].loser
           w == db.merges[i].winner
           X == db.merges[i].moved
           F == InForce(db)
<1>1. /\ Forest(db) /\ 0 \notin Ids(db) /\ l \in Ids(db) /\ w \in Ids(db) /\ l # w /\ X \subseteq Uploads
      /\ F \subseteq Nat /\ l # 0
      /\ \A j \in F : db.merges[j].loser \in Ids(db) /\ db.merges[j].winner \in Ids(db)
                      /\ db.tracks[db.merges[j].loser].into = db.merges[j].winner
  BY SoundFacts
<1>2. /\ e \in Dbs /\ Ids(e) = Ids(db) /\ InForce(e) = F \ {i}
      /\ \A j \in F \ {i} : e.merges[j] = db.merges[j]
      /\ \A t \in Ids(db) : /\ e.tracks[t].into = IF t = l THEN 0 ELSE db.tracks[t].into
                            /\ e.tracks[t].pref = IF t = w THEN p ELSE db.tracks[t].pref
      /\ \A f \in Uploads : e.home[f] = db.home[f] /\ e.track[f] = IF f \in X THEN l ELSE db.track[f]
  BY DEF IsUndone
<1>3. /\ \A f \in Uploads : /\ db.track[f] \in {0} \cup Ids(db) /\ db.home[f] \in {0} \cup Ids(db)
                            /\ (db.track[f] = 0) = (db.home[f] = 0)
      /\ \A j \in F : \A f \in db.merges[j].moved : db.track[f] # 0
      /\ \A f \in Uploads \ lost : db.track[f] # 0 => Follows(db, f)
      /\ \A t \in Ids(db) \ bad : db.tracks[t].pref \notin {0} \cup lost => Prefers(db, t, gone)
  BY DEF Sound
<1>4. /\ \A j, k \in F : /\ db.merges[j].loser = db.merges[k].loser => j = k
                         /\ db.merges[k].loser = db.merges[j].winner => j < k
      /\ \A t \in Ids(db) : db.tracks[t].into # 0 => \E j \in F : db.merges[j].loser = t
  BY <1>1 DEF Forest
<1>5. \A j \in F : db.merges[j].loser # w
  <2> SUFFICES ASSUME NEW j \in F, db.merges[j].loser = w  PROVE FALSE
    OBVIOUS
  <2>1. i < j
    BY <1>4
  <2> QED  BY <1>1, <2>1
<1>6. db.tracks[w].into = 0 /\ db.tracks[l].into = w
  BY <1>1, <1>4, <1>5
<1>7. \A j \in F \ {i} : db.merges[j].loser # l
  BY <1>4
<1> HIDE DEF l, w, X, F
<1>8. Forest(e)
  <2>1. \A j \in InForce(e) : /\ e.merges[j].loser \in Ids(e) /\ e.merges[j].winner \in Ids(e)
                              /\ e.tracks[e.merges[j].loser].into = e.merges[j].winner
    <3> SUFFICES ASSUME NEW j \in F \ {i}
                 PROVE  /\ db.merges[j].loser \in Ids(db) /\ db.merges[j].winner \in Ids(db)
                        /\ e.tracks[db.merges[j].loser].into = db.merges[j].winner
      BY <1>2
    <3>1. db.merges[j].loser # l /\ db.merges[j].loser \in Ids(db)
      BY <1>1, <1>7
    <3> QED  BY <1>1, <1>2, <3>1
  <2>2. ASSUME NEW t \in Ids(e), e.tracks[t].into # 0
        PROVE  \E j \in InForce(e) : e.merges[j].loser = t
    <3>1. t \in Ids(db) /\ t # l /\ db.tracks[t].into # 0
      BY <1>2, <2>2
    <3>2. PICK j \in F : db.merges[j].loser = t
      BY <1>4, <3>1
    <3>3. j # i
      BY <3>1, <3>2 DEF l
    <3> QED  BY <1>2, <3>2, <3>3
  <2>3. \A j, k \in InForce(e) :
          /\ e.merges[j].loser = e.merges[k].loser => j = k
          /\ e.merges[k].loser = e.merges[j].winner => j < k
    BY <1>2, <1>4
  <2> QED  BY <2>1, <2>2, <2>3 DEF Forest
<1>9. \A f \in Uploads : /\ e.track[f] \in {0} \cup Ids(e) /\ e.home[f] \in {0} \cup Ids(e)
                         /\ (e.track[f] = 0) = (e.home[f] = 0)
  BY <1>1, <1>2, <1>3 DEF X, F
<1>10. \A j \in InForce(e) : \A f \in e.merges[j].moved : e.track[f] # 0
  <2> SUFFICES ASSUME NEW j \in F \ {i}, NEW f \in db.merges[j].moved  PROVE e.track[f] # 0
    BY <1>2
  <2>1. f \in Uploads /\ db.track[f] # 0
    BY <1>3, SoundFacts DEF F
  <2> QED  BY <1>1, <1>2, <2>1
<1>11. ASSUME NEW f \in Uploads \ lost, db.track[f] # 0
       PROVE  f \in X => db.track[f] = w
  <2>1. Follows(db, f)
    BY <1>3, <1>11
  <2>2. f \in X => w \in PathOf(db, f)
    BY DEF PathOf, X, w, F
  <2> QED  BY <1>6, <2>1, <2>2 DEF Follows
<1>12. ASSUME NEW f \in Uploads \ lost, e.track[f] # 0  PROVE Follows(e, f)
  <2> DEFINE A == PathOf(db, f)
             B == PathOf(e, f)
  <2>1. db.track[f] # 0
    <3>1. f \in X => db.track[f] # 0
      BY <1>3 DEF X, F
    <3> QED  BY <1>2, <1>12, <3>1
  <2>2. Follows(db, f) /\ A \subseteq Ids(db)
    BY <1>3, <2>1, PathIsOfTracks
  <2>3. \A u : u \in A <=> u = db.home[f] \/ \E j \in F : f \in db.merges[j].moved /\ db.merges[j].winner = u
    BY DEF PathOf, F
  <2>4. \A u : u \in B <=> u = db.home[f] \/ \E j \in F \ {i} : f \in db.merges[j].moved /\ db.merges[j].winner = u
    BY <1>2 DEF PathOf
  <2>5. /\ \A j \in F : f \in db.merges[j].moved <=> db.merges[j].loser \in A
        /\ db.track[f] \in A
        /\ \A u \in A : db.tracks[u].into = 0 <=> u = db.track[f]
        /\ \A j \in F : f \in db.merges[j].moved =>
              /\ db.merges[j].winner # db.home[f]
              /\ \A k \in F :
                    f \in db.merges[k].moved /\ db.merges[k].winner = db.merges[j].winner => j = k
    BY <2>2 DEF Follows, F
  <2>6. i \in F /\ (f \in X <=> f \in db.merges[i].moved) /\ db.merges[i].loser = l /\ db.merges[i].winner = w
    BY DEF F, X, l, w
  <2> HIDE DEF A, B
  <2>7. \A j \in InForce(e) : f \in e.merges[j].moved =>
            /\ e.merges[j].winner # e.home[f]
            /\ \A k \in InForce(e) :
                  f \in e.merges[k].moved /\ e.merges[k].winner = e.merges[j].winner => j = k
    BY <1>2, <2>5
  <2>8. CASE f \in X
    <3>1. db.track[f] = w /\ e.track[f] = l /\ l \in A /\ w \in A
      BY <1>2, <1>11, <2>1, <2>3, <2>5, <2>6, <2>8
    <3>2. \A u : u \in B <=> u \in A /\ u # w
      <4>1. \A u : u \in B => u \in A
        BY <2>3, <2>4
      <4>2. w \notin B
        BY <2>4, <2>5, <2>6, <2>8
      <4>3. \A u : u \in A /\ u # w => u \in B
        BY <2>3, <2>4, <2>6
      <4> QED  BY <4>1, <4>2, <4>3
    <3>3. \A j \in InForce(e) : f \in e.merges[j].moved <=> e.merges[j].loser \in B
      BY <1>2, <1>5, <2>5, <3>2
    <3>4. \A u \in B : e.tracks[u].into = 0 <=> u = e.track[f]
      BY <1>2, <2>2, <2>5, <3>1, <3>2
    <3>5. e.track[f] \in B
      BY <1>1, <3>1, <3>2 DEF l, w
    <3> QED  BY <2>7, <3>3, <3>4, <3>5 DEF Follows, B
  <2>9. CASE f \notin X
    <3>1. e.track[f] = db.track[f] /\ l \notin A
      BY <1>2, <2>5, <2>6, <2>9
    <3>2. \A u : u \in B <=> u \in A
      BY <2>3, <2>4, <2>6, <2>9
    <3>3. \A j \in InForce(e) : f \in e.merges[j].moved <=> e.merges[j].loser \in B
      BY <1>2, <2>5, <3>2
    <3>4. \A u \in B : e.tracks[u].into = 0 <=> u = e.track[f]
      BY <1>2, <2>2, <2>5, <3>1, <3>2
    <3> QED  BY <2>5, <2>7, <3>1, <3>2, <3>3, <3>4 DEF Follows, B
  <2> QED  BY <2>8, <2>9
<1>13. ASSUME NEW t \in Ids(e) \ bad2, e.tracks[t].pref \notin {0} \cup lost  PROVE Prefers(e, t, gone)
  <2>1. CASE t = w
    <3>1. e.tracks[t].pref = p /\ p \in Uploads /\ p \notin gone /\ e.track[p] = w
      BY <1>1, <1>2, <1>13, <2>1 DEF w
    <3>2. \A j \in InForce(e) : e.merges[j].loser # t
      BY <1>2, <1>5, <2>1
    <3> QED  BY <2>1, <3>1, <3>2 DEF Prefers
  <2>2. CASE t # w
    <3> DEFINE q == db.tracks[t].pref
    <3>1. e.tracks[t].pref = q /\ t \in Ids(db) \ bad
      BY <1>2, <1>13, <2>2
    <3>2. /\ q \in Uploads \ gone /\ q \notin lost /\ (db.tracks[t].into = 0 => db.track[q] = t)
          /\ \A j \in F : db.merges[j].loser = t => q \in db.merges[j].moved
      BY <1>3, <1>13, <3>1 DEF Prefers, F
    <3> HIDE DEF q
    <3>3. \A j \in InForce(e) : e.merges[j].loser = t => q \in e.merges[j].moved
      BY <1>2, <3>2
    <3>4. ASSUME e.tracks[t].into = 0  PROVE e.track[q] = t
      <4>1. CASE t = l
        <5>1. q \in X
          BY <3>2, <4>1 DEF l, X, F
        <5> QED  BY <1>2, <3>2, <4>1, <5>1
      <4>2. CASE t # l
        <5>1. db.track[q] = t /\ t # 0
          BY <1>1, <1>2, <3>1, <3>2, <3>4, <4>2
        <5>2. q \notin X
          BY <1>11, <2>2, <3>2, <5>1
        <5> QED  BY <1>2, <3>2, <5>1, <5>2
      <4> QED  BY <4>1, <4>2
    <3> QED  BY <3>1, <3>2, <3>3, <3>4 DEF Prefers
  <2> QED  BY <2>1, <2>2
<1> QED  BY <1>2, <1>8, <1>9, <1>10, <1>12, <1>13 DEF Sound

-----------------------------------------------------------------------------
(* The steps.                                                              *)

\* What is gone is what is deleted.
LEMMA GoneFacts ==
    ASSUME fileState \in [Uploads -> {"analysing", "stored", "deleted"}]
    PROVE  /\ \A f : f \in Gone <=> f \in Uploads /\ fileState[f] = "deleted"
           /\ \A f \in Uploads : fileState[f] = "stored" => f \notin Gone
BY DEF Gone, Visible

\* What is committed is what is found next.
LEMMA CommitIs ==
    ASSUME NEW d \in Dbs, Commit(d)
    PROVE  Db' = d
<1>1. d = [track |-> d.track, tracks |-> d.tracks, home |-> d.home, merges |-> d.merges]
  BY DEF Dbs
<1> QED  BY <1>1 DEF Commit, Db

\* The tables stay while their variables do.
LEMMA DbStays ==
    ASSUME UNCHANGED trackVars
    PROVE  Db' = Db
BY DEF trackVars, Db

\* Sound tables after a step, when they are known by other names.
LEMMA SoundNext ==
    ASSUME NEW d, NEW lost, NEW bad, NEW gone, Sound(d, lost, bad, gone),
           Db' = d, raced' = lost, tainted' = bad, Gone' = gone
    PROVE  Sound(Db, raced, tainted, Gone)'
BY DEF Sound

\* Fewer runs.
LEMMA FewerJobs ==
    ASSUME JobsHold, jobs' \subseteq jobs, jobsRun' = jobsRun
    PROVE  JobsHold'
BY DEF JobsHold

\* The seed's list stays.
LEMMA DueStays ==
    ASSUME DueHolds, due' = due  PROVE DueHolds'
BY DEF DueHolds

\* At the start there is nothing.
LEMMA DedupBegins ==
    ASSUME DedupInit  PROVE DedupInv
<1> USE DEF DedupInit
<1>1. fileState \in [Uploads -> {"analysing", "stored", "deleted"}]
  OBVIOUS
<1>2. Db \in Dbs
  <2>1. track \in [Uploads -> Nat] /\ home \in [Uploads -> Nat]
    OBVIOUS
  <2>2. tracks \in Seq(Tracks) /\ merges \in Seq(MergeRecords)
    OBVIOUS
  <2> QED  BY <2>1, <2>2 DEF Dbs, Db
<1>3. Db.tracks = <<>> /\ Db.merges = <<>> /\ Db.track = track /\ Db.home = home
  BY DEF Db
<1>4. Ids(Db) = {} /\ InForce(Db) = {}
  <2>1. Len(Db.tracks) = 0 /\ DOMAIN Db.merges = {}
    BY <1>3
  <2> QED  BY <2>1 DEF Ids, InForce
<1>5. Forest(Db)
  BY <1>4 DEF Forest
<1>6. \A f \in Uploads : Db.track[f] = 0 /\ Db.home[f] = 0
  BY <1>3
<1>7. Sound(Db, raced, tainted, Gone)
  BY <1>2, <1>4, <1>5, <1>6 DEF Sound
<1>8. JobsHold
  BY DEF JobsHold
<1>9. DueHolds
  <2>1. due \in Seq(Uploads) /\ DOMAIN due = {}
    OBVIOUS
  <2> QED  BY <2>1 DEF DueHolds
<1> QED  BY <1>1, <1>7, <1>8, <1>9 DEF DedupInv

\* A file stored, or sent through analysis again, is no more gone than before.
LEMMA FileMovesKeeps ==
    ASSUME DedupInv, NEW f \in Uploads, NEW s \in {"analysing", "stored"},
           fileState[f] # "deleted", fileState' = [fileState EXCEPT ![f] = s],
           UNCHANGED <<trackVars, review, jobs, jobsRun, due, raced, tainted>>
    PROVE  DedupInv'
<1>1. fileState' \in [Uploads -> {"analysing", "stored", "deleted"}]
  BY DEF DedupInv
<1>2. Gone' = Gone
  BY DEF DedupInv, Gone, Visible
<1>3. Sound(Db, raced, tainted, Gone)'
  BY <1>2, DbStays, SoundNext DEF DedupInv
<1>4. JobsHold' /\ DueHolds'
  BY FewerJobs, DueStays DEF DedupInv
<1> QED  BY <1>1, <1>3, <1>4 DEF DedupInv

\* Nothing happens to the files and the tables.
LEMMA TablesStay ==
    ASSUME DedupInv, UNCHANGED <<fileState, trackVars, raced, tainted>>
    PROVE  /\ fileState' \in [Uploads -> {"analysing", "stored", "deleted"}]
           /\ Sound(Db, raced, tainted, Gone)'
<1>1. Gone' = Gone
  BY DEF Gone, Visible
<1>2. Sound(Db, raced, tainted, Gone)'
  BY <1>1, DbStays, SoundNext DEF DedupInv
<1> QED  BY <1>2 DEF DedupInv

\* A run of the matcher begins.
LEMMA RunKeeps ==
    ASSUME DedupInv, NEW f \in Uploads, RunDedup(f)
    PROVE  DedupInv'
<1>1. fileState' \in [Uploads -> {"analysing", "stored", "deleted"}] /\ Sound(Db, raced, tainted, Gone)'
  BY TablesStay DEF RunDedup
<1>2. DueHolds' /\ review' \subseteq Uploads \X Uploads
  BY DueStays DEF DedupInv, RunDedup
<1>3. PICK cands \in SUBSET Uploads :
          jobs' = jobs \cup {[id |-> jobsRun, file |-> f, cands |-> cands,
                              at |-> IF f \in Printless THEN "done" ELSE "scored"]}
  <2>1. Visible \subseteq Uploads
    BY DEF Visible
  <2> QED  BY <2>1 DEF RunDedup
<1>4. JobsHold'
  <2> DEFINE r == [id |-> jobsRun, file |-> f, cands |-> cands,
                   at |-> IF f \in Printless THEN "done" ELSE "scored"]
  <2>1. jobsRun \in Nat /\ jobsRun' = jobsRun + 1 /\ jobs' = jobs \cup {r}
    BY <1>3 DEF DedupInv, JobsHold, RunDedup
  <2>2. r \in [id : Nat, file : Uploads, cands : SUBSET Uploads, at : {"scored", "done"}] /\ r.id = jobsRun
    BY <2>1
  <2>3. /\ jobs \subseteq [id : Nat, file : Uploads, cands : SUBSET Uploads, at : {"scored", "done"}]
        /\ \A j \in jobs : j.id < jobsRun /\ j.id \in Nat
        /\ \A j, k \in jobs : j.id = k.id => j = k
    BY DEF DedupInv, JobsHold
  <2> HIDE DEF r
  <2>4. \A j \in jobs' : j.id < jobsRun'
    BY <2>1, <2>2, <2>3
  <2>5. \A j, k \in jobs' : j.id = k.id => j = k
    BY <2>1, <2>2, <2>3
  <2> QED  BY <2>1, <2>2, <2>3, <2>4, <2>5 DEF JobsHold
<1> QED  BY <1>1, <1>2, <1>4 DEF DedupInv

\* A run throws, or ends.
LEMMA JobEndsKeeps ==
    ASSUME DedupInv, jobs' \subseteq jobs,
           UNCHANGED <<fileState, trackVars, review, jobsRun, due, raced, tainted>>
    PROVE  DedupInv'
<1>1. fileState' \in [Uploads -> {"analysing", "stored", "deleted"}] /\ Sound(Db, raced, tainted, Gone)'
  BY TablesStay
<1> QED  BY <1>1, FewerJobs, DueStays DEF DedupInv

\* The seed reads.
LEMMA SeedReadsKeeps ==
    ASSUME DedupInv, SeedReads  PROVE DedupInv'
<1>1. fileState' \in [Uploads -> {"analysing", "stored", "deleted"}] /\ Sound(Db, raced, tainted, Gone)'
  BY TablesStay DEF SeedReads
<1>2. JobsHold' /\ review' \subseteq Uploads \X Uploads
  BY FewerJobs DEF DedupInv, SeedReads
<1> DEFINE read == {f \in Printless : fileState[f] = "stored" /\ track[f] = 0}
<1>3. due' = InOrder(read) /\ read \in SUBSET Uploads
  BY DedupAssumption DEF SeedReads
<1> HIDE DEF read
<1>4. DueHolds'
  BY <1>3, InOrderIs DEF DueHolds
<1> QED  BY <1>1, <1>2, <1>4 DEF DedupInv

\* The seed writes.
LEMMA SeedLandsKeeps ==
    ASSUME DedupInv, SeedLands  PROVE DedupInv'
<1> DEFINE more == raced \cup {f \in ToSet(due) : track[f] # 0 \/ fileState[f] = "deleted"}
           d == MintAll(Db, due)
<1>1. /\ Sound(Db, raced, tainted, Gone) /\ due \in Seq(Uploads)
      /\ \A i, j \in DOMAIN due : due[i] = due[j] => i = j
  BY DEF DedupInv, DueHolds
<1>2. Db \in Dbs /\ \A i \in DOMAIN due : due[i] \in Uploads
  BY <1>1, ListFacts, SoundFacts
<1>3. Sound(Db, more, tainted, Gone)
  <2>1. SameButPrefs(Db, Db)
    BY <1>2 DEF SameButPrefs
  <2>2. raced \subseteq more
    OBVIOUS
  <2>3. \A t \in Ids(Db) \ tainted : Db.tracks[t].pref \notin {0} \cup more => Prefers(Db, t, Gone)
    BY <1>1 DEF Sound
  <2> HIDE DEF more
  <2> QED  BY <1>1, <2>1, <2>2, <2>3, PrefsMayChange
<1>4. \A i \in DOMAIN due : due[i] \notin more => Db.track[due[i]] = 0 /\ due[i] \notin Gone
  <2>1. \A i \in DOMAIN due : due[i] \in ToSet(due)
    BY DEF ToSet
  <2>2. Db.track = track
    BY DEF Db
  <2>3. \A f : f \in Gone <=> f \in Uploads /\ fileState[f] = "deleted"
    BY GoneFacts DEF DedupInv
  <2> QED  BY <2>1, <2>2, <2>3
<1>5. raced' = more /\ tainted' = tainted /\ Commit(d)
  BY DEF SeedLands
<1> HIDE DEF more
<1>6. d \in Dbs /\ Sound(d, more, tainted, Gone)
  BY <1>1, <1>3, <1>4, MintAllKeeps
<1> HIDE DEF d
<1>7. Db' = d
  BY <1>5, <1>6, CommitIs
<1>8. Gone' = Gone /\ fileState' \in [Uploads -> {"analysing", "stored", "deleted"}]
  BY DEF SeedLands, Gone, Visible, DedupInv
<1>9. Sound(Db, raced, tainted, Gone)'
  BY <1>5, <1>6, <1>7, <1>8, SoundNext
<1>10. JobsHold' /\ review' \subseteq Uploads \X Uploads
  BY FewerJobs DEF DedupInv, SeedLands
<1>11. DueHolds'
  <2>1. due' = <<>>
    BY DEF SeedLands
  <2>2. due' \in Seq(Uploads) /\ DOMAIN due' = {}
    BY <2>1
  <2> QED  BY <2>2 DEF DueHolds
<1> QED  BY <1>8, <1>9, <1>10, <1>11 DEF DedupInv

\* What the matcher leaves of the tables, and whom it joins.
LEMMA ResolveFacts ==
    ASSUME DedupInv, NEW job \in jobs, DedupResolve(job)
    PROVE  /\ Sound(Db', raced, tainted, Gone)
           /\ track'[job.file] # 0 =>
                  \A c \in Accepted(job, Copies) :
                     track'[c] # 0 => TrackOf(Db', c) = TrackOf(Db', job.file)
<1> DEFINE db == Assign(Db, job.file)
           same == InOrder(Accepted(job, Copies))
           d == IF same = <<>> THEN db ELSE Joined(db, job, same)
<1>1. /\ Sound(Db, raced, tainted, Gone) /\ job.file \in Uploads /\ job.cands \subseteq Uploads
      /\ \A f \in Uploads : fileState[f] = "stored" => f \notin Gone
  BY GoneFacts DEF DedupInv, JobsHold
<1>2. Sound(db, raced, tainted, Gone)
  BY <1>1, AssignKeeps
<1>3. db \in Dbs
  BY <1>2, SoundFacts
<1>4. Accepted(job, Copies) \in SUBSET Uploads
  BY <1>1 DEF Accepted
<1>5. /\ same \in Seq(Uploads)
      /\ \A f \in Accepted(job, Copies) : \E i \in DOMAIN same : same[i] = f
      /\ same = <<>> => Accepted(job, Copies) = {}
  BY <1>4, InOrderIs
<1>6. /\ db.track[job.file] = 0 => UNCHANGED trackVars
      /\ db.track[job.file] # 0 => Commit(d)
  BY DEF DedupResolve
<1> HIDE DEF db
<1>7. CASE db.track[job.file] = 0
  <2>1. Db' = Db
    BY <1>6, <1>7, DbStays
  <2>2. track'[job.file] = 0
    <3>1. track[job.file] = 0
      <4>1. CASE Db.track[job.file] # 0 \/ fileState[job.file] # "stored"
        BY <1>7, <4>1 DEF db, Assign, Db
      <4>2. CASE Db.track[job.file] = 0
        BY <4>2 DEF Db
      <4> QED  BY <4>1, <4>2
    <3> QED  BY <1>6, <1>7, <3>1 DEF trackVars
  <2> QED  BY <1>1, <2>1, <2>2
<1>8. CASE db.track[job.file] # 0 /\ same = <<>>
  <2>1. d = db
    BY <1>8
  <2> HIDE DEF d, same
  <2>2. Db' = db
    BY <1>3, <1>6, <1>8, <2>1, CommitIs
  <2> QED  BY <1>2, <1>5, <1>8, <2>2
<1>9. CASE db.track[job.file] # 0 /\ same # <<>>
  <2>1. d = Joined(db, job, same)
    BY <1>9
  <2> HIDE DEF d, same
  <2>2. /\ d \in Dbs /\ Sound(d, raced, tainted, Gone)
        /\ TrackOf(d, job.file) # 0 =>
               \A i \in DOMAIN same : TrackOf(d, same[i]) \in {0, TrackOf(d, job.file)}
    BY <1>1, <1>2, <1>5, <1>9, <2>1, JoinedFacts
  <2>3. Db' = d /\ track' = d.track
    <3>1. Commit(d)
      BY <1>6, <1>9
    <3> QED  BY <2>2, <3>1, CommitIs DEF Commit
  <2>4. \A f \in Uploads : (TrackOf(d, f) = 0) <=> (d.track[f] = 0)
    BY <2>2, TrackOfFacts
  <2>5. ASSUME track'[job.file] # 0, NEW c \in Accepted(job, Copies), track'[c] # 0
        PROVE  TrackOf(d, c) = TrackOf(d, job.file)
    <3>1. PICK i \in DOMAIN same : same[i] = c
      BY <1>5
    <3>2. TrackOf(d, job.file) # 0 /\ TrackOf(d, c) # 0
      BY <1>1, <1>4, <2>3, <2>4, <2>5
    <3> QED  BY <2>2, <3>1, <3>2
  <2> QED  BY <2>2, <2>3, <2>5
<1> QED  BY <1>7, <1>8, <1>9

\* The matcher's last call keeps the invariant.
LEMMA ResolveKeeps ==
    ASSUME DedupInv, NEW job \in jobs, DedupResolve(job)
    PROVE  DedupInv'
<1>1. Sound(Db', raced, tainted, Gone)
  BY ResolveFacts
<1>2. Gone' = Gone /\ fileState' \in [Uploads -> {"analysing", "stored", "deleted"}]
      /\ raced' = raced /\ tainted' = tainted
  BY DEF DedupResolve, Gone, Visible, DedupInv
<1>3. Sound(Db, raced, tainted, Gone)'
  BY <1>1, <1>2, SoundNext
<1>4. DueHolds'
  BY DueStays DEF DedupInv, DedupResolve
<1> DEFINE R == [id : Nat, file : Uploads, cands : SUBSET Uploads, at : {"scored", "done"}]
<1>5. jobs \subseteq R /\ job \in R
  BY DEF DedupInv, JobsHold
<1>6. review' \subseteq Uploads \X Uploads
  <2>1. Accepted(job, Likely) \subseteq Uploads /\ job.file \in Uploads
    BY <1>5 DEF Accepted
  <2>2. review' = review \/ review' = review \cup ({job.file} \X Accepted(job, Likely))
    BY DEF DedupResolve
  <2> QED  BY <2>1, <2>2 DEF DedupInv
<1>7. JobsHold'
  <2>1. PICK r : r = [job EXCEPT !.at = "done"]
    OBVIOUS
  <2>2. r \in R /\ r.id = job.id
    BY <1>5, <2>1
  <2>3. jobs' = (jobs \ {job}) \cup {r} /\ jobsRun' = jobsRun
    BY <2>1 DEF DedupResolve
  <2>4. /\ jobsRun \in Nat /\ \A j \in jobs : j.id < jobsRun
        /\ \A j, k \in jobs : j.id = k.id => j = k
    BY DEF DedupInv, JobsHold
  <2>5. \A j, k \in jobs' : j.id = k.id => j = k
    BY <2>2, <2>3, <2>4
  <2>6. \A j \in jobs' : j.id < jobsRun'
    BY <2>2, <2>3, <2>4
  <2> QED  BY <1>5, <2>2, <2>3, <2>4, <2>5, <2>6 DEF JobsHold
<1> QED  BY <1>2, <1>3, <1>4, <1>6, <1>7 DEF DedupInv

\* A track with its preferred file changed.
Preferring(db, w, x) == [db EXCEPT !.tracks[w].pref = x]

\* Only that is changed.
LEMMA PreferringIs ==
    ASSUME NEW db \in Dbs, NEW w \in Ids(db), NEW x \in Uploads \cup {0}
    PROVE  /\ SameButPrefs(Preferring(db, w, x), db)
           /\ \A t \in Ids(db) :
                 Preferring(db, w, x).tracks[t].pref = IF t = w THEN x ELSE db.tracks[t].pref
<1> DEFINE e == Preferring(db, w, x)
           tracks2 == [db.tracks EXCEPT ![w].pref = x]
<1>1. /\ db.tracks \in Seq(Tracks) /\ db.merges \in Seq(MergeRecords)
      /\ db.track \in [Uploads -> Nat] /\ db.home \in [Uploads -> Nat]
      /\ Len(db.tracks) \in Nat /\ Ids(db) = 1 .. Len(db.tracks)
      /\ \A t \in Ids(db) : db.tracks[t] \in Tracks
  BY LenProperties, ElementOfSeq DEF Dbs, Ids
<1>2. /\ [db.tracks[w] EXCEPT !.pref = x] \in Tracks
      /\ [db.tracks[w] EXCEPT !.pref = x].pref = x
      /\ [db.tracks[w] EXCEPT !.pref = x].into = db.tracks[w].into
  BY <1>1 DEF Tracks
<1>3. /\ tracks2 \in Seq(Tracks) /\ Len(tracks2) = Len(db.tracks)
      /\ \A t \in Ids(db) : /\ tracks2[t].into = db.tracks[t].into
                            /\ tracks2[t].pref = IF t = w THEN x ELSE db.tracks[t].pref
  <2>1. PICK r \in Tracks : r = [db.tracks[w] EXCEPT !.pref = x] /\ r.pref = x /\ r.into = db.tracks[w].into
    BY <1>2
  <2>2. tracks2 = [db.tracks EXCEPT ![w] = r]
    BY <2>1
  <2> HIDE DEF tracks2
  <2>3. tracks2 \in Seq(Tracks) /\ Len(tracks2) = Len(db.tracks)
        /\ \A t \in Ids(db) : tracks2[t] = IF t = w THEN r ELSE db.tracks[t]
    BY <1>1, <2>2, ExceptSeq
  <2> QED  BY <2>1, <2>3
<1>4. e.tracks = tracks2 /\ e.track = db.track /\ e.home = db.home /\ e.merges = db.merges
  BY <1>1 DEF Preferring, Dbs
<1>5. e \in Dbs
  BY <1>1, <1>3 DEF Preferring, Dbs
<1> HIDE DEF e, tracks2
<1>6. SameButPrefs(e, db)
  BY <1>3, <1>4, <1>5 DEF SameButPrefs
<1>7. \A t \in Ids(db) : e.tracks[t].pref = IF t = w THEN x ELSE db.tracks[t].pref
  BY <1>3, <1>4
<1> QED  BY <1>6, <1>7 DEF e

\* The owner's answer to what was only likely.
LEMMA ReviewKeeps ==
    ASSUME DedupInv, NEW probe \in Uploads, NEW cand \in Uploads, NEW verdict, NEW upgrade,
           ReviewResolve(probe, cand, verdict, upgrade)
    PROVE  DedupInv'
<1> DEFINE db == Assign(Assign(Db, probe), cand)
           p  == TrackOf(db, probe)
           c  == TrackOf(db, cand)
           w  == Survivor(db, {p, c})
           l  == IF w = p THEN c ELSE p
           x == IF w = p THEN cand ELSE probe
           merged == MergeTracks(db, l, w)
           takes  == upgrade \/ merged.tracks[w].pref = 0
           same   == verdict = "same" /\ 0 \notin {p, c} /\ p # c
<1>1. /\ Sound(Db, raced, tainted, Gone)
      /\ fileState \in [Uploads -> {"analysing", "stored", "deleted"}]
      /\ \A f \in Uploads : fileState[f] = "stored" => f \notin Gone
      /\ \A f : f \in Gone <=> f \in Uploads /\ fileState[f] = "deleted"
  BY GoneFacts DEF DedupInv
<1>2. Sound(db, raced, tainted, Gone)
  BY <1>1, AssignKeeps
<1>3. /\ same => /\ Commit(IF takes THEN [merged EXCEPT !.tracks[w].pref = x] ELSE merged)
                 /\ tainted' = IF takes /\ fileState[x] = "deleted" THEN tainted \cup {w} ELSE tainted
      /\ ~same => Commit(db) /\ tainted' = tainted
  BY DEF ReviewResolve
<1>4. Gone' = Gone /\ fileState' = fileState /\ raced' = raced
  BY DEF ReviewResolve, Gone, Visible
<1> HIDE DEF db
<1>5. Sound(Db, raced, tainted, Gone)'
  <2>1. CASE ~same
    <3>1. db \in Dbs /\ Commit(db) /\ tainted' = tainted
      BY <1>2, <1>3, <2>1, SoundFacts
    <3>2. Db' = db
      BY <3>1, CommitIs
    <3> QED  BY <1>2, <1>4, <3>1, <3>2, SoundNext
  <2>2. CASE same
    <3>1. /\ p \in Ids(db) /\ c \in Ids(db) /\ p # c /\ 0 \notin Ids(db)
          /\ db.tracks[p].into = 0 /\ db.tracks[c].into = 0
          /\ Canonical(db, p) = p /\ Canonical(db, c) = c
      BY <1>2, <2>2, TrackOfFacts, SoundFacts
    <3>2. w \in {p, c}
      <4> DEFINE ts == {p, c}
      <4>1. ts \in SUBSET Nat /\ ts # {} /\ Uploads # {}
        BY <1>2, <3>1, SoundFacts DEF Ids
      <4> HIDE DEF ts
      <4>2. Survivor(db, ts) \in ts
        BY <4>1, SurvivorIsOne
      <4> QED  BY <4>2 DEF ts
    <3>3. /\ Ends(db, l, w) /\ Canonical(db, l) = l /\ Canonical(db, w) = w
          /\ x \in Uploads /\ TrackOf(db, x) = l
      BY <3>1, <3>2 DEF Ends
    <3> HIDE DEF p, c, w, x, l
    <3>4. merged = Merged(db, l, w)
      BY <3>3, MergeTracksIs
    <3>5. PICK m : m = merged
      OBVIOUS
    <3> HIDE DEF merged
    <3>6. Sound(m, raced, tainted, Gone) /\ IsMerged(m, db, l, w)
      BY <1>2, <3>3, <3>4, <3>5, MergedKeeps, MergedIs, SoundFacts
    <3>7. m \in Dbs /\ w \in Ids(m) /\ m.tracks[w].into = 0
          /\ \A f \in Uploads : m.track[f] = IF db.track[f] = l THEN w ELSE db.track[f]
      BY <3>3, <3>6 DEF IsMerged, Ends
    <3>8. CASE ~takes
      <4>1. Commit(m) /\ tainted' = tainted
        BY <1>3, <2>2, <3>5, <3>8
      <4>2. Db' = m
        BY <3>7, <4>1, CommitIs
      <4> QED  BY <1>4, <3>6, <4>1, <4>2, SoundNext
    <3>9. CASE takes
      <4> DEFINE d == Preferring(m, w, x)
                 bad == IF fileState[x] = "deleted" THEN tainted \cup {w} ELSE tainted
      <4>1. Commit(d) /\ tainted' = bad
        <5>1. Commit([merged EXCEPT !.tracks[w].pref = x])
          BY <1>3, <2>2, <3>9
        <5>2. tainted' = bad
          BY <1>3, <2>2, <3>9
        <5> QED  BY <3>5, <5>1, <5>2 DEF Preferring
      <4>2. /\ SameButPrefs(d, m)
            /\ \A t \in Ids(m) : d.tracks[t].pref = IF t = w THEN x ELSE m.tracks[t].pref
        BY <3>3, <3>7, PreferringIs
      <4>3. tainted \subseteq bad /\ (w \notin bad => x \notin Gone)
        BY <1>1
      <4> HIDE DEF d, bad
      <4>4. /\ d \in Dbs /\ d.track = m.track /\ d.merges = m.merges /\ InForce(d) = InForce(m)
            /\ \A t \in Ids(m) : d.tracks[t].into = m.tracks[t].into
        BY <4>2 DEF SameButPrefs, InForce
      <4>5. ASSUME NEW t \in Ids(m) \ bad, d.tracks[t].pref \notin {0} \cup raced
            PROVE  Prefers(d, t, Gone)
        <5>1. CASE t = w
          <6>1. d.tracks[t].pref = x /\ x \in Uploads \ Gone /\ x \notin raced
            BY <3>3, <4>2, <4>3, <4>5, <5>1
          <6>2. db.track[x] = l
            <7>1. db.track[x] # 0
              BY <1>2, <3>1, <3>3, TrackOfFacts DEF Ends
            <7>2. db.tracks[db.track[x]].into = 0 /\ db.track[x] \in Ids(db)
              BY <1>2, <6>1, <7>1, AtTheEnd, PathIsOfTracks
            <7>3. Canonical(db, db.track[x]) = db.track[x]
              BY <1>2, <7>2, TrackOfFacts
            <7> QED  BY <3>3, <7>3 DEF TrackOf
          <6>3. d.track[x] = w
            BY <3>7, <4>4, <6>1, <6>2
          <6>4. \A i \in InForce(d) : d.merges[i].loser # w
            <7> SUFFICES ASSUME NEW i \in InForce(m), m.merges[i].loser = w  PROVE FALSE
              BY <4>4
            <7>1. m.tracks[w].into = m.merges[i].winner /\ m.merges[i].winner \in Ids(m) /\ 0 \notin Ids(m)
              BY <3>6, SoundFacts
            <7> QED  BY <3>7, <7>1
          <6> QED  BY <5>1, <6>1, <6>3, <6>4 DEF Prefers
        <5>2. CASE t # w
          <6>1. d.tracks[t].pref = m.tracks[t].pref /\ t \in Ids(m) \ tainted
            BY <4>2, <4>3, <4>5, <5>2
          <6>2. Prefers(m, t, Gone)
            BY <3>6, <4>5, <6>1 DEF Sound
          <6> QED  BY <4>4, <6>1, <6>2 DEF Prefers
        <5> QED  BY <5>1, <5>2
      <4>6. Sound(d, raced, bad, Gone)
        BY <3>6, <4>2, <4>5, PrefsMayChange
      <4>7. Db' = d
        BY <4>1, <4>4, CommitIs
      <4> QED  BY <1>4, <4>1, <4>6, <4>7, SoundNext
    <3> QED  BY <3>8, <3>9
  <2> QED  BY <2>1, <2>2
<1>6. JobsHold' /\ DueHolds' /\ review' \subseteq Uploads \X Uploads
  BY FewerJobs, DueStays DEF DedupInv, ReviewResolve
<1> QED  BY <1>1, <1>4, <1>5, <1>6 DEF DedupInv

\* A file is deleted, and the tracks that named it elect another.
LEMMA DeleteKeeps ==
    ASSUME DedupInv, NEW f \in Uploads, UploadDeleteFile(f)
    PROVE  DedupInv'
<1>1. /\ Sound(Db, raced, tainted, Gone)
      /\ fileState \in [Uploads -> {"analysing", "stored", "deleted"}]
      /\ \A g : g \in Gone <=> g \in Uploads /\ fileState[g] = "deleted"
  BY GoneFacts DEF DedupInv
<1>2. /\ fileState' = [fileState EXCEPT ![f] = "deleted"]
      /\ UNCHANGED <<track, home, merges, review, jobs, jobsRun, due, raced, tainted>>
  BY DEF UploadDeleteFile
<1>3. fileState' \in [Uploads -> {"analysing", "stored", "deleted"}]
  BY <1>1, <1>2
<1>4. Gone' = Gone \cup {f}
  BY <1>1, <1>2 DEF Gone, Visible
<1>5. PICK elected \in [Naming(f) -> Visible \cup {0}] :
          /\ \A t \in Naming(f) :
                LET own == {g \in Visible \ {f} : track[g] = t}
                IN  elected[t] \in IF own = {} THEN {0} ELSE own
          /\ tracks' = [t \in DOMAIN tracks |->
                           IF t \in Naming(f) THEN [tracks[t] EXCEPT !.pref = elected[t]]
                           ELSE tracks[t]]
  BY DEF UploadDeleteFile
<1>6. /\ tracks \in Seq(Tracks) /\ Len(tracks) \in Nat /\ DOMAIN tracks = 1 .. Len(tracks)
      /\ Ids(Db) = 1 .. Len(tracks) /\ Db \in Dbs
      /\ Db.tracks = tracks /\ Db.track = track /\ Db.home = home /\ Db.merges = merges
  BY <1>1, SoundFacts, LenProperties DEF Db, Ids
<1>7. \A t \in 1 .. Len(tracks) :
          LET r == tracks[t]
          IN  /\ r \in Tracks
              /\ \A x \in Uploads \cup {0} : /\ [r EXCEPT !.pref = x] \in Tracks
                                             /\ [r EXCEPT !.pref = x].into = r.into
                                             /\ [r EXCEPT !.pref = x].pref = x
  <2>1. \A t \in 1 .. Len(tracks) : tracks[t] \in Tracks
    BY <1>6, ElementOfSeq
  <2>2. \A r \in Tracks, x \in Uploads \cup {0} :
            /\ [r EXCEPT !.pref = x] \in Tracks
            /\ [r EXCEPT !.pref = x].into = r.into
            /\ [r EXCEPT !.pref = x].pref = x
    BY DEF Tracks
  <2> QED  BY <2>1, <2>2
<1>8. /\ tracks' \in Seq(Tracks) /\ Len(tracks') = Len(tracks)
      /\ \A t \in 1 .. Len(tracks) :
            /\ tracks'[t].into = tracks[t].into
            /\ tracks'[t].pref = IF t \in Naming(f) THEN elected[t] ELSE tracks[t].pref
  <2>1. ASSUME NEW t \in 1 .. Len(tracks)
        PROVE  /\ tracks'[t] \in Tracks /\ tracks'[t].into = tracks[t].into
               /\ tracks'[t].pref = IF t \in Naming(f) THEN elected[t] ELSE tracks[t].pref
    <3>1. CASE t \in Naming(f)
      <4>1. elected[t] \in Uploads \cup {0}
        BY <3>1 DEF Visible
      <4>2. tracks'[t] = [tracks[t] EXCEPT !.pref = elected[t]]
        BY <1>5, <1>6, <3>1
      <4> QED  BY <1>7, <3>1, <4>1, <4>2
    <3>2. CASE t \notin Naming(f)
      <4>1. tracks'[t] = tracks[t]
        BY <1>5, <1>6, <3>2
      <4> QED  BY <1>7, <3>2, <4>1
    <3> QED  BY <3>1, <3>2
  <2>2. \E h : tracks' = [t \in 1 .. Len(tracks) |-> h[t]]
    <3>1. tracks' = [t \in DOMAIN tracks |-> tracks'[t]]
      BY <1>5
    <3> QED  BY <1>6, <3>1
  <2>3. tracks' \in [1 .. Len(tracks) -> Tracks]
    BY <2>1, <2>2
  <2>4. tracks' \in Seq(Tracks) /\ Len(tracks') = Len(tracks)
    BY <1>6, <2>3
  <2> QED  BY <2>1, <2>4
<1>9. PICK d : d = Db'
  OBVIOUS
<1>10. d.tracks = tracks' /\ d.track = track /\ d.home = home /\ d.merges = merges /\ d \in Dbs
  <2>1. Db' = [track |-> track, tracks |-> tracks', home |-> home, merges |-> merges]
    BY <1>2 DEF Db
  <2>2. track \in [Uploads -> Nat] /\ home \in [Uploads -> Nat] /\ merges \in Seq(MergeRecords)
    BY <1>1, <1>6, SoundFacts
  <2> QED  BY <1>8, <1>9, <2>1, <2>2 DEF Dbs
<1>11. SameButPrefs(d, Db) /\ InForce(d) = InForce(Db) /\ Ids(d) = Ids(Db)
  BY <1>6, <1>8, <1>10 DEF SameButPrefs, InForce, Ids
<1>12. ASSUME NEW t \in Ids(Db) \ tainted, d.tracks[t].pref \notin {0} \cup raced
       PROVE  Prefers(d, t, Gone \cup {f})
  <2>1. t \in 1 .. Len(tracks) /\ d.tracks[t].into = tracks[t].into
    BY <1>6, <1>8, <1>10, <1>12
  <2>2. CASE t \in Naming(f)
    <3> DEFINE g == elected[t]
    <3>1. d.tracks[t].pref = g /\ g # 0 /\ g \notin raced
      BY <1>8, <1>10, <1>12, <2>1, <2>2
    <3>2. g \in Visible \ {f} /\ track[g] = t
      BY <1>5, <2>2, <3>1
    <3>3. g \in Uploads \ (Gone \cup {f})
      BY <3>2 DEF Gone, Visible
    <3> HIDE DEF g
    <3>4. tracks[t].into = 0
      <4>1. t # 0
        BY <2>1
      <4> QED  BY <1>1, <1>6, <3>1, <3>2, <3>3, <4>1, AtTheEnd
    <3>5. \A i \in InForce(d) : d.merges[i].loser # t
      <4> SUFFICES ASSUME NEW i \in InForce(Db), Db.merges[i].loser = t  PROVE FALSE
        BY <1>6, <1>10, <1>11
      <4>1. Db.tracks[t].into = Db.merges[i].winner /\ Db.merges[i].winner \in Ids(Db) /\ 0 \notin Ids(Db)
        BY <1>1, SoundFacts
      <4> QED  BY <1>6, <3>4, <4>1
    <3> QED  BY <1>10, <3>1, <3>2, <3>3, <3>5 DEF Prefers
  <2>3. CASE t \notin Naming(f)
    <3>1. d.tracks[t].pref = tracks[t].pref /\ tracks[t].pref # f
      BY <1>6, <1>8, <1>10, <2>1, <2>3 DEF Naming
    <3>2. Prefers(Db, t, Gone)
      BY <1>1, <1>6, <1>12, <3>1 DEF Sound
    <3> QED  BY <1>6, <1>10, <1>11, <2>1, <3>1, <3>2 DEF Prefers
  <2> QED  BY <2>2, <2>3
<1>13. Sound(d, raced, tainted, Gone \cup {f})
  BY <1>1, <1>11, <1>12, PrefsMayChange
<1>14. Sound(Db, raced, tainted, Gone)'
  BY <1>2, <1>4, <1>9, <1>13, SoundNext
<1>15. JobsHold' /\ DueHolds' /\ review' \subseteq Uploads \X Uploads
  BY <1>2, FewerJobs, DueStays DEF DedupInv
<1> QED  BY <1>3, <1>14, <1>15 DEF DedupInv

\* A merge is undone.
LEMMA UndoMergeKeeps ==
    ASSUME DedupInv, NEW i \in DOMAIN merges, UndoMerge(i)
    PROVE  DedupInv'
<1> DEFINE m == merges[i]
           was == tracks[m.winner].pref
           p == IF m.priorPref # 0 THEN m.priorPref ELSE was
<1>1. /\ Sound(Db, raced, tainted, Gone)
      /\ fileState \in [Uploads -> {"analysing", "stored", "deleted"}]
      /\ \A f : f \in Gone <=> f \in Uploads /\ fileState[f] = "deleted"
  BY GoneFacts DEF DedupInv
<1>2. /\ Undoable(i)
      /\ merges' = [merges EXCEPT ![i].undone = TRUE]
      /\ track' = [f \in Uploads |-> IF f \in m.moved THEN m.loser ELSE track[f]]
      /\ tracks' = [tracks EXCEPT ![m.loser].into = 0, ![m.winner].pref = p]
      /\ tainted' = IF p # 0 /\ (fileState[p] = "deleted" \/ track'[p] # m.winner)
                    THEN tainted \cup {m.winner} ELSE tainted
      /\ UNCHANGED <<fileState, home, jobs, jobsRun, due, raced>>
  BY DEF UndoMerge
<1>3. /\ tracks \in Seq(Tracks) /\ Len(tracks) \in Nat /\ DOMAIN tracks = 1 .. Len(tracks)
      /\ merges \in Seq(MergeRecords) /\ Len(merges) \in Nat /\ DOMAIN merges = 1 .. Len(merges)
      /\ track \in [Uploads -> Nat] /\ home \in [Uploads -> Nat]
      /\ Ids(Db) = 1 .. Len(tracks) /\ Db \in Dbs
      /\ Db.tracks = tracks /\ Db.track = track /\ Db.home = home /\ Db.merges = merges
  BY <1>1, SoundFacts, LenProperties DEF Db, Ids
<1>4. i \in InForce(Db)
  BY <1>2, <1>3 DEF InForce, Undoable
<1>5. /\ m.loser \in Ids(Db) /\ m.winner \in Ids(Db) /\ m.loser # m.winner /\ m \in MergeRecords
      /\ m.loser \in Nat /\ \A t \in Ids(Db) : tracks[t] \in Tracks /\ tracks[t].pref \in Uploads \cup {0}
      /\ Db.merges[i] = m
  BY <1>1, <1>3, <1>4, SoundFacts DEF MergeRecords
<1>6. p \in Uploads \cup {0}
  BY <1>5 DEF MergeRecords
<1>7. \A j \in InForce(Db) : j > i =>
          {Db.merges[j].loser, Db.merges[j].winner} \cap {Db.merges[i].loser, Db.merges[i].winner} = {}
  BY <1>2, <1>3 DEF InForce, Undoable
<1> HIDE DEF p
<1>8. PICK e : e = Db'
  OBVIOUS
<1>9. e = [track |-> track', tracks |-> tracks', home |-> home, merges |-> merges']
  BY <1>2, <1>8 DEF Db
<1>10. /\ merges' \in Seq(MergeRecords) /\ Len(merges') = Len(merges)
       /\ merges'[i].undone = TRUE
       /\ \A j \in 1 .. Len(merges) : j # i => merges'[j] = merges[j]
  <2>1. [m EXCEPT !.undone = TRUE] \in MergeRecords /\ [m EXCEPT !.undone = TRUE].undone = TRUE
    BY <1>5 DEF MergeRecords
  <2>2. PICK r \in MergeRecords : r = [m EXCEPT !.undone = TRUE] /\ r.undone = TRUE
    BY <2>1
  <2>3. merges' = [merges EXCEPT ![i] = r]
    BY <1>2, <2>2
  <2>4. merges' \in Seq(MergeRecords) /\ Len(merges') = Len(merges)
        /\ \A j \in 1 .. Len(merges) : merges'[j] = IF j = i THEN r ELSE merges[j]
    BY <1>3, <2>3, ExceptSeq
  <2> QED  BY <1>3, <2>2, <2>4
<1>11. /\ tracks' \in Seq(Tracks) /\ Len(tracks') = Len(tracks)
       /\ \A t \in 1 .. Len(tracks) :
             /\ tracks'[t].into = IF t = m.loser THEN 0 ELSE tracks[t].into
             /\ tracks'[t].pref = IF t = m.winner THEN p ELSE tracks[t].pref
  <2> DEFINE l == m.loser
             w == m.winner
  <2>1. l \in 1 .. Len(tracks) /\ w \in 1 .. Len(tracks) /\ l # w
    BY <1>3, <1>5
  <2>2. /\ [tracks[l] EXCEPT !.into = 0] \in Tracks
        /\ [tracks[l] EXCEPT !.into = 0].into = 0
        /\ [tracks[l] EXCEPT !.into = 0].pref = tracks[l].pref
        /\ [tracks[w] EXCEPT !.pref = p] \in Tracks
        /\ [tracks[w] EXCEPT !.pref = p].pref = p
        /\ [tracks[w] EXCEPT !.pref = p].into = tracks[w].into
    BY <1>5, <1>6 DEF Tracks
  <2>3. PICK r \in Tracks : r = [tracks[l] EXCEPT !.into = 0] /\ r.into = 0 /\ r.pref = tracks[l].pref
    BY <2>2
  <2>4. PICK s \in Tracks : s = [tracks[w] EXCEPT !.pref = p] /\ s.pref = p /\ s.into = tracks[w].into
    BY <2>2
  <2>5. tracks' = [[tracks EXCEPT ![l] = r] EXCEPT ![w] = s]
    BY <1>2, <1>3, <2>1, <2>3, <2>4
  <2> HIDE DEF l, w
  <2>6. PICK u : u = [tracks EXCEPT ![l] = r]
    OBVIOUS
  <2>7. u \in Seq(Tracks) /\ Len(u) = Len(tracks)
        /\ \A t \in 1 .. Len(tracks) : u[t] = IF t = l THEN r ELSE tracks[t]
    BY <1>3, <2>1, <2>6, ExceptSeq
  <2>8. tracks' \in Seq(Tracks) /\ Len(tracks') = Len(tracks)
        /\ \A t \in 1 .. Len(tracks) : tracks'[t] = IF t = w THEN s ELSE u[t]
    BY <2>1, <2>5, <2>6, <2>7, ExceptSeq
  <2>9. \A t \in 1 .. Len(tracks) :
             /\ tracks'[t].into = IF t = l THEN 0 ELSE tracks[t].into
             /\ tracks'[t].pref = IF t = w THEN p ELSE tracks[t].pref
    BY <2>1, <2>3, <2>4, <2>7, <2>8
  <2> QED  BY <2>8, <2>9 DEF l, w
<1>12. track' \in [Uploads -> Nat]
  BY <1>2, <1>3, <1>5
<1>13. e \in Dbs /\ e.track = track' /\ e.tracks = tracks' /\ e.home = home /\ e.merges = merges'
  BY <1>3, <1>9, <1>10, <1>11, <1>12 DEF Dbs
<1>14. IsUndone(e, Db, i, p)
  <2>1. Ids(e) = Ids(Db)
    BY <1>3, <1>11, <1>13 DEF Ids
  <2>2. InForce(e) = InForce(Db) \ {i}
    <3>1. DOMAIN merges' = DOMAIN merges
      BY <1>2
    <3> QED  BY <1>3, <1>10, <1>13, <3>1 DEF InForce
  <2>3. \A j \in InForce(e) : e.merges[j] = Db.merges[j]
    <3>1. InForce(Db) \subseteq 1 .. Len(merges)
      BY <1>3 DEF InForce
    <3> QED  BY <1>3, <1>10, <1>13, <2>2, <3>1
  <2>4. \A f \in Uploads : e.home[f] = Db.home[f] /\ e.track[f] = IF f \in m.moved THEN m.loser ELSE Db.track[f]
    BY <1>2, <1>3, <1>13
  <2> QED  BY <1>3, <1>5, <1>11, <1>13, <2>1, <2>2, <2>3, <2>4 DEF IsUndone
<1>15. /\ tainted \subseteq tainted'
       /\ m.winner \notin tainted' /\ p # 0 => p \notin Gone /\ e.track[p] = m.winner
  BY <1>1, <1>2, <1>13
<1>16. PICK bad : bad = tainted'
  OBVIOUS
<1>17. Sound(e, raced, bad, Gone)
  BY <1>1, <1>4, <1>5, <1>6, <1>7, <1>14, <1>15, <1>16, UndoKeeps
<1>18. Gone' = Gone /\ raced' = raced
  BY <1>2 DEF Gone, Visible
<1>19. Sound(Db, raced, tainted, Gone)'
  BY <1>8, <1>16, <1>17, <1>18, SoundNext
<1>20. review' = review
  BY DEF UndoMerge
<1>21. JobsHold' /\ DueHolds' /\ review' \subseteq Uploads \X Uploads
  BY <1>2, <1>20, FewerJobs, DueStays DEF DedupInv
<1> QED  BY <1>1, <1>2, <1>19, <1>21 DEF DedupInv

\* Every step keeps the invariant.
LEMMA DedupStep ==
    ASSUME DedupInv, [DedupNext]_dedupVars
    PROVE  DedupInv'
<1>1. ASSUME NEW f \in Uploads, Persist(f)  PROVE DedupInv'
  BY <1>1, FileMovesKeeps DEF Persist
<1>2. ASSUME NEW f \in Uploads, RequeueFile(f)  PROVE DedupInv'
  BY <1>2, FileMovesKeeps DEF RequeueFile
<1>3. ASSUME NEW f \in Uploads, RunDedup(f)  PROVE DedupInv'
  BY <1>3, RunKeeps
<1>4. ASSUME NEW f \in Uploads, UploadDeleteFile(f)  PROVE DedupInv'
  BY <1>4, DeleteKeeps
<1>5. ASSUME NEW job \in jobs, DedupResolve(job)  PROVE DedupInv'
  BY <1>5, ResolveKeeps
<1>6. ASSUME NEW job \in jobs, DedupThrows(job)  PROVE DedupInv'
  BY <1>6, JobEndsKeeps DEF DedupThrows
<1>7. ASSUME NEW job \in jobs, NEW fails \in BOOLEAN, DedupMarkProbed(job, fails)  PROVE DedupInv'
  BY <1>7, JobEndsKeeps DEF DedupMarkProbed
<1>8. CASE SeedReads
  BY <1>8, SeedReadsKeeps
<1>9. CASE SeedLands
  BY <1>9, SeedLandsKeeps
<1>10. ASSUME NEW pair \in review, NEW upgrade, NEW verdict,
              ReviewResolve(pair[1], pair[2], verdict, upgrade)
       PROVE  DedupInv'
  <2>1. pair[1] \in Uploads /\ pair[2] \in Uploads
    BY DEF DedupInv
  <2> QED  BY <1>10, <2>1, ReviewKeeps
<1>11. ASSUME NEW i \in DOMAIN merges, UndoMerge(i)  PROVE DedupInv'
  BY <1>11, UndoMergeKeeps
<1>12. CASE UNCHANGED dedupVars
  <2>1. UNCHANGED <<fileState, trackVars, review, jobs, jobsRun, due, raced, tainted>>
    BY <1>12 DEF dedupVars
  <2> QED  BY <2>1, JobEndsKeeps
<1> QED
  BY <1>1, <1>2, <1>3, <1>4, <1>5, <1>6, <1>7, <1>8, <1>9, <1>10, <1>11, <1>12 DEF DedupNext

\* The invariant is what the runs check.
LEMMA DedupInvHolds ==
    ASSUME DedupInv
    PROVE  TracksHold /\ DedupTypeOK
<1>1. /\ Sound(Db, raced, tainted, Gone)
      /\ \A f : f \in Gone <=> f \in Uploads /\ fileState[f] = "deleted"
      /\ Db.tracks = tracks /\ Db.track = track /\ Db.home = home /\ Db.merges = merges
      /\ DOMAIN tracks = Ids(Db)
  BY GoneFacts, SoundFacts DEF DedupInv, Db
<1>2. TrackFollowsMerges
  BY <1>1, AtTheEnd DEF TrackFollowsMerges
<1>3. PreferredIsLive
  <2> SUFFICES ASSUME NEW t \in DOMAIN tracks \ tainted, tracks[t].into = 0,
                      tracks[t].pref \notin {0} \cup raced
               PROVE  fileState[tracks[t].pref] # "deleted" /\ track[tracks[t].pref] = t
    BY DEF PreferredIsLive
  <2>1. Prefers(Db, t, Gone)
    BY <1>1 DEF Sound
  <2> QED  BY <1>1, <2>1 DEF Prefers
<1>4. DedupTypeOK
  <2>1. \A f \in Uploads : track[f] \in {0} \cup DOMAIN tracks /\ (track[f] = 0) = (home[f] = 0)
    BY <1>1 DEF Sound
  <2>2. ASSUME NEW t \in DOMAIN tracks  PROVE tracks[t].into \in {0} \cup (DOMAIN tracks \ {t})
    <3>1. tracks[t].into \in {0} \cup DOMAIN tracks
      BY <1>1, SoundFacts
    <3>2. ASSUME tracks[t].into # 0  PROVE tracks[t].into # t
      <4>1. PICK i \in InForce(Db) : Db.merges[i].loser = t
        BY <1>1, <3>2 DEF Sound, Forest
      <4>2. Db.merges[i].loser # Db.merges[i].winner /\ Db.tracks[t].into = Db.merges[i].winner
        BY <1>1, <4>1, SoundFacts
      <4> QED  BY <1>1, <4>1, <4>2
    <3> QED  BY <3>1, <3>2
  <2> QED  BY <2>1, <2>2 DEF DedupTypeOK
<1> QED  BY <1>2, <1>3, <1>4 DEF TracksHold

\* What merges, undos, answers and deletes leave of the tracks holds however
\* many files there are and whatever order they come in.
THEOREM MergesHold ==
    DedupSpec => []TracksHold
BY DedupBegins, DedupStep, DedupInvHolds, PTL DEF DedupSpec

\* A merged_into never names a track that is not there, or the track itself.
THEOREM TablesTypeOK ==
    DedupSpec => []DedupTypeOK
BY DedupBegins, DedupStep, DedupInvHolds, PTL DEF DedupSpec

\* A file the matcher has resolved stands on one track with the copies it
\* accepted, whichever of them had tracks before.
THEOREM MatcherJoins ==
    DedupSpec => ResolveJoins
<1> DEFINE Step == \A job \in jobs :
          job.at = "scored" /\ [job EXCEPT !.at = "done"] \in jobs' /\ track'[job.file] # 0 =>
              \A c \in Accepted(job, Copies) :
                  track'[c] # 0 => Canonical(Db', track'[c]) = Canonical(Db', track'[job.file])
<1>1. ASSUME DedupInv, [DedupNext]_dedupVars
      PROVE  Step
  <2> SUFFICES ASSUME NEW job \in jobs, job.at = "scored", [job EXCEPT !.at = "done"] \in jobs',
                      track'[job.file] # 0
               PROVE  \A c \in Accepted(job, Copies) :
                         track'[c] # 0 => Canonical(Db', track'[c]) = Canonical(Db', track'[job.file])
    OBVIOUS
  <2>1. PICK r : r = [job EXCEPT !.at = "done"]
    OBVIOUS
  <2>2. /\ jobsRun \in Nat /\ \A j \in jobs : j.id < jobsRun /\ j.id \in Nat
        /\ \A j, k \in jobs : j.id = k.id => j = k
        /\ r.at = "done" /\ r.id = job.id /\ r \in jobs' /\ r # job /\ r \notin jobs
    <3>1. jobs \subseteq [id : Nat, file : Uploads, cands : SUBSET Uploads, at : {"scored", "done"}]
          /\ jobsRun \in Nat /\ (\A j \in jobs : j.id < jobsRun)
          /\ \A j, k \in jobs : j.id = k.id => j = k
      BY <1>1 DEF DedupInv, JobsHold
    <3>2. r.at = "done" /\ r.id = job.id /\ r # job /\ r \in jobs'
      BY <2>1, <3>1
    <3> QED  BY <3>1, <3>2
  <2>3. DedupResolve(job)
    <3>1. ASSUME jobs' \subseteq jobs  PROVE FALSE
      BY <2>2, <3>1
    <3>2. ASSUME NEW f \in Uploads, RunDedup(f)  PROVE FALSE
      <4>1. PICK x : jobs' = jobs \cup {x} /\ x.id = jobsRun
        <5>1. PICK cands : jobs' = jobs \cup {[id |-> jobsRun, file |-> f, cands |-> cands,
                              at |-> IF f \in Printless THEN "done" ELSE "scored"]}
          BY <3>2 DEF RunDedup
        <5> QED  BY <5>1
      <4> QED  BY <2>2, <4>1
    <3>3. ASSUME NEW other \in jobs, DedupResolve(other)  PROVE other = job
      <4>1. PICK x : x = [other EXCEPT !.at = "done"]
        OBVIOUS
      <4>2. jobs' = (jobs \ {other}) \cup {x}
        BY <3>3, <4>1 DEF DedupResolve
      <4>3. x.id = other.id
        <5>1. other \in [id : Nat, file : Uploads, cands : SUBSET Uploads, at : {"scored", "done"}]
          BY <1>1 DEF DedupInv, JobsHold
        <5> QED  BY <4>1, <5>1
      <4> QED  BY <2>2, <4>2, <4>3
    <3>4. ASSUME NEW f \in Uploads, Persist(f) \/ RequeueFile(f) \/ UploadDeleteFile(f)  PROVE FALSE
      BY <3>1, <3>4 DEF Persist, RequeueFile, UploadDeleteFile
    <3>5. ASSUME NEW other \in jobs, NEW fails, DedupThrows(other) \/ DedupMarkProbed(other, fails)
          PROVE  FALSE
      BY <3>1, <3>5 DEF DedupThrows, DedupMarkProbed
    <3>6. CASE SeedReads \/ SeedLands
      BY <3>1, <3>6 DEF SeedReads, SeedLands
    <3>7. ASSUME NEW pair, NEW upgrade, NEW verdict, ReviewResolve(pair[1], pair[2], verdict, upgrade)
          PROVE  FALSE
      BY <3>1, <3>7 DEF ReviewResolve
    <3>8. ASSUME NEW i, UndoMerge(i)  PROVE FALSE
      BY <3>1, <3>8 DEF UndoMerge
    <3>9. CASE UNCHANGED dedupVars
      BY <3>1, <3>9 DEF dedupVars
    <3> QED
      BY <1>1, <3>2, <3>3, <3>4, <3>5, <3>6, <3>7, <3>8, <3>9 DEF DedupNext
  <2>4. \A c \in Accepted(job, Copies) : track'[c] # 0 => TrackOf(Db', c) = TrackOf(Db', job.file)
    BY <1>1, <2>3, ResolveFacts
  <2>5. Db'.track = track'
    BY DEF Db
  <2> QED  BY <2>4, <2>5 DEF TrackOf
<1>2. DedupInv /\ [DedupNext]_dedupVars => [Step]_dedupVars
  BY <1>1
<1>3. DedupSpec => [][Step]_dedupVars
  <2> HIDE DEF Step
  <2> QED  BY <1>2, DedupBegins, DedupStep, PTL DEF DedupSpec
<1> QED  BY <1>3 DEF ResolveJoins
==============================================================================
