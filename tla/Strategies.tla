------------------------------ MODULE Strategies ------------------------------
(***************************************************************************)
(* How the automatic tail of the queue is picked (lib/queue-strategies.ts  *)
(* and regenerate of lib/queue-engine.ts): one copy of each recording, then*)
(* a greedy walk over keys and tempos, each pick the seed of the next.     *)
(* QueueEngine leaves this choice open; here it is the numbers that matter.*)
(*                                                                         *)
(* A track is a record [id, rec, num, letter, bpm, likes, created, tier]:  *)
(* rec 0 is no recording, num 0 no key, bpm 0 no tempo, tier -1 not yet    *)
(* analysed.  Ids are numbers ordered as the file ids are.                 *)
(***************************************************************************)
EXTENDS Integers, Sequences, FiniteSets, SequencesExt, FiniteSetsExt, Subsequences

CONSTANTS
    Catalogue,        \* the tracks of the pool
    Needs,            \* free slots regenerate may be asked to fill
    Draw(_, _, _)     \* the k-th number of the generator a file id seeds, in 0 .. i

TrackFeatures ==
    [id : Nat \ {0}, rec : Nat, num : 0 .. 12, letter : {"A", "B"}, bpm : Nat,
     likes : Nat, created : Nat, tier : -1 .. 5]

\* The pool is finite, a file id names one track, and a draw is within its range.
ASSUME StrategiesAssumption ==
    /\ IsFiniteSet(Catalogue) /\ Catalogue \subseteq TrackFeatures
    /\ \A t, u \in Catalogue : t.id = u.id => t = u
    /\ Needs \subseteq Nat \ {0}
    /\ \A id \in {0} \cup {t.id : t \in Catalogue}, k, i \in 0 .. Cardinality(Catalogue) :
           Draw(id, k, i) \in 0 .. i

\* seedFor when the queue names no track: nothing is known of it.
NoSeed == [id |-> 0, rec |-> 0, num |-> 0, letter |-> "A", bpm |-> 0,
           likes |-> 0, created |-> 0, tier |-> -1]

VARIABLES
    seed,     \* the track the tail goes on from, or NoSeed
    method,   \* the strategy in force
    need,     \* slots wanted
    offer,    \* /api/queue/candidates' answer, as it came
    tail      \* the tail regenerate made of it

strategyVars == <<seed, method, need, offer, tail>>

StrategiesInit ==
    seed = NoSeed /\ method = "off" /\ need = 0 /\ offer = <<>> /\ tail = <<>>

-----------------------------------------------------------------------------
(* Scores.  Penalties are compared under one seed only, so they are kept   *)
(* whole: six times the penalty, times the seed's tempo.                   *)

Abs(n) == IF n < 0 THEN -n ELSE n

\* keyPenalty, in halves of a unit.
KeyPenalty(x, y) ==
    LET raw   == Abs(x.num - y.num)
        hours == Min({raw, 12 - raw})
        free  == IF hours = 0 THEN 0 ELSE hours - 1
    IN  CASE x.num = 0 \/ y.num = 0             -> 6
          [] x.num # 0 /\ y.num # 0 /\ hours = 0 /\ x.letter # y.letter -> 1
          [] OTHER -> 2 * free + (IF x.letter = y.letter THEN 0 ELSE 3)

Scale(s) == IF s.bpm = 0 THEN 1 ELSE s.bpm

\* bpmPenalty: the distance in percent of the seed's tempo, over three.
BpmPenalty(s, t) ==
    IF s.bpm = 0 \/ t.bpm = 0 THEN 12 * Scale(s) ELSE 200 * Abs(s.bpm - t.bpm)

Score(s, t) == 3 * Scale(s) * KeyPenalty(s, t) + BpmPenalty(s, t)

\* What a method goes by.
ScoreOf(m, s, t) == IF m = "bpm" THEN BpmPenalty(s, t) ELSE Score(s, t)

LexLess(v, w) == \E i \in DOMAIN v : v[i] < w[i] /\ \A j \in 1 .. i - 1 : v[j] = w[j]

\* Mutant: equals are left in the order they came in.
CompareUntied(m, s, x, y) ==
    LexLess(<<ScoreOf(m, s, x), -x.likes, -x.created>>, <<ScoreOf(m, s, y), -y.likes, -y.created>>)

\* compare: the total order, lower penalty first.
Rank(m, s, t) == <<ScoreOf(m, s, t), -t.likes, -t.created, t.id>>
Compare(m, s, x, y) == LexLess(Rank(m, s, x), Rank(m, s, y))

-----------------------------------------------------------------------------
(* The offer.                                                              *)

\* camelot_neighbours: a step either way around the wheel, and the relative.
Neighbours(s) ==
    {<<s.num, s.letter>>, <<(s.num % 12) + 1, s.letter>>, <<((s.num + 10) % 12) + 1, s.letter>>,
     <<s.num, IF s.letter = "A" THEN "B" ELSE "A">>}

\* candidateArgs and pool_list: keys next to the seed's, tempos within BPM_WINDOW
\* of it; what the seed lacks does not narrow.  (A pool of CANDIDATE_LIMIT files
\* at most.)
PoolList(s) ==
    {t \in Catalogue : /\ s.num # 0 => t.num # 0 /\ <<t.num, t.letter>> \in Neighbours(s)
                       /\ s.bpm # 0 => t.bpm # 0 /\ 100 * Abs(t.bpm - s.bpm) <= 6 * s.bpm}

\* An answer lists them in some order, and perhaps one of them twice.
AnswerLists(s) ==
    LET orders == SetToSeqs(PoolList(s))
    IN  orders \cup {Append(o, o[1]) : o \in orders \ {<<>>}}

-----------------------------------------------------------------------------
(* Selection.                                                              *)

UniqueById(ts) == Only(ts, {i \in DOMAIN ts : \A j \in 1 .. i - 1 : ts[j].id # ts[i].id})

\* greedyWalk: the best of the remaining, the first of equals, becomes the seed.
BestOf(m, s, left) ==
    Min({i \in DOMAIN left : \A j \in DOMAIN left : ~Compare(m, s, left[j], left[i])})
Take(w, i) == [picked |-> Append(w.picked, w.left[i]), seed |-> w.left[i],
               left |-> Only(w.left, DOMAIN w.left \ {i})]
Walk(m, s, pool) ==
    LET walk[k \in 0 .. Len(pool)] ==
            IF k = 0 THEN [picked |-> <<>>, seed |-> s, left |-> pool]
            ELSE Take(walk[k - 1], BestOf(m, walk[k - 1].seed, walk[k - 1].left))
    IN  walk

GreedyWalk(m, s, ts, want) ==
    LET pool == UniqueById(ts) IN Walk(m, s, pool)[Min({want, Len(pool)})].picked

\* The shuffle: every place from the last exchanged with one before it or itself.
Swap(p, i, j) == [p EXCEPT ![i] = p[j], ![j] = p[i]]
Deck(s, pool) ==
    LET last == Len(pool)
        deck[k \in 0 .. last] ==
            IF k = 0 THEN pool
            ELSE Swap(deck[k - 1], last - k + 1, Draw(s.id, k, last - k) + 1)
    IN  deck

Shuffle(s, ts, want) ==
    LET pool == UniqueById(ts)
        last == Len(pool)
    IN  SubSeq(Deck(s, pool)[IF last = 0 THEN 0 ELSE last - 1], 1, Min({want, last}))

Select(m, s, ts, want) ==
    IF m = "shuffle" THEN Shuffle(s, ts, want) ELSE GreedyWalk(m, s, ts, want)

\* preferredCopy: the better encode, then the newer file.
PreferredCopy(x, y) ==
    LexLess(<<-x.tier, -x.created, x.id>>, <<-y.tier, -y.created, y.id>>)

\* One copy of each recording, where the first of them stood.
Keep(out, t) ==
    LET same == {i \in DOMAIN out : t.rec # 0 /\ out[i].rec = t.rec}
    IN  IF same = {} THEN Append(out, t)
        ELSE [i \in DOMAIN out |-> IF i \in same /\ PreferredCopy(t, out[i]) THEN t ELSE out[i]]
Collapsed(ts) ==
    LET kept[n \in 0 .. Len(ts)] == IF n = 0 THEN <<>> ELSE Keep(kept[n - 1], ts[n])
    IN  kept
CollapseByRecording(ts) == Collapsed(ts)[Len(ts)]

\* What the seed itself takes out of the offer: its file and its recording.
IsFresh(s, t) == t.id # s.id /\ (t.rec = 0 \/ t.rec # s.rec)
Fresh(s, ts) == Only(ts, {i \in DOMAIN ts : IsFresh(s, ts[i])})

\* The picks of the method; a harmonic walk that ends short is finished by tempo.
SelectTail(m, s, ts, want) ==
    LET candidates == CollapseByRecording(Fresh(s, ts))
        picked     == Select(m, s, candidates, want)
        rest       == Only(candidates, {i \in DOMAIN candidates : candidates[i] \notin ToSet(picked)})
    IN  IF m = "harmonic" /\ Len(picked) < want
        THEN picked \o Select("bpm", s, rest, want - Len(picked)) ELSE picked

-----------------------------------------------------------------------------
\* A queue asks for its tail, from any track, for any room; the method "off" never
\* asks.
Ask(s, m, n) ==
    /\ need = 0
    /\ seed' = s /\ method' = m /\ need' = n
    /\ UNCHANGED <<offer, tail>>

\* The candidates arrive, and the tail is made of them.
Regenerate ==
    /\ need # 0 /\ offer = <<>>
    /\ offer' \in AnswerLists(seed) /\ offer' # <<>>
    /\ tail' = SelectTail(method, seed, offer', need)
    /\ UNCHANGED <<seed, method, need>>

StrategiesNext ==
    \/ \E s \in Catalogue \cup {NoSeed}, m \in {"harmonic", "bpm", "shuffle"},
          n \in Needs : Ask(s, m, n)
    \/ Regenerate

StrategiesSpec == StrategiesInit /\ [][StrategiesNext]_strategyVars

\* Shape of the offer.
StrategiesTypeOK ==
    /\ seed \in Catalogue \cup {NoSeed} /\ method \in {"off", "harmonic", "bpm", "shuffle"}
    /\ need \in Needs \cup {0} /\ ToSet(offer) \subseteq Catalogue

\* What you see is what plays, "a reload, a re-fetch and a different candidate
\* ordering off the wire" included (queue-strategies.ts:167): the tail is fixed
\* by the set of tracks on offer.  It names one copy of each recording, the best
\* one, and never the seed's; it is as long as there is room and music for; by
\* key or tempo each track is the best match for the one before it; and the wheel
\* pool_list narrows by is the one the picks are scored on.
TailIsChain ==
    LET fresh == {t \in PoolList(seed) : t.id # seed.id /\ (t.rec = 0 \/ t.rec # seed.rec)}
        best  == {t \in fresh : \A u \in fresh \ {t} :
                                   t.rec = 0 \/ t.rec # u.rec \/ PreferredCopy(t, u)}
    IN  /\ seed.num # 0 => \A num \in 1 .. 12, letter \in {"A", "B"} :
               <<num, letter>> \in Neighbours(seed)
                   <=> KeyPenalty(seed, [num |-> num, letter |-> letter]) <= 1
        /\ ToSet(tail) \subseteq best /\ IsInjective(tail)
        /\ offer # <<>> => Len(tail) = Min({need, Cardinality(best)})
        /\ method \in {"harmonic", "bpm"} =>
               \A i \in DOMAIN tail :
                   LET s == IF i = 1 THEN seed ELSE tail[i - 1]
                   IN  \A u \in best \ {tail[j] : j \in 1 .. i} :
                           LexLess(Rank(method, s, tail[i]), Rank(method, s, u))
=============================================================================
