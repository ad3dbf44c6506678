--------------------------- MODULE TransferProofs ---------------------------
(***************************************************************************)
(* What arrives is the file: the parts of a multipart upload (PartTransfer)*)
(* and the entries of a crate's archive (CrateZip), for any sizes.         *)
(*                                                                         *)
(* A transfer: the plan's parts cover the file, the ranges of              *)
(* contiguousRanges name each part that is not there in one range, and     *)
(* every part is in one place: waiting, in flight, failed or held by R2.   *)
(* An archive: the writer's records say where each entry lies in what was  *)
(* written, the entries lie one after another with nothing between, and    *)
(* every row of the plan so far is an entry or listed as missing.          *)
(***************************************************************************)
EXTENDS PartTransfer, CrateZip, DataProofs

(***************************************************************************)
(* The parts of an upload.                                                 *)
(***************************************************************************)

PartLength == stored.partSize
Count == stored.partCount

\* The plan: as many parts as cover the file, and no more than R2 takes.
PlanCovers ==
    /\ size \in Nat \ {0} /\ PartLength \in Nat \ {0} /\ Count \in 1 .. MaxParts
    /\ (Count - 1) * PartLength < size /\ size <= Count * PartLength

\* What R2 holds are the plan's parts; what the page counts as done R2 holds.
PartsHeld ==
    /\ DOMAIN bucket \subseteq 1 .. Count
    /\ \A k \in DOMAIN bucket : bucket[k] = PartRange(k, PartLength, size)
    /\ DOMAIN got \subseteq DOMAIN bucket
    /\ \A k \in DOMAIN got : got[k] = LengthOf(k)
    /\ confirmed = SumFunction(got)

\* The ranges still to be sent.
Waiting == UNION {ranges[i] : i \in DOMAIN ranges}

\* While parts are sent each is in one place; one that is in none was given up.
PartsPlaced ==
    /\ ranges \in Seq(SUBSET (1 .. Count)) /\ todo \subseteq 1 .. Count /\ DOMAIN partsUp \subseteq 1 .. Count
    /\ \A k \in DOMAIN partsUp : partsUp[k] \in 0 .. LengthOf(k)
    /\ phase = "sending" =>
          /\ DOMAIN got \cap (todo \cup DOMAIN partsUp \cup Waiting) = {}
          /\ todo \cap DOMAIN partsUp = {} /\ (todo \cup DOMAIN partsUp) \cap Waiting = {}
          /\ \A i, j \in DOMAIN ranges : i # j => ranges[i] \cap ranges[j] = {}
          /\ ~rejected => 1 .. Count \subseteq DOMAIN got \cup DOMAIN partsUp \cup todo \cup Waiting
    /\ phase # "sending" => todo = {} /\ partsUp = <<>>
    /\ phase = "done" => DOMAIN got = 1 .. Count
    /\ rejected \in BOOLEAN

PartsInv == PlanCovers /\ PartsHeld /\ PartsPlaced


\* A quotient rounded up.
LEMMA CeilDivFacts ==
    ASSUME NEW n \in Nat \ {0}, NEW d \in Nat \ {0}
    PROVE  /\ CeilDiv(n, d) \in Nat \ {0}
           /\ (CeilDiv(n, d) - 1) * d < n /\ n <= CeilDiv(n, d) * d
<1> DEFINE q == CeilDiv(n, d)
           r == (n + d - 1) % d
<1>1. n + d - 1 = d * q + r /\ r \in 0 .. d - 1 /\ q \in Int
  BY DEF CeilDiv
<1> HIDE DEF q, r
<1>2. q >= 1
  BY <1>1
<1>3. (q - 1) * d = d * q - d /\ q * d = d * q
  BY <1>1
<1> QED  BY <1>1, <1>2, <1>3 DEF q

\* Parts of this size are not too many.
LEMMA PlanFits ==
    ASSUME NEW n \in Nat \ {0}, NEW p \in Nat \ {0}
    PROVE  /\ PartSizeFor(n, p) \in Nat \ {0}
           /\ CeilDiv(n, PartSizeFor(n, p)) \in 1 .. MaxParts
<1>0. MaxParts \in Nat \ {0}
  BY PartsAssumption
<1>1. CASE CeilDiv(n, p) <= MaxParts
  BY <1>1, <1>0, CeilDivFacts DEF PartSizeFor
<1>2. CASE ~(CeilDiv(n, p) <= MaxParts)
  <2> DEFINE d == CeilDiv(n, MaxParts)
             q == CeilDiv(n, d)
  <2>1. d \in Nat \ {0} /\ n <= d * MaxParts
    BY <1>0, CeilDivFacts
  <2> HIDE DEF d
  <2>2. q \in Nat \ {0} /\ (q - 1) * d < n
    BY <2>1, CeilDivFacts
  <2> HIDE DEF q
  <2>3. (q - 1) * d < MaxParts * d
    BY <2>1, <2>2, <1>0
  <2>4. q - 1 < MaxParts
    BY <2>1, <2>2, <2>3, <1>0
  <2>5. PartSizeFor(n, p) = d
    BY <1>2 DEF PartSizeFor, d
  <2> QED  BY <1>0, <2>1, <2>2, <2>4, <2>5 DEF q
<1> QED  BY <1>1, <1>2

\* All parts but the last are of one length, and the last ends with the file.
LEMMA LengthFacts ==
    ASSUME PlanCovers
    PROVE  /\ \A k \in 1 .. Count :
                 /\ PartRange(k, PartLength, size) = [from |-> (k - 1) * PartLength, to |-> IF k < Count THEN k * PartLength ELSE size]
                 /\ LengthOf(k) = IF k < Count THEN PartLength ELSE size - (Count - 1) * PartLength
                 /\ LengthOf(k) \in 1 .. PartLength
<1> SUFFICES ASSUME NEW k \in 1 .. Count
             PROVE  /\ PartRange(k, PartLength, size) =
                           [from |-> (k - 1) * PartLength, to |-> IF k < Count THEN k * PartLength ELSE size]
                    /\ LengthOf(k) = IF k < Count THEN PartLength ELSE size - (Count - 1) * PartLength
                    /\ LengthOf(k) \in 1 .. PartLength
  OBVIOUS
<1>1. /\ size \in Nat \ {0} /\ PartLength \in Nat \ {0} /\ Count \in Nat \ {0}
      /\ (Count - 1) * PartLength < size /\ size <= Count * PartLength
  <2>1. MaxParts \in Nat
    BY PartsAssumption
  <2> QED  BY <2>1 DEF PlanCovers
<1>2. (k - 1) * PartLength \in Int /\ k * PartLength \in Int /\ (k - 1) * PartLength + PartLength = k * PartLength /\ (Count - 1) * PartLength \in Int
  BY <1>1
<1>3. PartRange(k, PartLength, size) =
          [from |-> (k - 1) * PartLength, to |-> IF k * PartLength <= size THEN k * PartLength ELSE size]
  BY <1>1, <1>2, MinOfTwo DEF PartRange
<1>4. CASE k < Count
  <2>1. k * PartLength <= (Count - 1) * PartLength
    BY <1>1, <1>4
  <2>2. k * PartLength <= size
    BY <1>1, <1>2, <2>1
  <2>3. PartRange(k, PartLength, size) = [from |-> (k - 1) * PartLength, to |-> k * PartLength]
    BY <1>3, <2>2
  <2>4. LengthOf(k) = k * PartLength - (k - 1) * PartLength
    BY <2>3 DEF LengthOf, PartLength
  <2> QED  BY <1>1, <1>2, <1>4, <2>3, <2>4
<1>5. CASE k = Count
  <2>1. PartRange(k, PartLength, size) = [from |-> (k - 1) * PartLength, to |-> size]
    <3>1. k * PartLength <= size => k * PartLength = size
      BY <1>1, <1>2, <1>5
    <3> QED  BY <1>3, <3>1
  <2>2. LengthOf(k) = size - (k - 1) * PartLength
    BY <2>1 DEF LengthOf, PartLength
  <2> QED  BY <1>1, <1>2, <1>5, <2>1, <2>2
<1> QED  BY <1>1, <1>4, <1>5

Lengths == [k \in 1 .. Count |-> LengthOf(k)]

\* The lengths are the file's.
LEMMA LengthsAreTheFile ==
    ASSUME PlanCovers
    PROVE  Summable(Lengths, 1 .. Count) /\ SumFunctionOnSet(Lengths, 1 .. Count) = size
<1>1. /\ size \in Nat \ {0} /\ PartLength \in Nat \ {0} /\ Count \in Nat \ {0}
      /\ (Count - 1) * PartLength < size /\ size <= Count * PartLength
  <2>1. MaxParts \in Nat
    BY PartsAssumption
  <2> QED  BY <2>1 DEF PlanCovers
<1>2. \A k \in 1 .. Count : Lengths[k] = (IF k < Count THEN PartLength ELSE size - (Count - 1) * PartLength) /\ Lengths[k] \in Int
  BY <1>1, LengthFacts DEF Lengths
<1>3. Summable(Lengths, 1 .. Count)
  BY <1>1, <1>2, FS_Interval DEF Summable
<1> DEFINE S(m) == SumFunctionOnSet(Lengths, 1 .. m)
           G == {m \in Nat : m < Count => S(m) = m * PartLength}
<1>4. \A m \in Nat : m < Count => S(m + 1) = Lengths[m + 1] + S(m) /\ S(m) \in Int
  <2> SUFFICES ASSUME NEW m \in Nat, m < Count
               PROVE  S(m + 1) = Lengths[m + 1] + S(m) /\ S(m) \in Int
    OBVIOUS
  <2>1. 1 .. m + 1 \in SUBSET (1 .. Count) /\ m + 1 \in 1 .. m + 1 /\ (1 .. m + 1) \ {m + 1} = 1 .. m
    BY <1>1
  <2>2. Summable(Lengths, 1 .. m + 1)
    BY <1>3, <2>1, SummablePart
  <2> DEFINE T == 1 .. m + 1
  <2>3. m + 1 \in T /\ T \ {m + 1} = 1 .. m /\ Summable(Lengths, T)
    BY <2>1, <2>2
  <2> HIDE DEF T
  <2>4. /\ SumFunctionOnSet(Lengths, T \ {m + 1}) \in Int
        /\ SumFunctionOnSet(Lengths, T) = Lengths[m + 1] + SumFunctionOnSet(Lengths, T \ {m + 1})
    BY <2>3, SumTakes
  <2> QED  BY <2>3, <2>4 DEF T
<1>5. 0 \in G
  <2>1. 1 .. 0 = {}
    OBVIOUS
  <2>2. S(0) = 0
    BY <2>1, SumOfNothing
  <2> QED  BY <1>1, <2>2
<1> HIDE DEF S
<1>6. ASSUME NEW m \in Nat, m \in G  PROVE m + 1 \in G
  <2>1. ASSUME m + 1 < Count  PROVE S(m + 1) = (m + 1) * PartLength
    <3>1. S(m) = m * PartLength /\ Lengths[m + 1] = PartLength /\ S(m + 1) = PartLength + m * PartLength
      BY <1>1, <1>2, <1>4, <1>6, <2>1
    <3> QED  BY <1>1, <3>1
  <2> QED  BY <2>1
<1> HIDE DEF G
<1>7. Count - 1 \in G
  BY <1>1, <1>5, <1>6, NaturalsInG
<1>8. S(Count - 1) = (Count - 1) * PartLength
  BY <1>1, <1>7 DEF G
<1>9. S(Count) = Lengths[Count] + S(Count - 1)
  <2>1. Count - 1 \in Nat /\ Count - 1 < Count /\ Count - 1 + 1 = Count
    BY <1>1
  <2> QED  BY <1>4, <2>1
<1>10. Lengths[Count] = size - (Count - 1) * PartLength /\ (Count - 1) * PartLength \in Int
  BY <1>1, <1>2
<1>11. S(Count) = size
  BY <1>1, <1>8, <1>9, <1>10
<1> QED  BY <1>3, <1>11 DEF S

-----------------------------------------------------------------------------
(* contiguousRanges.                                                       *)

\* A list of sets that share nothing and together are T.
Splits(r, T) ==
    /\ r \in Seq(SUBSET T)
    /\ \A i, j \in DOMAIN r : i # j => r[i] \cap r[j] = {}
    /\ \A n \in T : \E i \in DOMAIN r : n \in r[i]

\* A set before a list that splits the rest.
LEMMA SplitsAdd ==
    ASSUME NEW T, NEW U, U \subseteq T, NEW W, W \subseteq T \ U, NEW r, Splits(r, W), W = T \ U
    PROVE  Splits(<<U>> \o r, T)
<1>1. r \in Seq(SUBSET T) /\ U \in SUBSET T
  BY SeqMonotonic DEF Splits
<1> DEFINE s == <<U>> \o r
<1>2. <<U>> \in Seq(SUBSET T) /\ Len(<<U>>) = 1 /\ <<U>>[1] = U
  BY <1>1
<1>3. /\ s \in Seq(SUBSET T) /\ Len(s) = 1 + Len(r) /\ Len(r) \in Nat
      /\ \A i \in 1 .. 1 + Len(r) : s[i] = IF i <= 1 THEN U ELSE r[i - 1]
  BY <1>1, <1>2, ConcatProperties, LenProperties
<1>4. DOMAIN s = 1 .. 1 + Len(r) /\ DOMAIN r = 1 .. Len(r)
  BY <1>1, <1>3, LenProperties
<1>5. s[1] = U /\ \A i \in DOMAIN r : i + 1 \in DOMAIN s /\ s[i + 1] = r[i]
  BY <1>3, <1>4
<1>6. \A i \in DOMAIN s : i = 1 \/ (i - 1 \in DOMAIN r /\ s[i] = r[i - 1])
  BY <1>3, <1>4
<1>7. \A i \in DOMAIN r : r[i] \subseteq W
  BY <1>4, ElementOfSeq DEF Splits
<1> HIDE DEF s
<1>8. ASSUME NEW i \in DOMAIN s, NEW j \in DOMAIN s, i # j  PROVE s[i] \cap s[j] = {}
  <2>1. CASE i = 1
    <3>1. s[j] \subseteq W
      BY <1>6, <1>7, <1>8, <2>1
    <3> QED  BY <1>5, <2>1, <3>1
  <2>2. CASE j = 1
    <3>1. s[i] \subseteq W
      BY <1>6, <1>7, <1>8, <2>2
    <3> QED  BY <1>5, <2>2, <3>1
  <2>3. CASE i # 1 /\ j # 1
    <3>1. i - 1 \in DOMAIN r /\ j - 1 \in DOMAIN r /\ i - 1 # j - 1
      BY <1>3, <1>4, <1>6, <1>8, <2>3
    <3> QED  BY <1>6, <2>3, <3>1 DEF Splits
  <2> QED  BY <2>1, <2>2, <2>3
<1>9. ASSUME NEW n \in T  PROVE \E i \in DOMAIN s : n \in s[i]
  <2>1. CASE n \in U
    BY <1>3, <1>4, <1>5, <2>1
  <2>2. CASE n \in W
    BY <1>5, <2>2 DEF Splits
  <2> QED  BY <2>1, <2>2
<1> QED  BY <1>3, <1>8, <1>9 DEF Splits, s

\* What a range takes: a run from the first part on.
Run(T, maxLength) ==
    {n \in T : n < Min(T) + maxLength /\ Min(T) .. n \subseteq T}

\* The ranges of a set of parts name each of them in one range.
LEMMA RangesSplit ==
    ASSUME NEW numbers \in SUBSET Nat, IsFiniteSet(numbers), NEW m \in Nat \ {0}
    PROVE  Splits(ContiguousRanges(numbers, m), numbers)
<1> DEFINE V == Seq(SUBSET numbers)
           Rule(g) == g = [left \in SUBSET numbers |->
                              IF left = {} THEN <<>>
                              ELSE <<Run(left, m)>> \o g[left \ Run(left, m)]]
           cut == [T \in SUBSET numbers |-> IF T = {} THEN {} ELSE Run(T, m)]
           step == [p \in (SUBSET numbers) \X V |-> <<Run(p[1], m)>> \o p[2]]
           runs == CHOOSE g : Rule(g)
<1>1. \A T \in SUBSET numbers : T # {} => Run(T, m) # {} /\ Run(T, m) \subseteq T
  <2> SUFFICES ASSUME NEW T \in SUBSET numbers, T # {}
               PROVE  Run(T, m) # {} /\ Run(T, m) \subseteq T
    OBVIOUS
  <2>1. Min(T) \in T /\ Min(T) \in Nat
    BY MinOfSet
  <2>2. Min(T) < Min(T) + m /\ Min(T) .. Min(T) = {Min(T)}
    BY <2>1
  <2> QED  BY <2>1, <2>2 DEF Run
<1>2. CutsDown(numbers, cut)
  BY <1>1 DEF CutsDown
<1>3. step \in [(SUBSET numbers) \X V -> V]
  <2>1. ASSUME NEW p \in (SUBSET numbers) \X V  PROVE <<Run(p[1], m)>> \o p[2] \in V
    <3>1. p[2] \in V /\ Run(p[1], m) \in SUBSET numbers
      BY DEF Run
    <3>2. <<Run(p[1], m)>> \in V
      BY <3>1
    <3> QED  BY <3>1, <3>2, ConcatProperties
  <2> QED  BY <2>1
<1>4. PICK g \in [SUBSET numbers -> V] : SolvesRecursion(g, numbers, <<>>, cut, step)
  <2>1. <<>> \in V
    OBVIOUS
  <2> HIDE DEF V, cut, step
  <2> QED  BY <1>2, <1>3, <2>1, RecursionOverSubsets, Zenon
<1>5. Rule(g)
  <2>1. ASSUME NEW T \in SUBSET numbers, T # {}
        PROVE  g[T] = <<Run(T, m)>> \o g[T \ Run(T, m)]
    <3>1. g[T] = step[<<T, g[T \ cut[T]]>>] /\ cut[T] = Run(T, m)
      BY <1>4, <2>1 DEF SolvesRecursion
    <3>2. <<T, g[T \ Run(T, m)]>> \in (SUBSET numbers) \X V
      OBVIOUS
    <3> QED  BY <3>1, <3>2
  <2>2. g[{}] = <<>>
    BY <1>4 DEF SolvesRecursion
  <2>3. \A T \in SUBSET numbers :
            g[T] = IF T = {} THEN <<>> ELSE <<Run(T, m)>> \o g[T \ Run(T, m)]
    BY <2>1, <2>2
  <2>4. g = [T \in SUBSET numbers |-> g[T]]
    OBVIOUS
  <2> HIDE DEF V, cut, step
  <2> QED  BY <2>3, <2>4
<1>6. Rule(runs)
  <2> HIDE DEF Rule
  <2> QED  BY <1>5
<1>7. ContiguousRanges(numbers, m) = runs[numbers]
  BY DEF ContiguousRanges, Run
<1>8. /\ runs[{}] = <<>>
      /\ \A T \in SUBSET numbers : T # {} => runs[T] = <<Run(T, m)>> \o runs[T \ Run(T, m)]
  <2> DEFINE h == runs
  <2>1. Rule(h)
    BY <1>6
  <2> HIDE DEF h
  <2> QED  BY <2>1 DEF h
<1> HIDE DEF runs, V, cut, step, Rule
<1> DEFINE G == {T \in SUBSET numbers : Splits(runs[T], T)}
<1> HIDE DEF G
<1>9. ASSUME NEW T \in SUBSET numbers, \A U \in SUBSET T : U # T => U \in G  PROVE T \in G
  <2>1. CASE T = {}
    <3>1. Splits(<<>>, {})
      BY EmptySeq DEF Splits
    <3> QED  BY <1>8, <2>1, <3>1 DEF G
  <2>2. CASE T # {}
    <3> DEFINE W == T \ Run(T, m)
    <3>1. Run(T, m) # {} /\ Run(T, m) \subseteq T
      BY <1>1, <2>2
    <3>2. W \in SUBSET T /\ W # T
      BY <3>1
    <3>3. Splits(runs[W], W)
      BY <1>9, <3>2 DEF G
    <3>4. runs[T] = <<Run(T, m)>> \o runs[W]
      BY <1>8, <2>2
    <3>5. Splits(<<Run(T, m)>> \o runs[W], T)
      BY <3>1, <3>3, SplitsAdd
    <3> QED  BY <3>4, <3>5 DEF G
  <2> QED  BY <2>1, <2>2
<1>10. \A T \in SUBSET numbers : T \in G
  BY <1>9, SubsetsInG
<1>11. numbers \in SUBSET numbers
  OBVIOUS
<1> QED  BY <1>7, <1>10, <1>11 DEF G

-----------------------------------------------------------------------------
(* The transfer.                                                           *)

\* A function with one more entry.
LEMMA Put ==
    ASSUME NEW f, NEW k, NEW v
    PROVE  /\ DOMAIN SetAt(f, k, v) = {k} \cup DOMAIN f
           /\ SetAt(f, k, v)[k] = v
           /\ \A j \in DOMAIN f : j # k => SetAt(f, k, v)[j] = f[j]
BY DEF SetAt

\* A function without an entry.
LEMMA WithoutFacts ==
    ASSUME NEW f, NEW k
    PROVE  /\ DOMAIN Without(f, k) = DOMAIN f \ {k}
           /\ \A j \in DOMAIN f \ {k} : Without(f, k)[j] = f[j]
BY DEF Without, Restrict

\* While the plan is the same, so are its parts.
LEMMA PlanStays ==
    ASSUME PlanCovers, UNCHANGED <<size, stored>>
    PROVE  /\ PlanCovers' /\ PartLength' = PartLength /\ Count' = Count
           /\ \A k : LengthOf(k)' = LengthOf(k)
BY DEF PlanCovers, PartLength, Count, LengthOf, PartRange

\* The plan's numbers.
LEMMA PlanNumbers ==
    ASSUME PlanCovers
    PROVE  /\ size \in Nat \ {0} /\ PartLength \in Nat \ {0} /\ Count \in Nat \ {0} /\ Count <= MaxParts
           /\ IsFiniteSet(1 .. Count) /\ Count \in 1 .. Count
           /\ \A k \in 1 .. Count : LengthOf(k) \in Nat \ {0}
<1>1. MaxParts \in Nat
  BY PartsAssumption
<1>2. Count \in Nat \ {0} /\ Count <= MaxParts /\ PartLength \in Nat \ {0} /\ size \in Nat \ {0}
  BY <1>1 DEF PlanCovers
<1>3. \A k \in 1 .. Count : LengthOf(k) \in 1 .. PartLength
  BY LengthFacts
<1>4. IsFiniteSet(1 .. Count) /\ Count \in 1 .. Count
  BY <1>2, FS_Interval
<1>5. \A k \in 1 .. Count : LengthOf(k) \in Nat \ {0}
  BY <1>2, <1>3
<1> QED  BY <1>2, <1>4, <1>5

\* At the start.
LEMMA PartsBegin ==
    ASSUME PartsInit  PROVE PartsInv
<1>1. PICK old \in OldPartSizes : stored = PlanUpload(size, old)
  BY DEF PartsInit
<1>2. size \in Nat /\ old \in Nat \ {0} /\ Threshold \in Nat \ {0}
  BY PartsAssumption DEF PartsInit
<1>3. size >= Threshold
  BY <1>2 DEF PartsInit, PlanUpload
<1>4. size \in Nat \ {0}
  BY <1>2, <1>3
<1>5. PartLength = PartSizeFor(size, old) /\ Count = CeilDiv(size, PartLength)
  BY <1>1, <1>2, <1>3 DEF PlanUpload, PartLength, Count
<1>6. PartLength \in Nat \ {0} /\ Count \in 1 .. MaxParts
  BY <1>2, <1>4, <1>5, PlanFits
<1>7. PlanCovers
  BY <1>4, <1>5, <1>6, CeilDivFacts DEF PlanCovers
<1>8. PartsHeld
  <2>1. SumFunctionOnSet(<<>>, {}) = 0 /\ DOMAIN <<>> = {}
    BY SumOfNothing
  <2>2. SumFunction(<<>>) = 0
    BY <2>1 DEF SumFunction, SumFunctionOnSet, FoldFunction
  <2> QED  BY <2>1, <2>2 DEF PartsInit, PartsHeld
<1>9. PartsPlaced
  <2>1. <<>> \in Seq(SUBSET (1 .. Count)) /\ DOMAIN <<>> = {}
    OBVIOUS
  <2> QED  BY <2>1 DEF PartsInit, PartsPlaced
<1> QED  BY <1>7, <1>8, <1>9 DEF PartsInv

\* The transfer begins, or begins again from what R2 lists.
LEMMA BeginKeeps ==
    ASSUME PartsInv, BeginTransfer  PROVE PartsInv'
<1> USE DEF PartsInv
<1>1. PlanCovers' /\ PartLength' = PartLength /\ Count' = Count /\ \A k : LengthOf(k)' = LengthOf(k)
  BY PlanStays DEF BeginTransfer
<1>2. \A k \in 1 .. Count : PartRange(k, PartLength, size).to - PartRange(k, PartLength, size).from = LengthOf(k)
  BY DEF LengthOf, PartLength
<1>3. CASE phase' = "refused" /\ UNCHANGED <<ranges, got, confirmed>>
  <2>1. PartsHeld'
    BY <1>1, <1>3 DEF PartsHeld, BeginTransfer
  <2>2. PartsPlaced'
    BY <1>1, <1>3 DEF PartsPlaced, BeginTransfer
  <2> QED  BY <1>1, <2>1, <2>2
<1>4. CASE /\ phase' = "sending"
           /\ got' = [k \in DOMAIN bucket |-> bucket[k].to - bucket[k].from]
           /\ confirmed' = SumFunction(got')
           /\ ranges' = ContiguousRanges((1 .. stored.partCount) \ DOMAIN got', PresignChunk)
  <2>1. PartsHeld'
    <3>1. \A k \in DOMAIN got' : got'[k] = LengthOf(k)
      BY <1>2, <1>4 DEF PartsHeld
    <3>2. DOMAIN bucket' \subseteq 1 .. Count /\ \A k \in DOMAIN bucket' : bucket'[k] = PartRange(k, PartLength, size)
      BY DEF PartsHeld, BeginTransfer
    <3>3. PartLength' = PartLength /\ size' = size /\ bucket' = bucket /\ DOMAIN got' = DOMAIN bucket
      BY <1>1, <1>4 DEF BeginTransfer
    <3> QED  BY <1>1, <1>4, <3>1, <3>2, <3>3 DEF PartsHeld
  <2> DEFINE unsent == (1 .. Count) \ DOMAIN got'
  <2>2. Splits(ranges', unsent)
    <3>1. Count \in Nat /\ PresignChunk \in Nat \ {0} /\ IsFiniteSet(1 .. Count)
      BY PlanNumbers, PartsAssumption
    <3>2. unsent \in SUBSET Nat /\ IsFiniteSet(unsent)
      BY <3>1, FS_Subset
    <3> HIDE DEF unsent
    <3>3. Splits(ContiguousRanges(unsent, PresignChunk), unsent)
      BY <3>1, <3>2, RangesSplit
    <3> QED  BY <1>4, <3>3 DEF unsent, Count
  <2>3. ranges' \in Seq(SUBSET unsent)
    BY <2>2 DEF Splits
  <2>4. ranges' \in Seq(SUBSET (1 .. Count)) /\ \A i \in DOMAIN ranges' : ranges'[i] \subseteq unsent
    <3> HIDE DEF unsent
    <3>1. \A i \in DOMAIN ranges' : ranges'[i] \in SUBSET unsent
      BY <2>3, ElementOfSeq, LenProperties
    <3>2. unsent \subseteq 1 .. Count
      BY DEF unsent
    <3> QED  BY <2>3, <3>1, <3>2, SeqMonotonic
  <2>5. Waiting' = unsent
    <3> HIDE DEF unsent
    <3> QED  BY <2>2, <2>4 DEF Waiting, Splits
  <2>6. \A i, j \in DOMAIN ranges' : i # j => ranges'[i] \cap ranges'[j] = {}
    BY <2>2 DEF Splits
  <2>7. todo' = {} /\ partsUp' = <<>> /\ rejected' = FALSE /\ DOMAIN partsUp' = {}
    BY DEF BeginTransfer
  <2>8. PartsPlaced'
    BY <1>1, <1>4, <2>4, <2>5, <2>6, <2>7 DEF PartsPlaced
  <2> QED  BY <1>1, <2>1, <2>8
<1> QED  BY <1>3, <1>4 DEF BeginTransfer

\* Nothing that R2 or the page holds changes.
LEMMA HeldStays ==
    ASSUME PartsInv, UNCHANGED <<size, stored, bucket, got, confirmed>>
    PROVE  PlanCovers' /\ PartsHeld'
<1>1. PlanCovers' /\ PartLength' = PartLength /\ Count' = Count /\ \A k : LengthOf(k)' = LengthOf(k)
  BY PlanStays DEF PartsInv
<1> QED  BY <1>1 DEF PartsInv, PartsHeld

\* The next range.
LEMMA NextRangeKeeps ==
    ASSUME PartsInv, NextRange  PROVE PartsInv'
<1>1. PlanCovers' /\ PartsHeld'
  BY HeldStays DEF NextRange
<1>2. PartLength' = PartLength /\ Count' = Count /\ \A k : LengthOf(k)' = LengthOf(k)
  BY PlanStays DEF PartsInv, NextRange
<1>3. PartsPlaced /\ phase = "sending" /\ todo = {} /\ partsUp = <<>> /\ DOMAIN partsUp = {}
  BY DEF PartsInv, NextRange
<1>4. /\ DOMAIN got' = DOMAIN got /\ DOMAIN got \subseteq 1 .. Count
      /\ partsUp' = <<>> /\ DOMAIN partsUp' = {} /\ rejected' = rejected
  BY <1>3 DEF PartsInv, PartsHeld, NextRange
<1>5. CASE rejected /\ phase' = "failed" /\ UNCHANGED <<ranges, todo>>
  BY <1>1, <1>2, <1>3, <1>4, <1>5 DEF PartsInv, PartsPlaced
<1>6. CASE ~rejected /\ ranges = <<>> /\ phase' = "done" /\ UNCHANGED <<ranges, todo>>
  <2>1. Waiting = {}
    BY <1>6 DEF Waiting
  <2>2. DOMAIN got = 1 .. Count
    BY <1>3, <1>4, <1>6, <2>1 DEF PartsPlaced
  <2> QED  BY <1>1, <1>2, <1>3, <1>4, <1>6, <2>2 DEF PartsInv, PartsPlaced
<1>7. CASE /\ ~rejected /\ ranges # <<>> /\ UNCHANGED phase
           /\ ranges' = Tail(ranges) /\ todo' = Head(ranges)
  <2>1. ranges \in Seq(SUBSET (1 .. Count))
    BY <1>3 DEF PartsPlaced
  <2>2. /\ ranges' \in Seq(SUBSET (1 .. Count)) /\ Len(ranges) \in Nat \ {0}
        /\ Len(ranges') = Len(ranges) - 1
        /\ \A i \in 1 .. Len(ranges') : ranges'[i] = ranges[i + 1]
        /\ todo' = ranges[1] /\ ranges[1] \in SUBSET (1 .. Count)
    BY <1>7, <2>1, HeadTailProperties, LenProperties, EmptySeq, ElementOfSeq
  <2>3. DOMAIN ranges = 1 .. Len(ranges) /\ DOMAIN ranges' = 1 .. Len(ranges')
    BY <2>1, <2>2, LenProperties
  <2>4. /\ 1 \in DOMAIN ranges
        /\ \A i \in DOMAIN ranges' : i + 1 \in DOMAIN ranges /\ i + 1 # 1 /\ ranges'[i] = ranges[i + 1]
        /\ \A i \in DOMAIN ranges : i = 1 \/ (i - 1 \in DOMAIN ranges' /\ ranges[i] = ranges'[i - 1])
    BY <2>2, <2>3
  <2>5. \A i, j \in DOMAIN ranges : i # j => ranges[i] \cap ranges[j] = {}
    BY <1>3 DEF PartsPlaced
  <2>10. \A n : n \in Waiting <=> \E i \in DOMAIN ranges : n \in ranges[i]
    BY DEF Waiting
  <2>11. \A n : n \in Waiting' <=> \E i \in DOMAIN ranges' : n \in ranges'[i]
    BY DEF Waiting
  <2>6. Waiting = todo' \cup Waiting'
    <3>1. ASSUME NEW n, n \in Waiting  PROVE n \in todo' \cup Waiting'
      BY <2>2, <2>4, <2>10, <2>11, <3>1
    <3>2. ASSUME NEW n, n \in todo' \cup Waiting'  PROVE n \in Waiting
      <4>1. CASE n \in todo'
        BY <2>2, <2>4, <2>10, <4>1
      <4>2. CASE n \in Waiting'
        <5>1. PICK i \in DOMAIN ranges' : n \in ranges'[i]
          BY <2>11, <4>2
        <5>2. i + 1 \in DOMAIN ranges /\ n \in ranges[i + 1]
          BY <2>4, <5>1
        <5> QED  BY <2>10, <5>2
      <4> QED  BY <3>2, <4>1, <4>2
    <3> QED  BY <3>1, <3>2
  <2>7. todo' \cap Waiting' = {}
    <3>1. ASSUME NEW n \in todo', n \in Waiting'  PROVE FALSE
      <4>1. PICK i \in DOMAIN ranges' : n \in ranges'[i]
        BY <2>11, <3>1
      <4>2. ranges[1] \cap ranges[i + 1] = {}
        BY <2>4, <2>5
      <4> QED  BY <2>2, <2>4, <3>1, <4>1, <4>2
    <3> QED  BY <3>1
  <2>8. \A i, j \in DOMAIN ranges' : i # j => ranges'[i] \cap ranges'[j] = {}
    <3> SUFFICES ASSUME NEW i \in DOMAIN ranges', NEW j \in DOMAIN ranges', i # j
                 PROVE  ranges'[i] \cap ranges'[j] = {}
      OBVIOUS
    <3>1. i + 1 # j + 1
      BY <2>2, <2>3
    <3> QED  BY <2>4, <2>5, <3>1
  <2>9. PartsPlaced'
    BY <1>2, <1>3, <1>4, <1>7, <2>2, <2>6, <2>7, <2>8 DEF PartsPlaced
  <2> QED  BY <1>1, <2>9 DEF PartsInv
<1> QED  BY <1>5, <1>6, <1>7 DEF NextRange

\* The transfer breaks off.
LEMMA BreaksKeeps ==
    ASSUME PartsInv, TransferBreaks  PROVE PartsInv'
<1>1. PlanCovers' /\ PartsHeld'
  BY HeldStays DEF TransferBreaks
<1>2. PartLength' = PartLength /\ Count' = Count /\ \A k : LengthOf(k)' = LengthOf(k)
  BY PlanStays DEF PartsInv, TransferBreaks
<1>3. DOMAIN <<>> = {}
  OBVIOUS
<1>4. PartsPlaced'
  BY <1>2, <1>3 DEF PartsInv, PartsPlaced, TransferBreaks
<1> QED  BY <1>1, <1>4 DEF PartsInv

\* The pump begins a part.
LEMMA PartBeginsKeeps ==
    ASSUME PartsInv, PartBegins  PROVE PartsInv'
<1>1. PlanCovers' /\ PartsHeld'
  BY HeldStays DEF PartBegins
<1>2. PartLength' = PartLength /\ Count' = Count /\ \A k : LengthOf(k)' = LengthOf(k)
  BY PlanStays DEF PartsInv, PartBegins
<1>3. PartsPlaced /\ todo \subseteq 1 .. Count /\ todo # {} /\ Count \in Nat
  BY PlanNumbers DEF PartsInv, PartsPlaced, PartBegins
<1> DEFINE k == Min(todo)
<1>4. k \in todo
  BY <1>3, MinOfSet
<1>5. phase = "sending" /\ phase' = phase /\ todo' = todo \ {k} /\ partsUp' = SetAt(partsUp, k, 0)
  BY <1>3 DEF PartBegins, PartsPlaced
<1> HIDE DEF k
<1>6. k \notin DOMAIN partsUp
  BY <1>3, <1>4, <1>5 DEF PartsPlaced
<1>7. /\ DOMAIN partsUp' = {k} \cup DOMAIN partsUp /\ partsUp'[k] = 0
      /\ \A j \in DOMAIN partsUp : partsUp'[j] = partsUp[j]
  BY <1>5, <1>6 DEF SetAt
<1>8. 0 \in 0 .. LengthOf(k)
  BY <1>3, <1>4, PlanNumbers DEF PartsInv
<1>9. Waiting' = Waiting /\ DOMAIN got' = DOMAIN got /\ UNCHANGED <<ranges, rejected>>
  BY DEF Waiting, PartBegins
<1>10. \A j \in DOMAIN partsUp' : partsUp'[j] \in 0 .. LengthOf(j)
  BY <1>3, <1>7, <1>8 DEF PartsPlaced
<1>11. PartsPlaced'
  BY <1>2, <1>3, <1>4, <1>5, <1>7, <1>9, <1>10 DEF PartsPlaced
<1> QED  BY <1>1, <1>11 DEF PartsInv

\* Some bytes of a part are reported.
LEMMA ProgressKeeps ==
    ASSUME PartsInv, NEW k, PartProgress(k)  PROVE PartsInv'
<1>1. PlanCovers' /\ PartsHeld'
  BY HeldStays DEF PartProgress
<1>2. PartLength' = PartLength /\ Count' = Count /\ \A j : LengthOf(j)' = LengthOf(j)
  BY PlanStays DEF PartsInv, PartProgress
<1>3. PartsPlaced /\ k \in DOMAIN partsUp /\ k \in 1 .. Count /\ phase = "sending"
  BY DEF PartsInv, PartsPlaced, PartProgress
<1>4. /\ DOMAIN partsUp' = DOMAIN partsUp /\ partsUp'[k] = partsUp[k] + 1
      /\ \A j \in DOMAIN partsUp : j # k => partsUp'[j] = partsUp[j]
  BY DEF PartProgress
<1>5. partsUp'[k] \in 0 .. LengthOf(k)
  <2>1. partsUp[k] \in 0 .. LengthOf(k) /\ LengthOf(k) \in Nat /\ partsUp[k] < LengthOf(k)
    BY <1>3, PlanNumbers DEF PartsInv, PartsPlaced, PartProgress
  <2> QED  BY <1>4, <2>1
<1>6. \A j \in DOMAIN partsUp' : partsUp'[j] \in 0 .. LengthOf(j)
  BY <1>3, <1>4, <1>5 DEF PartsPlaced
<1>7. Waiting' = Waiting /\ DOMAIN got' = DOMAIN got /\ UNCHANGED <<ranges, rejected, phase, todo>>
  BY DEF Waiting, PartProgress
<1>8. PartsPlaced'
  BY <1>2, <1>3, <1>4, <1>6, <1>7 DEF PartsPlaced
<1> QED  BY <1>1, <1>8 DEF PartsInv

\* R2's parts with one more, which is the plan's.
LEMMA BucketWith ==
    ASSUME PartsInv, NEW k \in DOMAIN partsUp, UNCHANGED <<size, stored>>,
           bucket' = SetAt(bucket, k, PartRange(k, stored.partSize, size))
    PROVE  /\ PlanCovers' /\ PartLength' = PartLength /\ Count' = Count /\ (\A j : LengthOf(j)' = LengthOf(j))
           /\ k \in 1 .. Count /\ phase = "sending" /\ k \notin DOMAIN got /\ LengthOf(k) \in Nat
           /\ DOMAIN bucket' = DOMAIN bucket \cup {k} /\ (DOMAIN bucket)' \subseteq 1 .. Count
           /\ \A j \in DOMAIN bucket' : bucket'[j] = PartRange(j, PartLength, size)
<1>1. PlanCovers' /\ PartLength' = PartLength /\ Count' = Count /\ \A j : LengthOf(j)' = LengthOf(j)
  BY PlanStays DEF PartsInv
<1>2. k \in 1 .. Count /\ phase = "sending" /\ k \notin DOMAIN got
  BY DEF PartsInv, PartsPlaced
<1>3. LengthOf(k) \in Nat
  BY <1>2, PlanNumbers DEF PartsInv
<1>4. /\ DOMAIN bucket' = DOMAIN bucket \cup {k}
      /\ \A j \in DOMAIN bucket' : bucket'[j] = IF j = k THEN PartRange(k, PartLength, size) ELSE bucket[j]
  BY DEF SetAt, PartLength
<1>5. DOMAIN bucket \subseteq 1 .. Count /\ \A j \in DOMAIN bucket : bucket[j] = PartRange(j, PartLength, size)
  BY DEF PartsInv, PartsHeld
<1> QED  BY <1>1, <1>2, <1>3, <1>4, <1>5

\* R2 has a part and the page knows.
LEMMA LandsKeeps ==
    ASSUME PartsInv, NEW k, PartLands(k)  PROVE PartsInv'
<1>1. /\ PlanCovers' /\ PartLength' = PartLength /\ Count' = Count /\ (\A j : LengthOf(j)' = LengthOf(j))
      /\ k \in 1 .. Count /\ phase = "sending" /\ k \notin DOMAIN got /\ LengthOf(k) \in Nat
      /\ DOMAIN bucket' = DOMAIN bucket \cup {k} /\ (DOMAIN bucket)' \subseteq 1 .. Count
      /\ \A j \in DOMAIN bucket' : bucket'[j] = PartRange(j, PartLength, size)
  BY BucketWith DEF PartLands
<1>2. /\ DOMAIN got' = DOMAIN got \cup {k} /\ got'[k] = LengthOf(k)
      /\ \A j \in DOMAIN got : got'[j] = got[j]
  BY <1>1 DEF PartLands, SetAt
<1>3. /\ DOMAIN got \subseteq DOMAIN bucket /\ DOMAIN got \subseteq 1 .. Count
      /\ \A j \in DOMAIN got : got[j] = LengthOf(j)
      /\ confirmed = SumFunction(got) /\ confirmed' = confirmed + LengthOf(k)
  BY DEF PartsInv, PartsHeld, PartLands
<1>4. IsFiniteSet(1 .. Count) /\ \A j \in 1 .. Count : LengthOf(j) \in Nat
  BY PlanNumbers DEF PartsInv
<1>5. confirmed' = SumFunction(got')
  <2> DEFINE D == DOMAIN got \cup {k}
  <2>0. D \in SUBSET (1 .. Count) /\ D \ {k} = DOMAIN got /\ k \in D /\ DOMAIN got \in SUBSET D
    BY <1>1, <1>3
  <2>1. IsFiniteSet(D) /\ IsFiniteSet(DOMAIN got)
    BY <1>4, <2>0, FS_Subset
  <2>7. (\A j \in D : got'[j] \in Int) /\ \A j \in DOMAIN got : got[j] \in Int
    BY <1>1, <1>2, <1>3, <1>4
  <2>2. Summable(got', D) /\ Summable(got, D \ {k})
    BY <2>0, <2>1, <2>7 DEF Summable
  <2>3. SumFunction(got') = SumFunctionOnSet(got', D) /\ SumFunction(got) = SumFunctionOnSet(got, D \ {k})
    BY <1>2, <2>0 DEF SumFunction
  <2> HIDE DEF D
  <2>4. SumFunctionOnSet(got', D) = LengthOf(k) + SumFunctionOnSet(got', D \ {k})
    BY <1>2, <2>0, <2>2, SumTakes
  <2>5. SumFunctionOnSet(got', D \ {k}) = SumFunctionOnSet(got, D \ {k})
    BY <1>2, <2>0, <2>2, SumOfSame
  <2>6. SumFunctionOnSet(got, D \ {k}) \in Int
    BY <2>2, SumIsStep
  <2> QED  BY <1>1, <1>3, <2>3, <2>4, <2>5, <2>6
<1>6. PartsHeld'
  <2>1. size' = size
    BY DEF PartLands
  <2> QED  BY <1>1, <1>2, <1>3, <1>5, <2>1 DEF PartsHeld
<1>7. DOMAIN partsUp' = DOMAIN partsUp \ {k} /\ \A j \in DOMAIN partsUp' : partsUp'[j] = partsUp[j]
  BY WithoutFacts DEF PartLands
<1>8. Waiting' = Waiting /\ UNCHANGED <<ranges, rejected, phase, todo>> /\ k \in DOMAIN partsUp
  BY DEF Waiting, PartLands
<1>9. PartsPlaced'
  BY <1>1, <1>2, <1>7, <1>8 DEF PartsInv, PartsPlaced
<1> QED  BY <1>1, <1>6, <1>9 DEF PartsInv

\* A PUT fails, or its answer is lost.
LEMMA FailsKeeps ==
    ASSUME PartsInv, NEW k, NEW committed, NEW what \in {"retry", "represign", "give up"},
           PartFails(k, committed, what)
    PROVE  PartsInv'
<1>0. k \in DOMAIN partsUp /\ UNCHANGED <<size, stored, phase, ranges, todo, got, confirmed>>
  BY DEF PartFails
<1>1. /\ PlanCovers' /\ PartLength' = PartLength /\ Count' = Count /\ \A j : LengthOf(j)' = LengthOf(j)
      /\ (DOMAIN bucket)' \subseteq 1 .. Count /\ DOMAIN bucket \subseteq DOMAIN bucket'
      /\ \A j \in DOMAIN bucket' : bucket'[j] = PartRange(j, PartLength, size)
  <2>1. CASE committed
    <3>1. bucket' = SetAt(bucket, k, PartRange(k, stored.partSize, size))
      BY <2>1 DEF PartFails
    <3> QED  BY <1>0, <3>1, BucketWith
  <2>2. CASE ~committed
    <3>1. bucket' = bucket
      BY <2>2 DEF PartFails
    <3> QED  BY <1>0, <3>1, PlanStays DEF PartsInv, PartsHeld
  <2> QED  BY <2>1, <2>2
<1>2. PartsHeld'
  BY <1>0, <1>1 DEF PartsInv, PartsHeld
<1>9. DOMAIN <<>> = {}
  BY NoEntries
<1>8. k \in DOMAIN partsUp /\ DOMAIN <<>> = {}
  BY <1>0, <1>9, Zenon
<1>7. PlanCovers /\ PartsPlaced /\ k \in 1 .. Count /\ phase = "sending"
  BY <1>8 DEF PartsInv, PartsPlaced
<1>3. PartsPlaced /\ k \in 1 .. Count /\ phase = "sending" /\ LengthOf(k) \in Nat
  <2>1. LengthOf(k) \in Nat \ {0}
    BY <1>7, PlanNumbers
  <2> QED  BY <1>7, <2>1
<1>4. Waiting' = Waiting
  BY <1>0 DEF Waiting
<1>5. /\ \A j \in DOMAIN partsUp' : partsUp'[j] \in 0 .. LengthOf(j)
      /\ DOMAIN partsUp' \subseteq DOMAIN partsUp /\ rejected' \in BOOLEAN
      /\ ~rejected' => ~rejected /\ DOMAIN partsUp' = DOMAIN partsUp
  <2>1. \A j \in DOMAIN partsUp : partsUp[j] \in 0 .. LengthOf(j)
    BY <1>3 DEF PartsPlaced
  <2>2. rejected' = (rejected \/ what = "give up") /\ rejected \in BOOLEAN
    BY <1>3 DEF PartFails, PartsPlaced
  <2>3. CASE what = "retry"
    BY <2>1, <2>2, <2>3 DEF PartFails
  <2>4. CASE what = "represign"
    <3>1. partsUp' = [partsUp EXCEPT ![k] = 0]
      BY <2>4 DEF PartFails
    <3> QED  BY <1>3, <2>1, <2>2, <2>4, <3>1
  <2>5. CASE what = "give up"
    <3>1. partsUp' = Without(partsUp, k) /\ rejected'
      BY <2>2, <2>5 DEF PartFails
    <3>2. DOMAIN partsUp' = DOMAIN partsUp \ {k} /\ \A j \in DOMAIN partsUp' : partsUp'[j] = partsUp[j]
      BY <3>1, WithoutFacts
    <3> QED  BY <2>1, <2>2, <3>1, <3>2
  <2> QED  BY <2>3, <2>4, <2>5
<1>6. PartsPlaced'
  BY <1>0, <1>1, <1>3, <1>4, <1>5 DEF PartsPlaced
<1> QED  BY <1>1, <1>2, <1>6 DEF PartsInv

\* The invariant is kept.
LEMMA PartsStep ==
    ASSUME PartsInv, [PartsNext]_partVars  PROVE PartsInv'
<1>1. CASE BeginTransfer
  BY <1>1, BeginKeeps
<1>2. CASE NextRange
  BY <1>2, NextRangeKeeps
<1>3. CASE TransferBreaks
  BY <1>3, BreaksKeeps
<1>4. CASE PartBegins
  BY <1>4, PartBeginsKeeps
<1>5. ASSUME NEW k \in DOMAIN partsUp, PartProgress(k) \/ PartLands(k)  PROVE PartsInv'
  BY <1>5, ProgressKeeps, LandsKeeps
<1>6. ASSUME NEW k \in DOMAIN partsUp, NEW committed \in BOOLEAN,
             NEW what \in {"retry", "represign", "give up"}, PartFails(k, committed, what)
      PROVE  PartsInv'
  BY <1>6, FailsKeeps
<1>7. CASE UNCHANGED partVars
  <2>1. UNCHANGED <<size, stored, bucket, got, confirmed, phase, ranges, todo, partsUp, rejected>>
    BY <1>7 DEF partVars
  <2>2. PlanCovers' /\ PartsHeld' /\ PartLength' = PartLength /\ Count' = Count /\ \A k : LengthOf(k)' = LengthOf(k)
    BY <2>1, HeldStays, PlanStays DEF PartsInv
  <2>3. PartsPlaced'
    BY <2>1, <2>2 DEF PartsInv, PartsPlaced, Waiting
  <2> QED  BY <2>2, <2>3 DEF PartsInv
<1> QED  BY <1>1, <1>2, <1>3, <1>4, <1>5, <1>6, <1>7 DEF PartsNext

-----------------------------------------------------------------------------
(* What the invariant says of the file.                                    *)

\* What is shown is of the file, and done is all of it.
LEMMA ProgressWithinFile ==
    ASSUME PartsInv
    PROVE  /\ phase = "sending" => confirmed + SumFunction(partsUp) <= size
           /\ phase = "done" => confirmed = size
<1>1. /\ Summable(Lengths, 1 .. Count) /\ SumFunctionOnSet(Lengths, 1 .. Count) = size
      /\ IsFiniteSet(1 .. Count) /\ size \in Nat /\ \A k \in 1 .. Count : LengthOf(k) \in Nat
  BY LengthsAreTheFile, PlanNumbers DEF PartsInv
<1>2. \A k \in 1 .. Count : Lengths[k] = LengthOf(k)
  BY DEF Lengths
<1>3. /\ DOMAIN got \in SUBSET (1 .. Count) /\ \A k \in DOMAIN got : got[k] = LengthOf(k)
      /\ confirmed = SumFunctionOnSet(got, DOMAIN got)
  BY DEF PartsInv, PartsHeld, SumFunction
<1>4. confirmed = SumFunctionOnSet(Lengths, DOMAIN got)
  <2>1. Summable(Lengths, DOMAIN got)
    BY <1>1, <1>3, SummablePart
  <2>2. \A k \in DOMAIN got : got[k] = Lengths[k]
    BY <1>2, <1>3
  <2> QED  BY <1>3, <2>1, <2>2, SumOfSame
<1>5. CASE phase = "sending"
  <2> DEFINE U == DOMAIN partsUp
             F == DOMAIN got \cup U
  <2>1. U \in SUBSET (1 .. Count) /\ U \cap DOMAIN got = {} /\ \A k \in U : partsUp[k] \in 0 .. LengthOf(k)
    BY <1>5 DEF PartsInv, PartsPlaced
  <2>2. F \in SUBSET (1 .. Count) /\ F \ DOMAIN got = U /\ DOMAIN got \in SUBSET F
    BY <1>3, <2>1
  <2>3. Summable(Lengths, F) /\ Summable(Lengths, U) /\ Summable(partsUp, U)
    <3>1. Summable(Lengths, F) /\ Summable(Lengths, U)
      BY <1>1, <2>1, <2>2, SummablePart
    <3>2. \A k \in U : partsUp[k] \in Int
      BY <2>1
    <3> QED  BY <3>1, <3>2 DEF Summable
  <2> HIDE DEF F, U
  <2>4. SumFunctionOnSet(partsUp, U) <= SumFunctionOnSet(Lengths, U)
    <3>1. \A k \in U : partsUp[k] <= Lengths[k]
      BY <1>1, <1>2, <2>1
    <3> QED  BY <2>3, <3>1, SumIsMonotone
  <2>5. SumFunctionOnSet(Lengths, F) = confirmed + SumFunctionOnSet(Lengths, U)
    BY <1>4, <2>2, <2>3, SumOfUnion
  <2>6. SumFunctionOnSet(Lengths, F) <= size
    <3>1. \A k \in (1 .. Count) \ F : Lengths[k] >= 0
      BY <1>1, <1>2
    <3>2. /\ SumFunctionOnSet(Lengths, (1 .. Count)) = SumFunctionOnSet(Lengths, F) + SumFunctionOnSet(Lengths, (1 .. Count) \ F)
          /\ SumFunctionOnSet(Lengths, F) \in Int /\ SumFunctionOnSet(Lengths, (1 .. Count) \ F) \in Int
      BY <1>1, <2>2, SumOfUnion
    <3>3. SumFunctionOnSet(Lengths, (1 .. Count) \ F) >= 0
      <4> DEFINE E == (1 .. Count) \ F
      <4>1. Summable(Lengths, E)
        BY <1>1, SummablePart
      <4>2. \A k \in E : Lengths[k] >= 0
        BY <3>1
      <4> HIDE DEF E
      <4>3. SumFunctionOnSet(Lengths, E) >= 0
        BY <4>1, <4>2, SumIsNatural
      <4> QED  BY <4>3 DEF E
    <3> QED  BY <1>1, <3>2, <3>3
  <2>7. /\ SumFunctionOnSet(Lengths, U) \in Int /\ SumFunctionOnSet(partsUp, U) \in Int
        /\ confirmed \in Int
    <3>1. Summable(Lengths, DOMAIN got)
      BY <1>1, <1>3, SummablePart
    <3>2. \A D : Summable(Lengths, D) => SumFunctionOnSet(Lengths, D) \in Int
      BY SumIsStep
    <3>3. SumFunctionOnSet(partsUp, U) \in Int
      BY <2>3, SumIsStep
    <3> QED  BY <1>4, <2>3, <3>1, <3>2, <3>3
  <2>8. SumFunction(partsUp) = SumFunctionOnSet(partsUp, U)
    BY DEF SumFunction, U
  <2> QED  BY <1>1, <1>5, <2>4, <2>5, <2>6, <2>7, <2>8
<1>6. CASE phase = "done"
  BY <1>1, <1>4, <1>6 DEF PartsInv, PartsPlaced
<1>7. CASE phase \notin {"sending", "done"}
  BY <1>7
<1> QED  BY <1>5, <1>6, <1>7

\* What is assembled is the file.
LEMMA PartsInvIsTheFile ==
    ASSUME PartsInv  PROVE PartsAreTheFile
<1>1. /\ size \in Nat \ {0} /\ PartLength \in Nat \ {0} /\ Count \in Nat \ {0} /\ Count <= MaxParts
      /\ Count = stored.partCount
  BY PlanNumbers DEF PartsInv, Count
<1>2. \A k \in 1 .. Count :
          /\ PartRange(k, PartLength, size) = [from |-> (k - 1) * PartLength, to |-> IF k < Count THEN k * PartLength ELSE size]
          /\ LengthOf(k) = IF k < Count THEN PartLength ELSE size - (Count - 1) * PartLength
          /\ LengthOf(k) \in 1 .. PartLength
  BY LengthFacts DEF PartsInv
<1>3. ASSUME phase = "done"
      PROVE  /\ DOMAIN got = 1 .. Count /\ Count <= MaxParts
             /\ \A k \in 1 .. Count : bucket[k].to - bucket[k].from = got[k]
             /\ \A k \in 1 .. Count - 1 : got[k] = got[1] /\ bucket[k].to = bucket[k + 1].from
             /\ bucket[1].from = 0 /\ bucket[Count].to = size /\ got[Count] \in 1 .. got[1]
  <2>1. /\ DOMAIN got = 1 .. Count /\ 1 .. Count \subseteq DOMAIN bucket
        /\ \A k \in 1 .. Count : bucket[k] = PartRange(k, PartLength, size) /\ got[k] = LengthOf(k)
    BY <1>3 DEF PartsInv, PartsPlaced, PartsHeld
  <2>2. \A k \in 1 .. Count : bucket[k].to - bucket[k].from = got[k]
    BY <2>1 DEF LengthOf, PartLength
  <2>3. /\ \A k \in 1 .. Count : bucket[k].from = (k - 1) * PartLength
        /\ \A k \in 1 .. Count - 1 : bucket[k].to = k * PartLength
        /\ bucket[Count].to = size
    <3>1. ASSUME NEW k \in 1 .. Count
          PROVE  bucket[k].from = (k - 1) * PartLength /\ bucket[k].to = IF k < Count THEN k * PartLength ELSE size
      BY <1>2, <2>1
    <3>2. Count \in 1 .. Count /\ ~(Count < Count) /\ \A k \in 1 .. Count - 1 : k \in 1 .. Count /\ k < Count
      BY <1>1
    <3> QED  BY <3>1, <3>2
  <2>4. ASSUME NEW k \in 1 .. Count - 1  PROVE got[k] = got[1] /\ bucket[k].to = bucket[k + 1].from
    <3>1. k \in 1 .. Count /\ 1 \in 1 .. Count /\ k + 1 \in 1 .. Count /\ k < Count /\ 1 < Count /\ (k + 1) - 1 = k
      BY <1>1
    <3> QED  BY <1>2, <2>1, <2>3, <3>1
  <2>5. bucket[1].from = 0 /\ got[Count] \in 1 .. got[1]
    <3>1. 1 \in 1 .. Count /\ Count \in 1 .. Count /\ (1 - 1) * PartLength = 0
      BY <1>1
    <3>2. bucket[1].from = 0
      BY <2>3, <3>1
    <3>3. got[1] = IF 1 < Count THEN PartLength ELSE got[Count]
      BY <1>1, <1>2, <2>1, <3>1
    <3>4. got[Count] \in 1 .. PartLength
      BY <1>2, <2>1, <3>1
    <3> QED  BY <1>1, <3>2, <3>3, <3>4
  <2> QED  BY <1>1, <2>1, <2>2, <2>3, <2>4, <2>5
<1>4. /\ phase = "sending" => confirmed + SumFunction(partsUp) <= size
      /\ phase = "done" => confirmed = size
  BY ProgressWithinFile
<1> QED  BY <1>1, <1>3, <1>4 DEF PartsAreTheFile

\* What complete assembles is the file, whatever was interrupted, lost or sent
\* twice, and the progress shown is never more than there is of it
\* (transferMultipart, uploader.ts:540-640; planUpload, upload-policy.ts).
THEOREM TransferIsTheFile ==
    PartsSpec => []PartsAreTheFile
<1>1. PartsInit => PartsInv
  BY PartsBegin
<1>2. PartsInv /\ [PartsNext]_partVars => PartsInv'
  BY PartsStep
<1>3. PartsInv => PartsAreTheFile
  BY PartsInvIsTheFile
<1> QED  BY <1>1, <1>2, <1>3, PTL DEF PartsSpec

\* The plan has no more parts than R2 takes, and what was sent are parts of it.
THEOREM TransferTypeOK ==
    PartsSpec => []PartsTypeOK
<1>1. PartsInit => PartsInv
  BY PartsBegin
<1>2. PartsInv /\ [PartsNext]_partVars => PartsInv'
  BY PartsStep
<1>3. PartsInv => PartsTypeOK
  <2> SUFFICES ASSUME PartsInv  PROVE PartsTypeOK
    OBVIOUS
  <2>1. stored.partCount \in 1 .. MaxParts
    BY DEF PartsInv, PlanCovers, Count
  <2>2. DOMAIN bucket \subseteq 1 .. stored.partCount /\ DOMAIN got \subseteq DOMAIN bucket
    BY DEF PartsInv, PartsHeld, Count
  <2> QED  BY <2>1, <2>2 DEF PartsTypeOK
<1> QED  BY <1>1, <1>2, <1>3, PTL DEF PartsSpec

(***************************************************************************)
(* The archive of a crate.                                                 *)
(***************************************************************************)

\* What the archive is made of.
Records == [name : Int, size : Nat, start : Nat, zip64 : BOOLEAN]
Pieces ==
    [is : {"header"}, name : Int, extra : BOOLEAN, len : Nat]
    \cup [is : {"data"}, len : Nat] \cup [is : {"descriptor"}, size : Nat, len : Nat]
    \cup [is : {"central"}, name : Int, size : Nat, at : Nat, extraSize : Seq(Nat),
          extraAt : Seq(Nat), len : Nat]
    \cup [is : {"end"}, at : Nat, len : Nat, extraAt : Seq(Nat)]

\* The plan names some of the rows, and each once.
PlanOfRows ==
    /\ plan \in Seq(1 .. MaxRows) /\ Len(plan) <= MaxRows
    /\ \A i, j \in DOMAIN plan : i # j => plan[i] # plan[j]
    /\ turn \in 1 .. Len(plan) + 2
    /\ turn = Len(plan) + 2 => missing # <<>>
    /\ zipPhase = "asked" => turn = 1 /\ missing = <<>>

\* What the writer holds: an entry's 32-bit fields are enough for it.
Fits(r, length) == ~r.zip64 => length <= U32Max /\ r.start <= U32Max
WriterHolds ==
    /\ zipPhase \in {"asked", "refused", "next", "body", "closed", "broken", "cancelled"}
    /\ out \in Seq(Pieces) /\ central \in Seq(Records) /\ missing \in Seq(1 .. MaxRows)
    /\ offset \in Nat
    /\ entry \in [name : -1 .. MaxRows, start : Nat, written : Nat, zip64 : BOOLEAN]
    /\ zipPhase = "asked" => central = <<>> /\ out = <<>> /\ bodies = <<>> /\ offset = 0
    /\ zipPhase \in {"asked", "refused", "next", "closed"} => entry = NoEntry
    /\ zipPhase = "body" => entry.name # -1 /\ Fits(entry, entry.written)
    /\ \A k \in DOMAIN central : Fits(central[k], central[k].size)
    /\ bodies = [k \in DOMAIN central |-> <<central[k].name, central[k].size>>]

\* A header for r at h, and the whole of r's entry from h to its descriptor at d.
HeaderLies(h, r) ==
    /\ h \in DOMAIN out /\ out[h].is = "header"
    /\ out[h].name = r.name /\ out[h].extra = r.zip64 /\ StartOf(h) = r.start
EntryLies(h, d, r) ==
    /\ HeaderLies(h, r)
    /\ d \in DOMAIN out /\ h < d /\ out[d].is = "descriptor" /\ out[d].size = r.size
    /\ \A i \in h + 1 .. d - 1 : out[i].is = "data"

\* While it is written the archive is the entries, one behind the other: e[k] is
\* where entry k ends.
LaidOut(e) ==
    /\ e[0] = 0
    /\ \A k \in 1 .. Len(central) : EntryLies(e[k - 1] + 1, e[k], central[k])
    /\ zipPhase = "next" => e[Len(central)] = Len(out) /\ StartOf(Len(out) + 1) = offset
    /\ zipPhase = "body" =>
          /\ HeaderLies(e[Len(central)] + 1, entry)
          /\ \A i \in e[Len(central)] + 2 .. Len(out) : out[i].is = "data"
          /\ StartOf(Len(out) + 1) = offset + entry.written

Laid == \E e \in [0 .. Len(central) -> 0 .. Len(out)] : LaidOut(e)

\* The tracks passed so far that have an entry, and those that have none.
Found == {i \in DOMAIN plan : i < turn /\ plan[i] \notin ToSet(missing)}
Lost  == {i \in DOMAIN plan : i < turn /\ plan[i] \in ToSet(missing)}

\* The names written so far.
Names ==
    LET written == [k \in DOMAIN central |-> central[k].name]
    IN  IF zipPhase = "body" THEN Append(written, entry.name) ELSE written

\* Each track passed is an entry or is missing; the manifest is the last entry.
Accounted ==
    /\ missing = Only(plan, Lost)
    /\ Names = IF turn = Len(plan) + 2 THEN Append(Only(plan, Found), Manifest) ELSE Only(plan, Found)

ZipInv ==
    /\ PlanOfRows /\ WriterHolds
    /\ zipPhase \in {"next", "body"} => Accounted /\ Laid
    /\ ArchiveIsWhole

-----------------------------------------------------------------------------
(* Places in the archive.                                                  *)

\* What every piece has.
LEMMA PieceFacts ==
    /\ \A p \in Pieces : p.len \in Nat
    /\ \A n \in Int, x \in BOOLEAN, l \in Nat :
           [is |-> "header", name |-> n, extra |-> x, len |-> l] \in Pieces
    /\ \A l \in Nat : [is |-> "data", len |-> l] \in Pieces
    /\ \A s \in Nat, l \in Nat : [is |-> "descriptor", size |-> s, len |-> l] \in Pieces
<1>1. \A p \in Pieces : p.len \in Nat
  BY DEF Pieces
<1>2. \A n \in Int, x \in BOOLEAN, l \in Nat :
           [is |-> "header", name |-> n, extra |-> x, len |-> l] \in Pieces
  BY DEF Pieces
<1>3. \A l \in Nat : [is |-> "data", len |-> l] \in Pieces
  BY DEF Pieces
<1>4. \A s \in Nat, l \in Nat : [is |-> "descriptor", size |-> s, len |-> l] \in Pieces
  BY DEF Pieces
<1> QED  BY <1>1, <1>2, <1>3, <1>4

\* How much of s comes before its i-th piece.
Before(s, i) == SumFunctionOnSet([j \in DOMAIN s |-> s[j].len], 1 .. i - 1)

\* A piece begins where the one before it ends.
LEMMA BeforeFacts ==
    ASSUME NEW s \in Seq(Pieces)
    PROVE  /\ Before(s, 1) = 0
           /\ \A i \in 1 .. Len(s) + 1 : Before(s, i) \in Nat
           /\ \A i \in 1 .. Len(s) : Before(s, i + 1) = Before(s, i) + s[i].len
<1> DEFINE f == [j \in DOMAIN s |-> s[j].len]
<1>1. Len(s) \in Nat /\ DOMAIN s = 1 .. Len(s) /\ \A j \in DOMAIN s : s[j] \in Pieces
  BY LenProperties, ElementOfSeq
<1>2. \A j \in 1 .. Len(s) : f[j] \in Nat /\ f[j] = s[j].len
  BY <1>1, PieceFacts
<1> HIDE DEF f
<1>3. \A i \in 1 .. Len(s) + 1 : Summable(f, 1 .. i - 1) /\ \A j \in 1 .. i - 1 : f[j] >= 0
  <2> TAKE i \in 1 .. Len(s) + 1
  <2>1. IsFiniteSet(1 .. i - 1)
    BY <1>1, FS_Interval
  <2>2. \A j \in 1 .. i - 1 : f[j] \in Nat
    BY <1>1, <1>2
  <2> QED  BY <2>1, <2>2 DEF Summable
<1>4. ASSUME NEW i \in 1 .. Len(s) + 1  PROVE SumFunctionOnSet(f, 1 .. i - 1) \in Nat
  BY <1>3, SumIsNatural
<1>5. 1 .. 1 - 1 = {} /\ SumFunctionOnSet(f, {}) = 0
  BY SumOfNothing
<1>6. ASSUME NEW i \in 1 .. Len(s)
      PROVE  SumFunctionOnSet(f, 1 .. (i + 1) - 1) = SumFunctionOnSet(f, 1 .. i - 1) + f[i]
  <2> DEFINE T == 1 .. (i + 1) - 1
  <2>1. i \in T /\ T \ {i} = 1 .. i - 1 /\ Summable(f, T) /\ f[i] \in Int
    <3>1. i \in Nat /\ i + 1 \in 1 .. Len(s) + 1 /\ (i + 1) - 1 = i /\ i >= 1
      BY <1>1
    <3>2. Summable(f, T)
      BY <1>3, <3>1
    <3>3. T = 1 .. i
      BY <3>1
    <3>4. i \in T /\ T \ {i} = 1 .. i - 1
      BY <3>1, <3>3
    <3>5. f[i] \in Int
      BY <3>2, <3>4 DEF Summable
    <3> QED  BY <3>2, <3>4, <3>5
  <2>2. SumFunctionOnSet(f, 1 .. i - 1) \in Int
    BY <1>1, <1>4
  <2> HIDE DEF T
  <2>3. SumFunctionOnSet(f, T) = f[i] + SumFunctionOnSet(f, T \ {i})
    BY <2>1, SumTakes
  <2>4. SumFunctionOnSet(f, T) = SumFunctionOnSet(f, 1 .. i - 1) + f[i]
    <3> DEFINE a == SumFunctionOnSet(f, T)
               b == SumFunctionOnSet(f, 1 .. i - 1)
               c == f[i]
    <3>1. SumFunctionOnSet(f, T \ {i}) = b
      BY <2>1
    <3>2. a = c + b /\ b \in Int /\ c \in Int
      BY <2>1, <2>2, <2>3, <3>1
    <3> HIDE DEF a, b, c
    <3>3. a = b + c
      BY <3>2
    <3> QED  BY <3>3 DEF a, b, c
  <2> QED  BY <2>4 DEF T
<1> QED  BY <1>1, <1>2, <1>4, <1>5, <1>6 DEF f, Before

\* Where a piece begins depends on the pieces before it only.
LEMMA BeforeSame ==
    ASSUME NEW s \in Seq(Pieces), NEW t \in Seq(Pieces), NEW n \in Nat,
           n <= Len(s), n <= Len(t), \A j \in 1 .. n : s[j] = t[j]
    PROVE  \A i \in 1 .. n + 1 : Before(s, i) = Before(t, i)
<1> SUFFICES ASSUME NEW i \in 1 .. n + 1  PROVE Before(s, i) = Before(t, i)
  OBVIOUS
<1> DEFINE f == [j \in DOMAIN s |-> s[j].len]
           g == [j \in DOMAIN t |-> t[j].len]
           T == 1 .. i - 1
<1>1. /\ Len(s) \in Nat /\ DOMAIN s = 1 .. Len(s) /\ \A j \in DOMAIN s : s[j] \in Pieces
      /\ Len(t) \in Nat /\ DOMAIN t = 1 .. Len(t)
  BY LenProperties, ElementOfSeq
<1>5. T \subseteq 1 .. n /\ T \subseteq DOMAIN s /\ T \subseteq DOMAIN t
  BY <1>1
<1>6. IsFiniteSet(T)
  BY FS_Interval
<1>2. T \subseteq 1 .. n /\ T \subseteq DOMAIN s /\ T \subseteq DOMAIN t /\ IsFiniteSet(T)
  BY <1>5, <1>6
<1>3. \A j \in T : f[j] \in Int /\ g[j] = f[j]
  BY <1>1, <1>2, PieceFacts
<1> HIDE DEF f, g, T
<1>4. SumFunctionOnSet(f, T) = SumFunctionOnSet(g, T)
  BY <1>2, <1>3, SumOfSame DEF Summable
<1> QED  BY <1>4 DEF f, g, T, Before

\* A piece more.
LEMMA AppendedFacts ==
    ASSUME out \in Seq(Pieces), NEW x \in Pieces, out' = Append(out, x)
    PROVE  /\ out' \in Seq(Pieces) /\ Len(out) \in Nat /\ Len(out') = Len(out) + 1
           /\ DOMAIN out = 1 .. Len(out) /\ DOMAIN out' = 1 .. Len(out) + 1
           /\ \A i \in 1 .. Len(out) : out'[i] = out[i]
           /\ out'[Len(out) + 1] = x
           /\ \A i \in 1 .. Len(out) + 1 : StartOf(i)' = StartOf(i) /\ StartOf(i) \in Nat
           /\ StartOf(Len(out) + 1)' = StartOf(Len(out) + 1) + x.len
<1>1. /\ out' \in Seq(Pieces) /\ Len(out) \in Nat /\ Len(out') = Len(out) + 1
      /\ DOMAIN out = 1 .. Len(out) /\ DOMAIN out' = 1 .. Len(out) + 1
      /\ \A i \in 1 .. Len(out) : out'[i] = out[i]
      /\ out'[Len(out) + 1] = x
  BY AppendProperties, LenProperties
<1>2. /\ \A i : StartOf(i) = Before(out, i)
      /\ \A i : StartOf(i)' = Before(out', i)
  BY DEF StartOf, Before
<1>3. \A i \in 1 .. Len(out) + 1 : Before(out', i) = Before(out, i) /\ Before(out, i) \in Nat
  <2>1. /\ Len(out) <= Len(out) /\ Len(out) <= Len(out')
        /\ \A i \in 1 .. Len(out) : out'[i] = out[i]
    BY <1>1
  <2>2. \A i \in 1 .. Len(out) + 1 : Before(out', i) = Before(out, i)
    BY <1>1, <2>1, BeforeSame
  <2> QED  BY <2>2, BeforeFacts
<1>4. Before(out', (Len(out) + 1) + 1) = Before(out', Len(out) + 1) + x.len
  <2>1. Len(out) + 1 \in 1 .. Len(out')
    BY <1>1
  <2>2. \A i \in 1 .. Len(out') : Before(out', i + 1) = Before(out', i) + out'[i].len
    BY <1>1, BeforeFacts
  <2> QED  BY <1>1, <2>1, <2>2
<1>5. StartOf(Len(out) + 1)' = Before(out', Len(out') + 1)
  BY DEF StartOf, Before
<1> QED  BY <1>1, <1>2, <1>3, <1>4, <1>5

\* What lies in the archive stays there.
LEMMA LiesStill ==
    ASSUME out \in Seq(Pieces), NEW x \in Pieces, out' = Append(out, x)
    PROVE  /\ \A h, r : HeaderLies(h, r) => HeaderLies(h, r)'
           /\ \A h, d \in Nat : \A r : EntryLies(h, d, r) => EntryLies(h, d, r)'
<1>1. /\ \A i \in DOMAIN out : i \in DOMAIN out' /\ out'[i] = out[i] /\ StartOf(i)' = StartOf(i)
      /\ DOMAIN out = 1 .. Len(out) /\ Len(out) \in Nat
  BY AppendedFacts
<1>2. ASSUME NEW h, NEW r, HeaderLies(h, r)  PROVE HeaderLies(h, r)'
  BY <1>1, <1>2 DEF HeaderLies
<1>3. ASSUME NEW h \in Nat, NEW d \in Nat, NEW r, EntryLies(h, d, r)  PROVE EntryLies(h, d, r)'
  <2>1. HeaderLies(h, r)' /\ h \in DOMAIN out
    BY <1>2, <1>3 DEF EntryLies, HeaderLies
  <2>2. \A i \in h + 1 .. d - 1 : i \in DOMAIN out
    BY <1>1, <1>3, <2>1 DEF EntryLies
  <2> QED  BY <1>1, <1>3, <2>1, <2>2 DEF EntryLies
<1> QED  BY <1>2, <1>3

\* The entries stay where they are.
LEMMA EntriesStay ==
    ASSUME out \in Seq(Pieces), NEW x \in Pieces, out' = Append(out, x), central \in Seq(Records),
           NEW e \in [0 .. Len(central) -> 0 .. Len(out)],
           NEW k \in 1 .. Len(central), EntryLies(e[k - 1] + 1, e[k], central[k]),
           central'[k] = central[k]
    PROVE  EntryLies(e[k - 1] + 1, e[k], central[k])'
<1>1. k - 1 \in 0 .. Len(central) /\ k \in 0 .. Len(central) /\ Len(out) \in Nat
  BY LenProperties
<1>2. e[k - 1] \in 0 .. Len(out) /\ e[k] \in 0 .. Len(out)
  BY <1>1
<1>3. e[k - 1] + 1 \in Nat /\ e[k] \in Nat
  BY <1>1, <1>2
<1>4. PICK r : r = central[k]
  OBVIOUS
<1>5. PICK h : h = e[k - 1] + 1
  OBVIOUS
<1>6. PICK d : d = e[k]
  OBVIOUS
<1>7. EntryLies(h, d, r)'
  <2>1. h \in Nat /\ d \in Nat /\ EntryLies(h, d, r)
    BY <1>3, <1>4, <1>5, <1>6
  <2> QED  BY <2>1, LiesStill
<1>8. central[k]' = r /\ (e[k - 1] + 1)' = h /\ e[k]' = d
  BY <1>4, <1>5, <1>6
<1> QED  BY <1>7, <1>8

-----------------------------------------------------------------------------
(* One more member of a filter.                                            *)

\* An index behind all others is the last kept.
LEMMA OnlyOneMore ==
    ASSUME NEW S, NEW s \in Seq(S), NEW I \in SUBSET DOMAIN s, NEW m \in DOMAIN s,
           \A i \in I : i < m
    PROVE  Only(s, I \cup {m}) = Append(Only(s, I), s[m])
<1>1. /\ Only(s, I) \in Seq(S) /\ Len(Only(s, I)) = Cardinality(I) /\ Cardinality(I) \in Nat
      /\ \A n \in 1 .. Cardinality(I) : Nth(I, n) \in I /\ Only(s, I)[n] = s[Nth(I, n)]
      /\ \A i \in I : Place(I, i) \in 1 .. Cardinality(I)
      /\ \A a, b \in 1 .. Cardinality(I) : a < b => Nth(I, a) < Nth(I, b)
  BY OnlyKeeps
<1>2. /\ Len(s) \in Nat /\ DOMAIN s = 1 .. Len(s) /\ s[m] \in S /\ I \in SUBSET (1 .. Len(s))
      /\ I \cup {m} \in SUBSET DOMAIN s
  BY LenProperties, ElementOfSeq
<1> DEFINE c == Cardinality(I)
           t == Append(Only(s, I), s[m])
           g == [n \in 1 .. c + 1 |-> IF n <= c THEN Nth(I, n) ELSE m]
<1>3. /\ t \in Seq(S) /\ Len(t) = c + 1
      /\ \A n \in 1 .. c : t[n] = s[Nth(I, n)]
      /\ t[c + 1] = s[m]
  <2>1. /\ t \in Seq(S) /\ Len(t) = c + 1 /\ t[c + 1] = s[m]
        /\ \A n \in 1 .. c : t[n] = Only(s, I)[n]
    BY <1>1, <1>2, AppendProperties
  <2> QED  BY <1>1, <2>1
<1>4. \A i \in I : Nth(I, Place(I, i)) = i
  BY <1>2, NthOfPlace
<1>5. /\ g \in [1 .. c + 1 -> I \cup {m}] /\ g[c + 1] = m
      /\ \A n \in 1 .. c : g[n] = Nth(I, n) /\ g[n] \in I
  BY <1>1
<1> HIDE DEF c, g, t
<1>0. c \in Nat
  BY <1>1 DEF c
<1>6. ASSUME NEW a \in 1 .. c + 1, NEW b \in 1 .. c + 1, a < b  PROVE g[a] < g[b]
  <2>1. a \in 1 .. c /\ (b \in 1 .. c \/ b = c + 1)
    BY <1>0, <1>6
  <2> QED  BY <1>1, <1>5, <1>6, <2>1 DEF c
<1>7. ASSUME NEW i \in I \cup {m}  PROVE \E n \in 1 .. c + 1 : g[n] = i
  <2>1. CASE i \in I
    BY <1>1, <1>4, <1>5, <2>1 DEF c
  <2>2. CASE i = m
    BY <1>1, <1>5, <2>2 DEF c
  <2> QED  BY <2>1, <2>2
<1>8. \A n \in 1 .. c + 1 : t[n] = s[g[n]]
  <2>1. \A n \in 1 .. c + 1 : n \in 1 .. c \/ n = c + 1
    BY <1>1 DEF c
  <2> QED  BY <1>3, <1>5, <2>1
<1>9. Len(t) = c + 1 /\ t \in Seq(S)
  BY <1>3
<1>10. Only(s, I \cup {m}) = t
  <2> DEFINE J == I \cup {m}
  <2>1. J \in SUBSET DOMAIN s /\ g \in [1 .. Len(t) -> J] /\ \A i \in J : \E n \in 1 .. Len(t) : g[n] = i
    <3> HIDE DEF t, g
    <3>1. J \in SUBSET DOMAIN s
      BY <1>2
    <3> QED  BY <3>1, <1>5, <1>7, <1>9
  <2>2. /\ \A a, b \in 1 .. Len(t) : a < b => g[a] < g[b]
        /\ \A n \in 1 .. Len(t) : t[n] = s[g[n]]
    BY <1>6, <1>8, <1>9
  <2>3. Only(s, J) = t
    <3>1. s \in Seq(S) /\ t \in Seq(S)
      BY <1>9
    <3> HIDE DEF J, t, g
    <3>2. Matches(s, J, t, g)
      BY <2>1, <2>2 DEF Matches
    <3> QED  BY ONLY <2>1, <3>1, <3>2, OnlyMatches
  <2> QED  BY <2>3 DEF J
<1> QED  BY <1>10 DEF t

\* An initial part of the list.
LEMMA OnlyPrefix ==
    ASSUME NEW S, NEW s \in Seq(S), NEW t \in Seq(S), Len(t) <= Len(s),
           \A n \in 1 .. Len(t) : t[n] = s[n]
    PROVE  Only(s, 1 .. Len(t)) = t
<1> DEFINE c == Len(t)
           I == 1 .. c
           g == [n \in 1 .. c |-> n]
<1>1. Len(s) \in Nat /\ DOMAIN s = 1 .. Len(s) /\ c \in Nat
  BY LenProperties
<1>2. I \in SUBSET DOMAIN s /\ g \in [1 .. c -> I] /\ \A n \in I : g[n] = n
  BY <1>1
<1> HIDE DEF g, I
<1>3. /\ \A a, b \in 1 .. c : a < b => g[a] < g[b]
      /\ \A i \in I : \E n \in 1 .. c : g[n] = i
      /\ \A n \in 1 .. c : t[n] = s[g[n]]
  BY <1>2 DEF I
<1>4. Only(s, I) = t
  BY <1>2, <1>3, OnlyIs
<1> QED  BY <1>4 DEF I

\* Nothing is kept.
LEMMA OnlyNone ==
    ASSUME NEW s  PROVE Only(s, {}) = <<>>
<1>1. Cardinality({}) = 0 /\ 1 .. 0 = {}
  BY FS_EmptySet
<1> QED  BY <1>1 DEF Only

-----------------------------------------------------------------------------
(* The writer.                                                             *)

\* At the start.
LEMMA ZipBegins ==
    ASSUME ZipInit  PROVE ZipInv
<1>1. zipPhase = "asked"
  BY DEF ZipInit
<1>2. DOMAIN <<>> = {} /\ Len(<<>>) = 0 /\ <<>> \in Seq(Pieces) /\ <<>> \in Seq(Records)
      /\ <<>> \in Seq(1 .. MaxRows)
  OBVIOUS
<1>3. PlanOfRows
  BY <1>2, ZipAssumption DEF ZipInit, PlanOfRows
<1>4. NoEntry \in [name : -1 .. MaxRows, start : Nat, written : Nat, zip64 : BOOLEAN]
  BY ZipAssumption DEF NoEntry
<1>5. WriterHolds
  BY <1>2, <1>4 DEF ZipInit, WriterHolds
<1>6. ArchiveIsWhole
  BY <1>1 DEF ArchiveIsWhole, ReadersAgree, EveryTrackAnswered
<1> QED  BY <1>1, <1>3, <1>5, <1>6 DEF ZipInv

\* An archive that is not finished owes nothing.
LEMMA UnfinishedOwes ==
    ASSUME zipPhase' # "closed"  PROVE ArchiveIsWhole'
BY DEF ArchiveIsWhole, ReadersAgree, EveryTrackAnswered

\* The download is asked for.
LEMMA GetKeeps ==
    ASSUME ZipInv, NEW n \in 1 .. MaxRows, NEW rows \in [1 .. n -> RowSizes], Get(rows)
    PROVE  ZipInv'
<1> DEFINE usable == {i \in DOMAIN rows : rows[i] >= 0}
           numbers == [i \in DOMAIN rows |-> i]
           chosen == Only(numbers, usable)
<1>1. /\ zipPhase = "asked" /\ zipPhase' \in {"next", "refused"}
      /\ plan' = <<>> \/ plan' = chosen
      /\ UNCHANGED <<turn, entry, offset, central, missing, out, bodies>>
  BY DEF Get, PlanCrateZip
<1>2. /\ turn = 1 /\ missing = <<>> /\ central = <<>> /\ out = <<>> /\ offset = 0 /\ entry = NoEntry
      /\ WriterHolds /\ PlanOfRows
  BY <1>1 DEF ZipInv, WriterHolds, PlanOfRows
<1>3. MaxRows \in Nat /\ n \in Nat /\ n <= MaxRows
  BY ZipAssumption
<1>4. numbers \in Seq(1 .. MaxRows) /\ Len(numbers) = n /\ \A i \in 1 .. n : numbers[i] = i
  BY <1>3
<1>5. usable \in SUBSET (1 .. n) /\ usable \in SUBSET DOMAIN numbers
  OBVIOUS
<1> HIDE DEF usable, numbers
<1>6. /\ chosen \in Seq(1 .. MaxRows) /\ Len(chosen) = Cardinality(usable) /\ Len(chosen) <= n
      /\ DOMAIN chosen = 1 .. Cardinality(usable) /\ Cardinality(usable) \in Nat
      /\ \A k \in DOMAIN chosen : Nth(usable, k) \in usable /\ chosen[k] = numbers[Nth(usable, k)]
      /\ \A a, b \in DOMAIN chosen : a < b => Nth(usable, a) < Nth(usable, b)
  <2> DEFINE c == Cardinality(usable)
  <2>1. /\ chosen \in Seq(1 .. MaxRows) /\ Len(chosen) = c /\ c <= Len(numbers)
        /\ DOMAIN chosen = 1 .. c /\ c \in Nat
        /\ \A k \in 1 .. c : Nth(usable, k) \in usable /\ chosen[k] = numbers[Nth(usable, k)]
        /\ \A a, b \in 1 .. c : a < b => Nth(usable, a) < Nth(usable, b)
    <3>1. numbers \in Seq(1 .. MaxRows) /\ usable \in SUBSET DOMAIN numbers
      BY <1>4, <1>5
    <3> QED  BY ONLY <3>1, OnlyKeeps
  <2> HIDE DEF c, chosen
  <2>2. Len(chosen) <= n /\ DOMAIN chosen = 1 .. c
    BY <1>4, <2>1
  <2> QED  BY <2>1, <2>2 DEF c
<1>7. \A k \in DOMAIN chosen : chosen[k] = Nth(usable, k) /\ Nth(usable, k) \in Nat
  <2> SUFFICES ASSUME NEW k \in DOMAIN chosen
               PROVE  chosen[k] = Nth(usable, k) /\ Nth(usable, k) \in Nat
    OBVIOUS
  <2>1. Nth(usable, k) \in 1 .. n /\ chosen[k] = numbers[Nth(usable, k)]
    BY <1>5, <1>6
  <2> QED  BY <1>4, <2>1
<1>8. \A i, j \in DOMAIN chosen : i # j => chosen[i] # chosen[j]
  <2> SUFFICES ASSUME NEW i \in DOMAIN chosen, NEW j \in DOMAIN chosen, i # j
               PROVE  chosen[i] # chosen[j]
    OBVIOUS
  <2>1. i < j \/ j < i
    BY <1>6
  <2> QED  BY <1>6, <1>7, <2>1
<1> HIDE DEF chosen
<1>9. /\ plan' \in Seq(1 .. MaxRows) /\ Len(plan') \in Nat /\ Len(plan') <= MaxRows
      /\ \A i, j \in DOMAIN plan' : i # j => plan'[i] # plan'[j]
  <2>1. CASE plan' = <<>>
    BY <1>3, <2>1
  <2>2. CASE plan' = chosen
    BY <1>3, <1>6, <1>8, <2>2
  <2> QED  BY <1>1, <2>1, <2>2
<1>10. PlanOfRows'
  BY <1>1, <1>2, <1>9 DEF PlanOfRows
<1>11. WriterHolds'
  <2>1. zipPhase' # "asked" /\ zipPhase' # "body"
    BY <1>1
  <2>2. bodies' = [k \in DOMAIN central |-> <<central[k].name, central[k].size>>]
    BY <1>1, <1>2 DEF WriterHolds
  <2> QED  BY <1>1, <1>2, <2>1, <2>2 DEF WriterHolds, Fits
<1>12. Accounted'
  <2>1. Lost' = {} /\ Found' = {}
    <3>1. DOMAIN plan' \subseteq Nat \ {0} /\ turn' = 1
      BY <1>1, <1>2, <1>9, LenProperties
    <3> QED  BY <3>1 DEF Lost, Found
  <2>2. Only(plan', {}) = <<>>
    BY OnlyNone
  <2>3. Names' = <<>>
    <3>1. zipPhase' # "body" /\ central' = <<>>
      BY <1>1, <1>2
    <3> QED  BY <3>1, NoEntries DEF Names
  <2>4. turn' # Len(plan') + 2
    BY <1>1, <1>2, <1>9
  <2> QED  BY <1>1, <1>2, <2>1, <2>2, <2>3, <2>4 DEF Accounted
<1>13. Laid'
  <2> DEFINE e == [k \in 0 .. 0 |-> 0]
  <2>1. /\ Len(central') = 0 /\ Len(out') = 0 /\ e \in [0 .. 0 -> 0 .. 0] /\ e[0] = 0
        /\ 1 .. 0 = {} /\ offset' = 0 /\ zipPhase' # "body"
    BY <1>1, <1>2
  <2>2. StartOf(0 + 1)' = 0
    <3>1. out' = <<>> /\ <<>> \in Seq(Pieces)
      BY <1>1, <1>2
    <3>2. Before(out', 1) = 0
      BY <3>1, BeforeFacts
    <3> QED  BY <3>2 DEF StartOf, Before
  <2>3. LaidOut(e)'
    BY <2>1, <2>2 DEF LaidOut
  <2> QED  BY <2>1, <2>3 DEF Laid
<1>14. ArchiveIsWhole'
  BY <1>1, UnfinishedOwes
<1> QED  BY <1>10, <1>11, <1>12, <1>13, <1>14 DEF ZipInv

\* A local header is written.
LEMMA OpenKeeps ==
    ASSUME ZipInv, zipPhase = "next", NEW name \in 0 .. MaxRows, NEW length \in Nat,
           OpenEntry(name, length), UNCHANGED <<central, missing, bodies>>
    PROVE  /\ WriterHolds' /\ Laid' /\ ArchiveIsWhole'
           /\ zipPhase' = "body" /\ entry'.name = name
<1> DEFINE zip64 == length > U32Max \/ offset > U32Max
           len == IF zip64 THEN 2 ELSE 1
           piece == [is |-> "header", name |-> name, extra |-> zip64, len |-> len]
<1>1. /\ WriterHolds /\ Laid /\ out \in Seq(Pieces) /\ offset \in Nat /\ U32Max \in Nat /\ MaxRows \in Nat
      /\ Len(central) \in Nat /\ central \in Seq(Records)
  BY ZipAssumption, LenProperties DEF ZipInv, WriterHolds
<1>2. zip64 \in BOOLEAN /\ len \in {1, 2} /\ name \in Int /\ (~zip64 => offset <= U32Max)
  BY <1>1
<1>3. /\ entry' = [name |-> name, start |-> offset, written |-> 0, zip64 |-> zip64]
      /\ offset' = offset + len /\ out' = Append(out, piece) /\ zipPhase' = "body"
  BY DEF OpenEntry
<1>4. piece \in Pieces /\ piece.is = "header" /\ piece.name = name /\ piece.extra = zip64 /\ piece.len = len
  BY <1>2, PieceFacts
<1>5. /\ entry' \in [name : -1 .. MaxRows, start : Nat, written : Nat, zip64 : BOOLEAN]
      /\ entry'.name = name /\ entry'.start = offset /\ entry'.written = 0 /\ entry'.zip64 = zip64
  <2> HIDE DEF zip64
  <2>1. name \in -1 .. MaxRows
    BY <1>1
  <2> QED  BY <1>1, <1>2, <1>3, <2>1
<1> HIDE DEF zip64, len, piece
<1>6. /\ out' \in Seq(Pieces) /\ Len(out) \in Nat /\ Len(out') = Len(out) + 1
      /\ DOMAIN out = 1 .. Len(out) /\ DOMAIN out' = 1 .. Len(out) + 1
      /\ \A i \in 1 .. Len(out) : out'[i] = out[i]
      /\ out'[Len(out) + 1] = piece
      /\ \A i \in 1 .. Len(out) + 1 : StartOf(i)' = StartOf(i) /\ StartOf(i) \in Nat
      /\ StartOf(Len(out) + 1)' = StartOf(Len(out) + 1) + piece.len
  BY <1>1, <1>3, <1>4, AppendedFacts
<1>7. /\ \A h, d \in Nat : \A r : EntryLies(h, d, r) => EntryLies(h, d, r)'
  BY <1>1, <1>3, <1>4, LiesStill
<1>8. WriterHolds'
  <2>1. Fits(entry, entry.written)' /\ (entry.name # -1)'
    BY <1>1, <1>2, <1>5 DEF Fits
  <2>2. offset' \in Nat
    BY <1>1, <1>2, <1>3
  <2> QED  BY <1>1, <1>3, <1>5, <1>6, <2>1, <2>2 DEF WriterHolds, Fits
<1>9. Laid'
  <2>1. PICK e \in [0 .. Len(central) -> 0 .. Len(out)] : LaidOut(e)
    BY <1>1 DEF Laid
  <2> DEFINE n == Len(central)
  <2>2. /\ e[0] = 0 /\ e[n] = Len(out) /\ StartOf(Len(out) + 1) = offset
        /\ \A k \in 1 .. n : EntryLies(e[k - 1] + 1, e[k], central[k])
    BY <2>1 DEF LaidOut
  <2>3. e \in [0 .. Len(central') -> 0 .. Len(out')]
    BY <1>6
  <2>4. \A k \in 1 .. n : EntryLies(e[k - 1] + 1, e[k], central[k])'
    BY <1>1, <1>3, <1>4, <2>2, EntriesStay
  <2>5. HeaderLies(e[Len(central)] + 1, entry)'
    <3>1. e[Len(central')] + 1 = Len(out) + 1 /\ Len(out) + 1 \in DOMAIN out'
      BY <1>6, <2>2
    <3>2. StartOf(e[Len(central)] + 1)' = offset
      <4>1. Len(out) + 1 \in 1 .. Len(out) + 1
        BY <1>6
      <4>2. PICK a : a = Len(out) + 1
        OBVIOUS
      <4>3. StartOf(a)' = offset
        BY <1>6, <2>2, <4>1, <4>2
      <4>4. (e[Len(central)] + 1)' = a
        BY <3>1, <4>2
      <4> QED  BY <4>3, <4>4
    <3> QED  BY <1>4, <1>5, <1>6, <3>1, <3>2 DEF HeaderLies
  <2>6. \A i \in e[Len(central')] + 2 .. Len(out') : out'[i].is = "data"
    BY <1>6, <2>2
  <2>7. StartOf(Len(out) + 1)' = offset' + entry'.written
    BY <1>1, <1>2, <1>3, <1>4, <1>5, <1>6, <2>2
  <2>8. LaidOut(e)'
    BY <1>3, <2>2, <2>4, <2>5, <2>6, <2>7 DEF LaidOut
  <2> QED  BY <2>3, <2>8 DEF Laid
<1>10. ArchiveIsWhole'
  BY <1>3, UnfinishedOwes
<1> QED  BY <1>3, <1>5, <1>8, <1>9, <1>10

\* The plan's numbers.
LEMMA PlanFacts ==
    ASSUME ZipInv
    PROVE  /\ plan \in Seq(1 .. MaxRows) /\ Len(plan) \in Nat /\ Len(plan) <= MaxRows /\ MaxRows \in Nat
           /\ DOMAIN plan = 1 .. Len(plan) /\ turn \in 1 .. Len(plan) + 2
           /\ \A i \in DOMAIN plan : plan[i] \in 1 .. MaxRows
           /\ \A i, j \in DOMAIN plan : i # j => plan[i] # plan[j]
           /\ missing \in Seq(1 .. MaxRows) /\ Len(missing) \in Nat /\ DOMAIN missing = 1 .. Len(missing)
           /\ Found \in SUBSET DOMAIN plan /\ Lost \in SUBSET DOMAIN plan
           /\ \A i \in Found \cup Lost : i < turn
           /\ Only(plan, Found) \in Seq(1 .. MaxRows)
<1>1. plan \in Seq(1 .. MaxRows) /\ Len(plan) <= MaxRows /\ missing \in Seq(1 .. MaxRows)
  BY DEF ZipInv, PlanOfRows, WriterHolds
<1>2. Found \in SUBSET DOMAIN plan /\ Lost \in SUBSET DOMAIN plan /\ \A i \in Found \cup Lost : i < turn
  BY DEF Found, Lost
<1>3. Only(plan, Found) \in Seq(1 .. MaxRows)
  BY <1>1, <1>2, OnlyKeeps
<1>4. \A i \in DOMAIN plan : plan[i] \in 1 .. MaxRows
  BY <1>1, ElementOfSeq, LenProperties
<1> QED  BY <1>1, <1>2, <1>3, <1>4, ZipAssumption, LenProperties DEF ZipInv, PlanOfRows

\* A missing track was passed.
LEMMA MissingPassed ==
    ASSUME ZipInv, missing = Only(plan, Lost)
    PROVE  \A t \in ToSet(missing) : \E i \in DOMAIN plan : i < turn /\ plan[i] = t
<1>1. /\ DOMAIN Only(plan, Lost) = 1 .. Cardinality(Lost)
      /\ \A n \in 1 .. Cardinality(Lost) : Nth(Lost, n) \in Lost /\ Only(plan, Lost)[n] = plan[Nth(Lost, n)]
  <2>1. plan \in Seq(1 .. MaxRows) /\ Lost \in SUBSET DOMAIN plan
    BY PlanFacts
  <2> QED  BY <2>1, OnlyKeeps
<1>2. \A t \in ToSet(missing) : \E n \in 1 .. Cardinality(Lost) : t = plan[Nth(Lost, n)]
  BY <1>1 DEF ToSet
<1> QED  BY <1>1, <1>2 DEF Lost

\* The next object is opened.
LEMMA OpenObjectKeeps ==
    ASSUME ZipInv, NEW length \in RowSizes \ {-1}, OpenObject(length)
    PROVE  ZipInv'
<1> USE PlanFacts
<1>1. /\ zipPhase = "next" /\ turn \in DOMAIN plan /\ turn' = turn + 1
      /\ UNCHANGED <<plan, central, missing, bodies>> /\ OpenEntry(plan[turn], length)
      /\ Accounted /\ PlanOfRows
  BY DEF OpenObject, ZipInv
<1>2. length \in Nat /\ plan[turn] \in 0 .. MaxRows
  BY <1>1, ZipAssumption
<1>3. /\ WriterHolds' /\ Laid' /\ ArchiveIsWhole'
      /\ zipPhase' = "body" /\ entry'.name = plan[turn]
  BY <1>1, <1>2, OpenKeeps
<1>4. turn \in 1 .. Len(plan) /\ turn' \in 1 .. Len(plan) + 1 /\ turn' # Len(plan) + 2 /\ turn # Len(plan) + 2
  BY <1>1
<1>5. PlanOfRows'
  BY <1>1, <1>3, <1>4 DEF PlanOfRows
<1>6. plan[turn] \notin ToSet(missing)
  BY <1>1, <1>4, MissingPassed DEF Accounted
<1>7. Found' = Found \cup {turn} /\ Lost' = Lost
  <2>1. \A i \in DOMAIN plan : i < turn + 1 <=> i < turn \/ i = turn
    <3>1. ASSUME NEW i \in Nat, NEW t \in Nat  PROVE i < t + 1 <=> i < t \/ i = t
      BY ONLY <3>1
    <3>2. turn \in Nat /\ DOMAIN plan \subseteq Nat
      BY <1>4
    <3> QED  BY ONLY <3>1, <3>2
  <2> QED  BY <1>1, <1>6, <2>1 DEF Found, Lost
<1>8. Names' = Append(Only(plan, Found), plan[turn])
  <2>1. Names = Only(plan, Found)
    BY <1>1, <1>4 DEF Accounted
  <2>2. Names' = Append(Names, plan[turn])
    BY <1>1, <1>3 DEF Names
  <2> QED  BY <2>1, <2>2
<1>9. Only(plan, Found \cup {turn}) = Append(Only(plan, Found), plan[turn])
  BY <1>1, OnlyOneMore
<1>10. Accounted'
  BY <1>1, <1>4, <1>7, <1>8, <1>9 DEF Accounted
<1> QED  BY <1>3, <1>5, <1>10 DEF ZipInv

\* An object is gone.
LEMMA MissingKeeps ==
    ASSUME ZipInv, ObjectMissing  PROVE ZipInv'
<1> USE PlanFacts
<1>1. /\ zipPhase = "next" /\ turn \in DOMAIN plan /\ turn' = turn + 1
      /\ missing' = Append(missing, plan[turn])
      /\ UNCHANGED <<zipPhase, plan, entry, offset, central, out, bodies>>
      /\ Accounted /\ PlanOfRows /\ WriterHolds /\ Laid
  BY DEF ObjectMissing, ZipInv
<1>2. turn \in 1 .. Len(plan) /\ turn' \in 1 .. Len(plan) + 1 /\ turn' # Len(plan) + 2 /\ turn # Len(plan) + 2
  BY <1>1
<1>3. /\ missing' \in Seq(1 .. MaxRows) /\ Len(missing') = Len(missing) + 1
      /\ DOMAIN missing' = 1 .. Len(missing) + 1
      /\ \A i \in 1 .. Len(missing) : missing'[i] = missing[i]
      /\ missing'[Len(missing) + 1] = plan[turn]
  BY <1>1, AppendProperties, LenProperties
<1>4. PlanOfRows'
  BY <1>1, <1>2 DEF PlanOfRows
<1>5. WriterHolds'
  BY <1>1, <1>3 DEF WriterHolds, Fits
<1>6. ToSet(missing') = ToSet(missing) \cup {plan[turn]}
  <2>1. ASSUME NEW t \in ToSet(missing')  PROVE t \in ToSet(missing) \cup {plan[turn]}
    <3>1. PICK i \in 1 .. Len(missing) + 1 : t = missing'[i]
      BY <1>3 DEF ToSet
    <3>2. i \in 1 .. Len(missing) \/ i = Len(missing) + 1
      OBVIOUS
    <3> QED  BY <1>3, <3>1, <3>2 DEF ToSet
  <2>2. ASSUME NEW t \in ToSet(missing)  PROVE t \in ToSet(missing')
    <3>1. PICK i \in 1 .. Len(missing) : t = missing[i]
      BY DEF ToSet
    <3>2. i \in DOMAIN missing' /\ t = missing'[i]
      BY <1>3, <3>1
    <3> QED  BY <3>2 DEF ToSet
  <2>3. plan[turn] \in ToSet(missing')
    <3>1. Len(missing) + 1 \in DOMAIN missing'
      BY <1>3
    <3> QED  BY <1>3, <3>1 DEF ToSet
  <2> QED  BY <2>1, <2>2, <2>3
<1>7. Found' = Found /\ Lost' = Lost \cup {turn}
  <2>1. \A i \in DOMAIN plan : i < turn + 1 <=> i < turn \/ i = turn
    <3>1. ASSUME NEW i \in Nat, NEW t \in Nat  PROVE i < t + 1 <=> i < t \/ i = t
      BY ONLY <3>1
    <3>2. turn \in Nat /\ DOMAIN plan \subseteq Nat
      BY <1>2
    <3> QED  BY ONLY <3>1, <3>2
  <2>2. \A i \in DOMAIN plan : i < turn => i # turn /\ plan[i] # plan[turn]
    <3>1. \A i, j \in DOMAIN plan : i # j => plan[i] # plan[j]
      OBVIOUS
    <3>2. turn \in DOMAIN plan /\ DOMAIN plan \subseteq Nat
      BY <1>1
    <3> QED  BY ONLY <3>1, <3>2
  <2>3. Found' = {i \in DOMAIN plan : i < turn + 1 /\ plan[i] \notin ToSet(missing')}
    BY <1>1 DEF Found
  <2>4. Lost' = {i \in DOMAIN plan : i < turn + 1 /\ plan[i] \in ToSet(missing')}
    BY <1>1 DEF Lost
  <2> QED  BY <1>1, <1>6, <2>1, <2>2, <2>3, <2>4 DEF Found, Lost
<1>8. Only(plan, Lost \cup {turn}) = Append(Only(plan, Lost), plan[turn])
  BY <1>1, OnlyOneMore
<1>9. Names' = Names
  BY <1>1 DEF Names
<1>10. Accounted'
  BY <1>1, <1>2, <1>7, <1>8, <1>9 DEF Accounted
<1>11. Laid'
  <2>1. PICK e \in [0 .. Len(central) -> 0 .. Len(out)] : LaidOut(e)
    BY <1>1 DEF Laid
  <2>3. \A h, r : HeaderLies(h, r) => HeaderLies(h, r)'
    BY <1>1 DEF HeaderLies, StartOf
  <2>4. \A h, d, r : EntryLies(h, d, r) => EntryLies(h, d, r)'
    BY <1>1, <2>3 DEF EntryLies
  <2>5. \A k \in 1 .. Len(central) : EntryLies(e[k - 1] + 1, e[k], central[k])'
    <3> SUFFICES ASSUME NEW k \in 1 .. Len(central)
                 PROVE  EntryLies(e[k - 1] + 1, e[k], central[k])'
      OBVIOUS
    <3>1. PICK r : r = central[k]
      OBVIOUS
    <3>2. EntryLies(e[k - 1] + 1, e[k], r)'
      BY <2>1, <2>4, <3>1 DEF LaidOut
    <3>3. r = central'[k]
      BY <1>1, <3>1
    <3> QED  BY <3>2, <3>3
  <2>6. e[Len(central')] = Len(out') /\ StartOf(Len(out) + 1)' = offset' /\ e[0] = 0
    BY <1>1, <2>1 DEF LaidOut, StartOf
  <2>2. LaidOut(e)'
    BY <1>1, <2>5, <2>6 DEF LaidOut
  <2> QED  BY <1>1, <2>2 DEF Laid
<1>12. ArchiveIsWhole'
  BY <1>1, UnfinishedOwes
<1> QED  BY <1>4, <1>5, <1>10, <1>11, <1>12 DEF ZipInv

\* The manifest is opened, behind all others.
LEMMA OpenManifestKeeps ==
    ASSUME ZipInv, OpenManifest  PROVE ZipInv'
<1> USE PlanFacts
<1>1. /\ zipPhase = "next" /\ turn = Len(plan) + 1 /\ turn' = turn + 1 /\ missing # <<>>
      /\ UNCHANGED <<plan, central, missing, bodies>> /\ OpenEntry(Manifest, 1)
      /\ Accounted /\ PlanOfRows
  BY DEF OpenManifest, ZipInv
<1>2. Manifest \in 0 .. MaxRows /\ 1 \in Nat
  BY DEF Manifest
<1>3. /\ WriterHolds' /\ Laid' /\ ArchiveIsWhole'
      /\ zipPhase' = "body" /\ entry'.name = Manifest
  BY <1>1, <1>2, OpenKeeps
<1>4. turn' = Len(plan) + 2 /\ turn # Len(plan) + 2 /\ turn' \in 1 .. Len(plan) + 2
  BY <1>1
<1>5. PlanOfRows'
  BY <1>1, <1>3, <1>4 DEF PlanOfRows
<1>6. Found' = Found /\ Lost' = Lost
  <2>1. \A i \in DOMAIN plan : i < turn + 1 <=> i < turn
    BY <1>1
  <2> QED  BY <1>1, <2>1 DEF Found, Lost
<1>7. Names' = Append(Names, Manifest)
  BY <1>1, <1>3 DEF Names
<1>8. Accounted'
  BY <1>1, <1>4, <1>6, <1>7 DEF Accounted
<1> QED  BY <1>3, <1>5, <1>8 DEF ZipInv

\* The stream ends early: nothing more is owed.
LEMMA StoppedKeeps ==
    ASSUME ZipInv, zipPhase' \in {"broken", "cancelled"},
           UNCHANGED <<plan, turn, offset, central, missing, out, bodies>>,
           entry' \in [name : -1 .. MaxRows, start : Nat, written : Nat, zip64 : BOOLEAN]
    PROVE  ZipInv'
<1>1. zipPhase' \notin {"asked", "refused", "next", "body", "closed"}
  OBVIOUS
<1>2. PlanOfRows'
  BY <1>1 DEF ZipInv, PlanOfRows
<1>3. WriterHolds'
  BY <1>1 DEF ZipInv, WriterHolds, Fits
<1> QED  BY <1>1, <1>2, <1>3, UnfinishedOwes DEF ZipInv

\* The body's entry.
LEMMA BodyFacts ==
    ASSUME ZipInv, zipPhase = "body"
    PROVE  /\ entry \in [name : -1 .. MaxRows, start : Nat, written : Nat, zip64 : BOOLEAN]
           /\ entry.name \in -1 .. MaxRows /\ entry.name # -1 /\ entry.start \in Nat
           /\ entry.written \in Nat /\ entry.zip64 \in BOOLEAN /\ Fits(entry, entry.written)
           /\ U32Max \in Nat \ {0} /\ MaxRows \in Nat /\ offset \in Nat
           /\ out \in Seq(Pieces) /\ Len(out) \in Nat /\ DOMAIN out = 1 .. Len(out)
           /\ central \in Seq(Records) /\ Len(central) \in Nat /\ DOMAIN central = 1 .. Len(central)
           /\ Laid /\ Accounted /\ PlanOfRows /\ WriterHolds
<1>1. /\ entry \in [name : -1 .. MaxRows, start : Nat, written : Nat, zip64 : BOOLEAN]
      /\ entry.name # -1 /\ Fits(entry, entry.written) /\ offset \in Nat
      /\ out \in Seq(Pieces) /\ central \in Seq(Records)
  BY DEF ZipInv, WriterHolds
<1>2. /\ entry.name \in -1 .. MaxRows /\ entry.start \in Nat
      /\ entry.written \in Nat /\ entry.zip64 \in BOOLEAN
  BY <1>1
<1> QED  BY <1>1, <1>2, ZipAssumption, LenProperties DEF ZipInv

\* A chunk is passed on, or the stream breaks.
LEMMA ChunkKeeps ==
    ASSUME ZipInv, NEW n \in ChunkSizes, BodyChunk(n)  PROVE ZipInv'
<1> USE BodyFacts
<1>1. /\ zipPhase = "body" /\ entry' = [entry EXCEPT !.written = @ + n] /\ n \in Nat
      /\ UNCHANGED <<plan, turn, offset, central, missing, bodies>>
  BY ZipAssumption DEF BodyChunk
<1>2. /\ entry' \in [name : -1 .. MaxRows, start : Nat, written : Nat, zip64 : BOOLEAN]
      /\ entry'.name = entry.name /\ entry'.start = entry.start /\ entry'.zip64 = entry.zip64
      /\ entry'.written = entry.written + n
  <2> DEFINE E == [name : -1 .. MaxRows, start : Nat, written : Nat, zip64 : BOOLEAN]
             v == entry.written + n
  <2>1. entry \in E /\ v \in Nat /\ entry' = [entry EXCEPT !.written = v]
    BY <1>1
  <2> HIDE DEF v
  <2>2. /\ entry' \in E
        /\ entry'.name = entry.name /\ entry'.start = entry.start /\ entry'.zip64 = entry.zip64
        /\ entry'.written = v
    BY <2>1
  <2> QED  BY <2>2 DEF v
<1>3. CASE zipPhase' = "broken" /\ UNCHANGED out
  BY <1>1, <1>2, <1>3, StoppedKeeps
<1>4. CASE /\ ~(~entry.zip64 /\ entry'.written > U32Max)
           /\ out' = Append(out, [is |-> "data", len |-> n]) /\ UNCHANGED zipPhase
  <2> DEFINE piece == [is |-> "data", len |-> n]
  <2>1. piece \in Pieces /\ piece.is = "data" /\ piece.len = n
    BY <1>1, PieceFacts
  <2>0. out' = Append(out, piece)
    BY <1>4
  <2> HIDE DEF piece
  <2>2. /\ out' \in Seq(Pieces) /\ Len(out') = Len(out) + 1
        /\ DOMAIN out' = 1 .. Len(out) + 1
        /\ \A i \in 1 .. Len(out) : out'[i] = out[i]
        /\ out'[Len(out) + 1] = piece
        /\ StartOf(Len(out) + 1) \in Nat
        /\ StartOf(Len(out) + 1)' = StartOf(Len(out) + 1) + piece.len
    <3>1. Len(out) + 1 \in 1 .. Len(out) + 1
      BY <1>1
    <3> QED  BY <1>1, <2>0, <2>1, <3>1, AppendedFacts
  <2>3. PlanOfRows'
    BY <1>1, <1>4 DEF PlanOfRows
  <2>4. WriterHolds'
    <3>1. Fits(entry, entry.written)'
      BY SMTT(30), <1>1, <1>2, <1>4 DEF Fits
    <3> QED  BY <1>1, <1>2, <1>4, <2>2, <3>1 DEF WriterHolds, Fits
  <2>5. Accounted'
    <3>1. Names' = Names
      BY <1>1, <1>2, <1>4 DEF Names
    <3> QED  BY <1>1, <3>1 DEF Accounted, Found, Lost
  <2>6. Laid'
    <3>1. PICK e \in [0 .. Len(central) -> 0 .. Len(out)] : LaidOut(e)
      BY <1>1 DEF Laid
    <3>2. \A k \in 1 .. Len(central) : EntryLies(e[k - 1] + 1, e[k], central[k])'
      BY <1>1, <2>0, <2>1, <3>1, EntriesStay DEF LaidOut
    <3>3. HeaderLies(e[Len(central)] + 1, entry)'
      <4>1. PICK h : h = e[Len(central)] + 1
        OBVIOUS
      <4>2. PICK r : r = entry
        OBVIOUS
      <4>3. HeaderLies(h, r)'
        BY <1>1, <2>0, <2>1, <3>1, <4>1, <4>2, LiesStill DEF LaidOut
      <4>4. h = (e[Len(central)] + 1)'
        BY <1>1, <4>1
      <4>5. HeaderLies(h, entry)'
        BY <1>2, <4>2, <4>3 DEF HeaderLies
      <4> QED  BY <4>4, <4>5
    <3>4. \A i \in e[Len(central)] + 2 .. Len(out') : out'[i].is = "data"
      <4>1. e[Len(central)] \in 0 .. Len(out)
        BY <1>1
      <4>2. \A i \in e[Len(central)] + 2 .. Len(out) : out'[i].is = "data"
        <5>1. \A i \in e[Len(central)] + 2 .. Len(out) : out[i].is = "data"
          BY <1>1, <3>1 DEF LaidOut
        <5>2. ASSUME NEW i \in e[Len(central)] + 2 .. Len(out)  PROVE i \in 1 .. Len(out)
          BY <1>1, <4>1
        <5> QED  BY <2>2, <5>1, <5>2
      <4>3. out'[Len(out) + 1].is = "data"
        BY <2>1, <2>2
      <4>4. ASSUME NEW x \in Nat, NEW l \in Nat, NEW i \in x + 2 .. l + 1
            PROVE  i \in x + 2 .. l \/ i = l + 1
        BY ONLY <4>4
      <4>5. e[Len(central)] \in Nat /\ Len(out) \in Nat /\ Len(out') = Len(out) + 1
        BY <2>2, <4>1
      <4>6. \A i \in e[Len(central)] + 2 .. Len(out') :
                i \in e[Len(central)] + 2 .. Len(out) \/ i = Len(out) + 1
        BY ONLY <4>4, <4>5
      <4> QED  BY ONLY <4>2, <4>3, <4>6
    <3>5. StartOf(Len(out) + 1)' = offset + entry'.written
      <4>1. StartOf(Len(out) + 1) = offset + entry.written
        BY <1>1, <3>1 DEF LaidOut
      <4>2. entry'.written = entry.written + n /\ entry.written \in Nat /\ n \in Nat /\ offset \in Nat
        BY <1>1, <1>2
      <4>3. StartOf(Len(out) + 1)' = StartOf(Len(out) + 1) + n
        BY <2>1, <2>2
      <4> QED  BY <4>1, <4>2, <4>3
    <3>6. LaidOut(e)'
      <4>1. zipPhase = "body" /\ zipPhase' = "body" /\ UNCHANGED <<central, offset>>
        BY <1>1, <1>4
      <4>2. e[0] = 0
        BY <3>1 DEF LaidOut
      <4> QED  BY ONLY <4>1, <4>2, <3>2, <3>3, <3>4, <3>5 DEF LaidOut
    <3>7. e \in [0 .. Len(central') -> 0 .. Len(out')]
      <4>1. ASSUME NEW l \in Nat  PROVE 0 .. l \subseteq 0 .. l + 1
        BY ONLY <4>1
      <4>2. Len(out) \in Nat /\ Len(out') = Len(out) + 1 /\ central' = central
        BY <1>1, <2>2
      <4>3. 0 .. Len(out) \subseteq 0 .. Len(out')
        BY ONLY <4>1, <4>2
      <4>4. e \in [0 .. Len(central) -> 0 .. Len(out)]
        OBVIOUS
      <4> QED  BY ONLY <4>2, <4>3, <4>4
    <3> QED  BY <3>6, <3>7 DEF Laid
  <2> QED  BY <1>1, <1>4, <2>3, <2>4, <2>5, <2>6, UnfinishedOwes DEF ZipInv
<1> QED  BY <1>3, <1>4 DEF BodyChunk

\* The body ends.
LEMMA EndsKeeps ==
    ASSUME ZipInv, BodyEnds  PROVE ZipInv'
<1> USE BodyFacts
<1> DEFINE width == IF entry.zip64 THEN 2 ELSE 1
           length == IF entry.zip64 THEN entry.written ELSE Field32(entry.written)
           piece == [is |-> "descriptor", size |-> length, len |-> width]
           r == [name |-> entry.name, size |-> entry.written, start |-> entry.start, zip64 |-> entry.zip64]
<1>1. /\ zipPhase = "body" /\ zipPhase' = "next" /\ UNCHANGED <<plan, turn, missing>>
      /\ out' = Append(out, piece) /\ offset' = offset + entry.written + width
      /\ central' = Append(central, r) /\ bodies' = Append(bodies, <<entry.name, entry.written>>)
      /\ entry' = NoEntry
  BY DEF BodyEnds
<1>2. length = entry.written
  <2>1. ASSUME ~entry.zip64  PROVE entry.written % (U32Max + 1) = entry.written
    <3>1. entry.written \in 0 .. U32Max
      BY <1>1, <2>1 DEF Fits
    <3> DEFINE w == entry.written
    <3>2. w \in 0 .. U32Max /\ U32Max \in Nat
      BY <1>1, <3>1
    <3> HIDE DEF w
    <3>3. w % (U32Max + 1) = w
      BY <3>2
    <3> QED  BY <3>3 DEF w
  <2> QED  BY <1>1, <2>1 DEF Field32
<1>3. width \in Nat /\ r \in Records
  BY <1>1 DEF Records
<1>4. /\ r.name = entry.name /\ r.size = entry.written /\ r.start = entry.start
      /\ r.zip64 = entry.zip64
  OBVIOUS
<1>5. piece \in Pieces /\ piece.is = "descriptor" /\ piece.size = entry.written /\ piece.len = width
  BY <1>1, <1>2, <1>3, PieceFacts
<1> HIDE DEF width, length, piece, r
<1>6. /\ out' \in Seq(Pieces) /\ Len(out') = Len(out) + 1
      /\ DOMAIN out' = 1 .. Len(out) + 1
      /\ \A i \in 1 .. Len(out) : out'[i] = out[i]
      /\ out'[Len(out) + 1] = piece
      /\ StartOf(Len(out) + 1) \in Nat
      /\ StartOf(Len(out) + 1)' = StartOf(Len(out) + 1) + piece.len
  <2>1. Len(out) + 1 \in 1 .. Len(out) + 1
    BY <1>1
  <2> QED  BY <1>1, <1>5, <2>1, AppendedFacts
<1>7. /\ central' \in Seq(Records) /\ Len(central') = Len(central) + 1
      /\ DOMAIN central' = 1 .. Len(central) + 1
      /\ \A k \in 1 .. Len(central) : central'[k] = central[k]
      /\ central'[Len(central) + 1] = r
  BY <1>1, <1>3, AppendProperties, LenProperties
<1>8. PlanOfRows'
  BY <1>1 DEF PlanOfRows
<1>9. \A k \in DOMAIN central' : k \in DOMAIN central \/ k = Len(central) + 1
  <2>1. ASSUME NEW l \in Nat, NEW k \in 1 .. l + 1  PROVE k \in 1 .. l \/ k = l + 1
    BY ONLY <2>1
  <2>2. /\ Len(central) \in Nat /\ DOMAIN central = 1 .. Len(central)
        /\ DOMAIN central' = 1 .. Len(central) + 1
    BY <1>1, <1>7
  <2> QED  BY ONLY <2>1, <2>2
<1>10. bodies' = [k \in DOMAIN central' |-> <<central'[k].name, central'[k].size>>]
  <2> DEFINE b == [k \in 1 .. Len(central) |-> <<central[k].name, central[k].size>>]
  <2>1. bodies = b
    BY <1>1 DEF WriterHolds
  <2>2. b \in Seq(Int \X Nat) /\ Len(b) = Len(central)
    <3>1. \A k \in 1 .. Len(central) : <<central[k].name, central[k].size>> \in Int \X Nat
      <4> TAKE k \in 1 .. Len(central)
      <4>1. central[k] \in Records
        BY <1>1, ElementOfSeq
      <4> QED  BY <4>1 DEF Records
    <3>2. Len(central) \in Nat
      BY <1>1
    <3> QED  BY ONLY <3>1, <3>2
  <2>3. <<entry.name, entry.written>> \in Int \X Nat
    BY <1>1
  <2> HIDE DEF b
  <2>4. /\ bodies' \in Seq(Int \X Nat) /\ Len(bodies') = Len(central) + 1
        /\ \A k \in 1 .. Len(central) : bodies'[k] = b[k]
        /\ bodies'[Len(central) + 1] = <<entry.name, entry.written>>
    <3>1. bodies' = Append(b, <<entry.name, entry.written>>)
      BY <1>1, <2>1
    <3> QED  BY ONLY <2>2, <2>3, <3>1, AppendProperties
  <2>5. DOMAIN bodies' = DOMAIN central' /\ bodies' = [k \in DOMAIN bodies' |-> bodies'[k]]
    BY <1>7, <2>4, LenProperties
  <2>6. \A k \in DOMAIN central' : bodies'[k] = <<central'[k].name, central'[k].size>>
    BY <1>4, <1>7, <1>9, <1>1, <2>4 DEF b
  <2> QED  BY <2>5, <2>6
<1>11. WriterHolds'
  <2>1. NoEntry \in [name : -1 .. MaxRows, start : Nat, written : Nat, zip64 : BOOLEAN]
    BY <1>1 DEF NoEntry
  <2>2. offset' \in Nat
    <3>1. offset' = offset + entry.written + width /\ offset \in Nat /\ entry.written \in Nat
      BY <1>1
    <3> QED  BY ONLY <1>3, <3>1
  <2>3. \A k \in DOMAIN central' : Fits(central[k], central[k].size)'
    <3>1. \A k \in DOMAIN central : Fits(central[k], central[k].size)'
      BY <1>1, <1>7 DEF WriterHolds, Fits
    <3>2. \A k \in DOMAIN central' : k = Len(central) + 1 => Fits(central[k], central[k].size)'
      BY <1>1, <1>4, <1>7 DEF Fits
    <3> QED  BY <1>9, <3>1, <3>2
  <2> QED  BY <1>1, <1>6, <1>7, <1>10, <2>1, <2>2, <2>3 DEF WriterHolds
<1>12. Accounted'
  <2>1. Names' = Names
    <3> DEFINE w == [k \in 1 .. Len(central) |-> central[k].name]
    <3>1. Names = Append(w, entry.name)
      BY <1>1 DEF Names
    <3>2. Names' = [k \in DOMAIN central' |-> central'[k].name]
      BY <1>1 DEF Names
    <3>3. w \in Seq(Int) /\ Len(w) = Len(central) /\ entry.name \in Int
      <4>1. \A k \in 1 .. Len(central) : central[k].name \in Int
        <5> TAKE k \in 1 .. Len(central)
        <5>1. central[k] \in Records
          BY <1>1, ElementOfSeq
        <5> QED  BY <5>1 DEF Records
      <4> QED  BY <1>1, <4>1
    <3>4. \A k \in 1 .. Len(central) : w[k] = central[k].name
      OBVIOUS
    <3> HIDE DEF w
    <3>5. /\ Names \in Seq(Int) /\ Len(Names) = Len(central) + 1
          /\ \A k \in 1 .. Len(central) : Names[k] = w[k]
          /\ Names[Len(central) + 1] = entry.name
      BY <3>1, <3>3, AppendProperties
    <3>6. DOMAIN Names = DOMAIN central' /\ Names = [k \in DOMAIN Names |-> Names[k]]
      BY <1>7, <3>5, LenProperties
    <3>7. \A k \in DOMAIN central' : Names[k] = central'[k].name
      BY <1>1, <1>4, <1>7, <1>9, <3>4, <3>5
    <3> QED  BY <3>2, <3>6, <3>7
  <2> QED  BY <1>1, <2>1 DEF Accounted, Found, Lost
<1>13. Laid'
  <2>1. PICK e \in [0 .. Len(central) -> 0 .. Len(out)] : LaidOut(e)
    BY <1>1 DEF Laid
  <2>12. PICK n : n = Len(central)
    OBVIOUS
  <2>13. PICK m : m = Len(out) + 1
    OBVIOUS
  <2> DEFINE f == [k \in 0 .. n + 1 |-> IF k <= n THEN e[k] ELSE m]
  <2>2. n \in Nat /\ m \in Nat /\ m = Len(out) + 1 /\ Len(central') = n + 1 /\ Len(out') = m
    BY <1>1, <1>6, <1>7, <2>12, <2>13
  <2>3. /\ f \in [0 .. n + 1 -> 0 .. m] /\ f[n + 1] = m
        /\ \A k \in 0 .. n : f[k] = e[k] /\ e[k] \in 0 .. m
    BY <2>2, <2>12
  <2>4. \A k \in 1 .. n : EntryLies(e[k - 1] + 1, e[k], central[k])'
    BY <1>1, <1>5, <1>7, <2>1, <2>12, EntriesStay DEF LaidOut
  <2>5. PICK h : h = e[n] + 1
    OBVIOUS
  <2>6. PICK a : a = r
    OBVIOUS
  <2>7. HeaderLies(h, a)'
    <3>1. HeaderLies(h, entry) /\ a.name = entry.name /\ a.start = entry.start /\ a.zip64 = entry.zip64
      BY <1>1, <1>4, <2>1, <2>5, <2>6, <2>12 DEF LaidOut
    <3>2. HeaderLies(h, a)
      BY <3>1 DEF HeaderLies
    <3> QED  BY <1>1, <1>5, <3>2, LiesStill
  <2>8. h \in 1 .. Len(out)
    BY <1>1, <2>1, <2>5, <2>12 DEF LaidOut, HeaderLies
  <2>9. PICK d : d = m
    OBVIOUS
  <2>10. EntryLies(h, d, a)'
    <3>1. \A i \in h + 1 .. d - 1 : out'[i].is = "data"
      <4>1. \A i \in e[n] + 2 .. Len(out) : out[i].is = "data"
        BY <1>1, <2>1, <2>12 DEF LaidOut
      <4>2. e[n] \in 0 .. m /\ d - 1 = Len(out) /\ h + 1 = e[n] + 2
        BY <2>2, <2>3, <2>5, <2>9
      <4>3. \A i \in h + 1 .. d - 1 : i \in e[n] + 2 .. Len(out) /\ i \in 1 .. Len(out)
        BY <2>2, <2>8, <4>2
      <4> QED  BY <1>6, <4>1, <4>3
    <3>2. d \in DOMAIN out' /\ h < d /\ out'[d].is = "descriptor" /\ out'[d].size = a.size
      BY <1>4, <1>5, <1>6, <2>2, <2>6, <2>8, <2>9
    <3> QED  BY <2>7, <3>1, <3>2 DEF EntryLies
  <2> HIDE DEF f
  <2>11. \A k \in 1 .. n + 1 : EntryLies(f[k - 1] + 1, f[k], central[k])'
    <3> SUFFICES ASSUME NEW k \in 1 .. n + 1  PROVE EntryLies(f[k - 1] + 1, f[k], central[k])'
      OBVIOUS
    <3>1. CASE k \in 1 .. n
      <4>1. k \in 0 .. n /\ k - 1 \in 0 .. n
        BY <2>2, <3>1
      <4>2. f[k] = e[k] /\ f[k - 1] = e[k - 1]
        BY <2>3, <4>1
      <4>3. EntryLies(e[k - 1] + 1, e[k], central[k])'
        BY <2>4, <3>1
      <4> QED  BY <4>2, <4>3
    <3>2. CASE k = n + 1
      <4>1. f[k - 1] = e[n] /\ f[k] = d
        <5>1. k - 1 = n /\ n \in 0 .. n
          BY <2>2, <3>2
        <5> QED  BY <2>3, <2>9, <3>2, <5>1
      <4>2. central'[k] = a
        BY <1>7, <2>6, <2>12, <3>2
      <4>3. EntryLies(f[k - 1] + 1, f[k], a)'
        BY <2>5, <2>10, <4>1
      <4> QED  BY <4>2, <4>3
    <3> QED  BY <2>2, <3>1, <3>2
  <2>14. StartOf(Len(out) + 1)' = offset'
    <3>1. StartOf(Len(out) + 1) = offset + entry.written
      BY <1>1, <2>1 DEF LaidOut
    <3> QED  BY <1>1, <1>3, <1>5, <1>6, <3>1
  <2>15. f[0] = 0
    <3>1. 0 \in 0 .. n
      BY <2>2
    <3> QED  BY <2>1, <2>3, <3>1 DEF LaidOut
  <2>16. LaidOut(f)'
    BY <1>1, <2>2, <2>3, <2>11, <2>14, <2>15 DEF LaidOut
  <2>17. f \in [0 .. Len(central') -> 0 .. Len(out')]
    BY <2>2, <2>3
  <2> QED  BY <2>16, <2>17 DEF Laid
<1> QED  BY <1>1, <1>8, <1>11, <1>12, <1>13, UnfinishedOwes DEF ZipInv

-----------------------------------------------------------------------------
(* The directory.                                                          *)

\* Where the entries end grows with their number.
LEMMA EndsGrow ==
    ASSUME NEW n \in Nat, NEW m \in Nat, NEW e \in [0 .. n -> 0 .. m],
           \A k \in 1 .. n : e[k - 1] < e[k]
    PROVE  \A a, b \in 0 .. n : a < b => e[a] < e[b]
<1> DEFINE G == {c \in Nat : \A a \in 0 .. n : a < c /\ c <= n => e[a] < e[c]}
<1>0. \A k \in 0 .. n : e[k] \in Nat
  OBVIOUS
<1>1. 0 \in G
  OBVIOUS
<1>2. ASSUME NEW c \in Nat, c \in G  PROVE c + 1 \in G
  <2> SUFFICES ASSUME NEW a \in 0 .. n, a < c + 1, c + 1 <= n  PROVE e[a] < e[c + 1]
    OBVIOUS
  <2>1. e[c] < e[c + 1] /\ c \in 0 .. n /\ c + 1 \in 0 .. n
    <3>1. c + 1 \in 1 .. n /\ (c + 1) - 1 = c
      OBVIOUS
    <3> QED  BY <3>1
  <2>2. a = c \/ (a < c /\ e[a] < e[c])
    BY <1>2, <2>1
  <2> QED  BY <1>0, <2>1, <2>2
<1> HIDE DEF G
<1>3. \A c \in Nat : c \in G
  BY <1>1, <1>2, NaturalsInG
<1> QED  BY <1>3 DEF G

\* Each piece is of one entry.
LEMMA EntryOfPiece ==
    ASSUME NEW n \in Nat, NEW m \in Nat, NEW e \in [0 .. n -> 0 .. m], e[0] = 0, e[n] = m,
           NEW i \in 1 .. m
    PROVE  \E k \in 1 .. n : e[k - 1] < i /\ i <= e[k]
<1> DEFINE T == {k \in 0 .. n : i <= e[k]}
<1>1. n \in T /\ T \in SUBSET Nat
  OBVIOUS
<1>2. PICK k \in T : \A j \in T : k <= j
  BY <1>1, LeastNatural
<1>3. k # 0
  BY <1>2
<1>4. k - 1 \in 0 .. n /\ k - 1 \notin T /\ k \in 1 .. n
  BY <1>2, <1>3
<1>5. e[k - 1] < i
  <2>1. e[k - 1] \in Nat
    BY <1>4
  <2> QED  BY <1>4, <2>1
<1> QED  BY <1>2, <1>4, <1>5

\* What a reader makes of an entry that is what the record says.
AsRecorded(r) == [name |-> r.name, at |-> r.start, size |-> r.size, wide |-> r.zip64]

\* A field that carries U32Max has its number in the extra.
Widened(field, extra) == field = U32Max => extra # <<>>

\* Read so, a field gives the number it stands for.
LEMMA FieldRead ==
    ASSUME NEW v \in Nat, NEW big \in BOOLEAN, ~big => v <= U32Max
    PROVE  LET field == IF big THEN U32Max ELSE v
               extra == IF big THEN <<v>> ELSE <<>>
           IN  Widened(field, extra) => Or64(field, extra) = v
BY ZipAssumption DEF Widened, Or64

\* The directory's header says of an entry what the record does, in the fields
\* that tell.
LEMMA HeaderSays ==
    ASSUME NEW r \in Records, Fits(r, r.size)
    PROVE  /\ CentralHeader(r) \in Pieces /\ CentralHeader(r).is = "central"
           /\ CentralHeader(r).name = r.name
           /\ Widened(CentralHeader(r).at, CentralHeader(r).extraAt) =>
                  Or64(CentralHeader(r).at, CentralHeader(r).extraAt) = r.start
           /\ Widened(CentralHeader(r).size, CentralHeader(r).extraSize) =>
                  Or64(CentralHeader(r).size, CentralHeader(r).extraSize) = r.size
           /\ (CentralHeader(r).extraSize # <<>>) = r.zip64
<1> DEFINE bigSize == r.zip64 \/ r.size > U32Max
           bigOffset == r.start > U32Max
           h == [is |-> "central", name |-> r.name,
                 size |-> IF bigSize THEN U32Max ELSE r.size,
                 at |-> IF bigOffset THEN U32Max ELSE r.start,
                 extraSize |-> IF bigSize THEN <<r.size>> ELSE <<>>,
                 extraAt   |-> IF bigOffset THEN <<r.start>> ELSE <<>>,
                 len |-> IF bigSize \/ bigOffset THEN 2 ELSE 1]
<1>1. /\ r.name \in Int /\ r.size \in Nat /\ r.start \in Nat /\ r.zip64 \in BOOLEAN /\ U32Max \in Nat
      /\ ~r.zip64 => r.size <= U32Max
  BY ZipAssumption DEF Records, Fits
<1>2. CentralHeader(r) = h
  BY DEF CentralHeader
<1>3. bigSize = r.zip64
  BY <1>1
<1>4. <<r.size>> \in Seq(Nat) /\ <<r.start>> \in Seq(Nat) /\ <<>> \in Seq(Nat)
      /\ <<r.size>> # <<>> /\ <<r.start>> # <<>> /\ <<r.size>>[1] = r.size /\ <<r.start>>[1] = r.start
  BY <1>1
<1>5. h \in Pieces
  <2>1. /\ (IF bigSize THEN U32Max ELSE r.size) \in Nat
        /\ (IF bigOffset THEN U32Max ELSE r.start) \in Nat
        /\ (IF bigSize THEN <<r.size>> ELSE <<>>) \in Seq(Nat)
        /\ (IF bigOffset THEN <<r.start>> ELSE <<>>) \in Seq(Nat)
        /\ (IF bigSize \/ bigOffset THEN 2 ELSE 1) \in Nat
    BY <1>1, <1>4
  <2> HIDE DEF bigSize, bigOffset
  <2> QED  BY <1>1, <2>1 DEF Pieces
<1>6. /\ Widened(h.at, h.extraAt) => Or64(h.at, h.extraAt) = r.start
      /\ Widened(h.size, h.extraSize) => Or64(h.size, h.extraSize) = r.size
  <2>1. bigSize \in BOOLEAN /\ bigOffset \in BOOLEAN /\ (~bigOffset => r.start <= U32Max)
        /\ (~bigSize => r.size <= U32Max)
    BY <1>1
  <2> HIDE DEF bigSize, bigOffset
  <2> QED  BY <1>1, <2>1, FieldRead
<1>7. (h.extraSize # <<>>) = r.zip64
  BY <1>3, <1>4
<1>8. h.is = "central" /\ h.name = r.name
  OBVIOUS
<1> HIDE DEF h
<1> QED  BY <1>2, <1>5, <1>6, <1>7, <1>8

\* The first of D behind h.
FirstAfter(D, h) == Min({j \in D : j > h})

\* The k-th entry of s, which ends at e[k].
EntryOf(s, e, k) ==
    /\ e[k - 1] + 1 < e[k] /\ s[e[k - 1] + 1].is = "header" /\ s[e[k]].is = "descriptor"
    /\ \A i \in e[k - 1] + 2 .. e[k] - 1 : s[i].is = "data"

\* H holds the places of the pieces of one kind.
Those(s, kind, H) == \A i : i \in H <=> i \in DOMAIN s /\ s[i].is = kind

\* s is n entries, the last ending at m, and a directory behind them.
EntriesThenDirectory(s, n, m, e) ==
    /\ e[0] = 0 /\ e[n] = m
    /\ DOMAIN s = 1 .. Len(s) /\ Len(s) \in Nat /\ m <= Len(s)
    /\ \A i \in m + 1 .. Len(s) : s[i].is \in {"central", "end"}
    /\ \A k \in 1 .. n : EntryOf(s, e, k)

\* H and D are where the n entries begin and end.
AreEntries(n, e, H, D) ==
    /\ Cardinality(H) = n
    /\ \A k \in 1 .. n : Nth(H, k) = e[k - 1] + 1 /\ FirstAfter(D, e[k - 1] + 1) = e[k]

\* What the reader of the stream finds of the entries, and that they are all.
LEMMA StreamFinds ==
    ASSUME NEW n \in Nat, NEW m \in Nat, NEW e \in [0 .. n -> 0 .. m],
           NEW s, EntriesThenDirectory(s, n, m, e),
           NEW H, Those(s, "header", H), NEW D, Those(s, "descriptor", D)
    PROVE  AreEntries(n, e, H, D)
<1>0. \A k \in 1 .. n : /\ e[k - 1] + 1 < e[k]
                        /\ s[e[k - 1] + 1].is = "header" /\ s[e[k]].is = "descriptor"
                        /\ \A i \in e[k - 1] + 2 .. e[k] - 1 : s[i].is = "data"
  BY DEF EntryOf, EntriesThenDirectory
<1>a. /\ e[0] = 0 /\ e[n] = m /\ DOMAIN s = 1 .. Len(s) /\ Len(s) \in Nat /\ m <= Len(s)
      /\ \A i \in m + 1 .. Len(s) : s[i].is \in {"central", "end"}
      /\ \A i : i \in H <=> i \in DOMAIN s /\ s[i].is = "header"
      /\ \A i : i \in D <=> i \in DOMAIN s /\ s[i].is = "descriptor"
  BY DEF EntriesThenDirectory, Those
<1> USE <1>0, <1>a
<1>1. \A k \in 0 .. n : e[k] \in 0 .. m
  OBVIOUS
<1>2. \A k \in 1 .. n : k \in 0 .. n /\ k - 1 \in 0 .. n /\ e[k - 1] < e[k]
  BY <1>1
<1>3. \A a, b \in 0 .. n : a < b => e[a] < e[b]
  BY <1>2, EndsGrow
<1>4. ASSUME NEW i \in 1 .. m
      PROVE  \E k \in 1 .. n :
                /\ e[k - 1] < i /\ i <= e[k]
                /\ \/ i = e[k - 1] + 1 /\ s[i].is = "header"
                   \/ i = e[k] /\ s[i].is = "descriptor"
                   \/ i # e[k - 1] + 1 /\ i # e[k] /\ s[i].is = "data"
  <2>1. PICK k \in 1 .. n : e[k - 1] < i /\ i <= e[k]
    BY EntryOfPiece
  <2>2. e[k - 1] \in Nat /\ e[k] \in Nat /\ i \in Nat
    BY <1>1, <1>2
  <2>3. i = e[k - 1] + 1 \/ i = e[k] \/ i \in e[k - 1] + 2 .. e[k] - 1
    <3> DEFINE x == e[k - 1]
               y == e[k]
    <3>1. x \in Nat /\ y \in Nat /\ i \in Nat /\ x < i /\ i <= y
      BY <2>1, <2>2
    <3> HIDE DEF x, y
    <3>2. i = x + 1 \/ i = y \/ i \in x + 2 .. y - 1
      BY <3>1
    <3> QED  BY <3>2 DEF x, y
  <2>4. e[k - 1] < i /\ i <= e[k] /\ EntryOf(s, e, k)
    BY <2>1 DEF EntriesThenDirectory
  <2>5. \/ i = e[k - 1] + 1 /\ s[i].is = "header"
        \/ i = e[k] /\ s[i].is = "descriptor"
        \/ i # e[k - 1] + 1 /\ i # e[k] /\ s[i].is = "data"
    BY ONLY <2>3, <2>4 DEF EntryOf
  <2> QED  BY ONLY <2>4, <2>5
<1> DEFINE g == [k \in 1 .. n |-> e[k - 1] + 1]
<1>5. g \in [1 .. n -> H]
  <2> SUFFICES ASSUME NEW k \in 1 .. n  PROVE e[k - 1] + 1 \in H
    OBVIOUS
  <2>1. e[k - 1] + 1 \in 1 .. Len(s)
    <3> DEFINE x == e[k - 1]
               y == e[k]
    <3>1. x \in 0 .. m /\ y \in 0 .. m /\ x < y
      BY <1>1, <1>2
    <3> HIDE DEF x, y
    <3>2. x + 1 \in 1 .. Len(s)
      BY <3>1
    <3> QED  BY <3>2 DEF x
  <2> QED  BY <2>1
<1>6. H \in SUBSET (1 .. Len(s))
  OBVIOUS
<1>7. ASSUME NEW a \in 1 .. n, NEW b \in 1 .. n, a < b  PROVE g[a] < g[b]
  <2>1. a - 1 \in 0 .. n /\ b - 1 \in 0 .. n /\ a - 1 < b - 1
    BY <1>7
  <2>2. e[a - 1] < e[b - 1] /\ e[a - 1] \in Nat /\ e[b - 1] \in Nat
    BY <1>1, <1>3, <2>1
  <2> QED  BY <2>2
<1>8. ASSUME NEW i \in H  PROVE \E k \in 1 .. n : g[k] = i
  <2>1. i \in 1 .. m
    <3>1. i \notin m + 1 .. Len(s)
      OBVIOUS
    <3> QED  BY <1>6, <3>1
  <2>2. PICK k \in 1 .. n :
                \/ i = e[k - 1] + 1 /\ s[i].is = "header"
                \/ i = e[k] /\ s[i].is = "descriptor"
                \/ i # e[k - 1] + 1 /\ i # e[k] /\ s[i].is = "data"
    BY <1>4, <2>1
  <2>3. i = e[k - 1] + 1
    BY <2>2
  <2> QED  BY <2>3
<1> HIDE DEF g
<1>9. Cardinality(H) = n /\ \A k \in 1 .. n : Nth(H, k) = g[k]
  <2> DEFINE l == Len(s)
  <2>1. n \in Nat /\ l \in Nat /\ H \in SUBSET (1 .. l)
    BY <1>6
  <2>2. /\ \A a, b \in 1 .. n : a < b => g[a] < g[b]
        /\ \A i \in H : \E k \in 1 .. n : g[k] = i
    BY <1>7, <1>8
  <2> HIDE DEF l
  <2>3. Enumerates(g, n, H)
    BY ONLY <1>5, <2>2 DEF Enumerates
  <2> QED  BY ONLY <2>1, <2>3, Enumerated
<1>10. ASSUME NEW k \in 1 .. n  PROVE Min({j \in D : j > e[k - 1] + 1}) = e[k]
  <2> DEFINE T == {j \in D : j > e[k - 1] + 1}
  <2>0. e[k - 1] \in 0 .. m /\ e[k] \in 0 .. m
    BY <1>1, <1>2
  <2>1. e[k] \in T
    <3>1. e[k] \in 1 .. Len(s) /\ s[e[k]].is = "descriptor" /\ e[k] > e[k - 1] + 1
      BY <2>0
    <3> QED  BY <3>1
  <2>2. ASSUME NEW j \in T  PROVE e[k] <= j
    <3>1. j \in 1 .. m
      <4>1. j \in 1 .. Len(s) /\ j \notin m + 1 .. Len(s)
        OBVIOUS
      <4> QED  BY <4>1
    <3>2. ~(j < e[k])
      <4>1. ASSUME j < e[k]  PROVE FALSE
        <5>1. j \in e[k - 1] + 2 .. e[k] - 1
          BY <2>0, <3>1, <4>1
        <5> QED  BY <5>1
      <4> QED  BY <4>1
    <3> QED  BY <2>0, <3>1, <3>2
  <2>3. T \in SUBSET Nat
    OBVIOUS
  <2> HIDE DEF T
  <2>4. Min(T) \in T /\ \A j \in T : Min(T) <= j
    BY <2>1, <2>3, MinOfSet
  <2>5. Min(T) \in Nat /\ e[k] \in Nat /\ e[k] <= Min(T) /\ Min(T) <= e[k]
    BY <2>0, <2>1, <2>2, <2>3, <2>4
  <2> QED  BY <2>5 DEF T
<1> QED  BY <1>9, <1>10 DEF g, FirstAfter, AreEntries

\* The archive with its directory.
LEMMA ClosedArchive ==
    ASSUME ZipInv, Directory
    PROVE  /\ central \in Seq(Records) /\ Len(central) \in Nat /\ Len(out) \in Nat
           /\ out' \in Seq(Pieces) /\ Len(out') = Len(out) + Len(central) + 1
           /\ DOMAIN out' = 1 .. Len(out) + Len(central) + 1
           /\ \A i \in 1 .. Len(out) : out'[i] = out[i]
           /\ \A k \in 1 .. Len(central) : out'[Len(out) + k] = CentralHeader(central[k])
           /\ out'[Len(out) + Len(central) + 1].is = "end"
           /\ LET end == out'[Len(out) + Len(central) + 1]
              IN  Widened(end.at, end.extraAt) => Or64(end.at, end.extraAt) = offset
           /\ \A i \in 1 .. Len(out) + 1 : StartOf(i)' = StartOf(i)
           /\ \A k \in 1 .. Len(central) : central[k] \in Records /\ Fits(central[k], central[k].size)
<1> DEFINE headers == [i \in DOMAIN central |-> CentralHeader(central[i])]
           cdSize  == SumFunction([i \in DOMAIN headers |-> headers[i].len])
           last == EndOfCentralDirectory(cdSize, offset)
<1>1. /\ central \in Seq(Records) /\ Len(central) \in Nat /\ DOMAIN central = 1 .. Len(central)
      /\ out \in Seq(Pieces) /\ Len(out) \in Nat /\ offset \in Nat /\ U32Max \in Nat
  BY ZipAssumption, LenProperties DEF ZipInv, WriterHolds
<1>2. \A k \in 1 .. Len(central) : central[k] \in Records /\ Fits(central[k], central[k].size)
  BY <1>1, ElementOfSeq DEF ZipInv, WriterHolds
<1>3. headers \in Seq(Pieces) /\ Len(headers) = Len(central)
      /\ \A k \in 1 .. Len(central) : headers[k] = CentralHeader(central[k])
  <2>1. \A k \in 1 .. Len(central) : CentralHeader(central[k]) \in Pieces
    BY <1>2, HeaderSays
  <2> QED  BY <1>1, <2>1
<1>4. out' = Append(out \o headers, last)
  BY DEF Directory
<1> HIDE DEF headers, cdSize
<1>5. /\ last \in Pieces /\ last.is = "end"
      /\ Widened(last.at, last.extraAt) => Or64(last.at, last.extraAt) = offset
  <2> DEFINE extra(n64) == IF n64 THEN <<offset>> ELSE <<>>
  <2>1. <<offset>> \in Seq(Nat) /\ <<offset>> # <<>> /\ <<offset>>[1] = offset /\ <<>> \in Seq(Nat)
    BY <1>1
  <2>2. PICK n64 : /\ last = [is |-> "end", at |-> Capped(offset), len |-> 1, extraAt |-> extra(n64)]
                   /\ n64 \in BOOLEAN /\ (~n64 => offset <= U32Max)
    <3> DEFINE any64 == \E i \in DOMAIN central :
                           central[i].zip64 \/ central[i].size > U32Max \/ central[i].start > U32Max
               needs64 == any64 \/ cdSize > U32Max \/ offset > U32Max
    <3>1. last = [is |-> "end", at |-> Capped(offset), len |-> 1, extraAt |-> extra(needs64)]
      BY DEF EndOfCentralDirectory
    <3>2. needs64 \in BOOLEAN /\ (~needs64 => offset <= U32Max)
      BY <1>1
    <3> HIDE DEF needs64, last
    <3> QED  BY <3>1, <3>2
  <2>3. Capped(offset) \in Nat /\ (offset <= U32Max => Capped(offset) = offset)
    BY <1>1 DEF Capped
  <2> HIDE DEF last
  <2>4. extra(n64) \in Seq(Nat)
    BY <2>1
  <2>5. last \in Pieces
    <3> HIDE DEF extra
    <3> QED  BY <2>2, <2>3, <2>4 DEF Pieces
  <2>6. Widened(last.at, last.extraAt) => Or64(last.at, last.extraAt) = offset
    <3>1. last.at = Capped(offset) /\ last.extraAt = extra(n64)
      BY <2>2
    <3>2. CASE n64
      <4>1. last.extraAt = <<offset>>
        BY <3>1, <3>2
      <4>2. CASE offset > U32Max
        <5>1. last.at = U32Max
          BY <3>1, <4>2, <1>1 DEF Capped
        <5> QED  BY <2>1, <4>1, <5>1 DEF Or64
      <4>3. CASE offset <= U32Max
        BY <2>1, <2>3, <3>1, <4>1, <4>3 DEF Or64
      <4> QED  BY <1>1, <4>2, <4>3
    <3>3. CASE ~n64
      BY <2>2, <2>3, <3>1, <3>3 DEF Or64, Widened
    <3> QED  BY <2>2, <3>2, <3>3
  <2> QED  BY <2>2, <2>5, <2>6
<1> HIDE DEF last
<1>6. /\ out \o headers \in Seq(Pieces) /\ Len(out \o headers) = Len(out) + Len(central)
      /\ \A i \in 1 .. Len(out) + Len(central) :
            (out \o headers)[i] = IF i <= Len(out) THEN out[i] ELSE headers[i - Len(out)]
  <2>1. /\ out \o headers \in Seq(Pieces) /\ Len(out \o headers) = Len(out) + Len(headers)
        /\ \A i \in 1 .. Len(out) + Len(headers) :
              (out \o headers)[i] = IF i <= Len(out) THEN out[i] ELSE headers[i - Len(out)]
    BY ONLY <1>1, <1>3, ConcatProperties
  <2> QED  BY ONLY <1>3, <2>1
<1>7. /\ out' \in Seq(Pieces) /\ Len(out') = Len(out) + Len(central) + 1
      /\ DOMAIN out' = 1 .. Len(out) + Len(central) + 1
      /\ \A i \in 1 .. Len(out) + Len(central) : out'[i] = (out \o headers)[i]
      /\ out'[Len(out) + Len(central) + 1] = last
  <2> DEFINE t == out \o headers
             l == Len(out) + Len(central)
  <2>1. t \in Seq(Pieces) /\ Len(t) = l /\ out' = Append(t, last) /\ l \in Nat
    BY <1>1, <1>4, <1>6
  <2> HIDE DEF t, l
  <2>2. /\ out' \in Seq(Pieces) /\ Len(out') = l + 1 /\ DOMAIN out' = 1 .. l + 1
        /\ \A i \in 1 .. l : out'[i] = t[i]
        /\ out'[l + 1] = last
    BY <1>5, <2>1, AppendProperties, LenProperties
  <2> QED  BY <2>2 DEF t, l
<1>8. ASSUME NEW i \in 1 .. Len(out)  PROVE out'[i] = out[i]
  <2>1. i \in 1 .. Len(out) + Len(central) /\ i <= Len(out)
    BY <1>1
  <2> QED  BY <1>6, <1>7, <2>1
<1>9. \A k \in 1 .. Len(central) : out'[Len(out) + k] = CentralHeader(central[k])
  <2> SUFFICES ASSUME NEW k \in 1 .. Len(central)
               PROVE  out'[Len(out) + k] = CentralHeader(central[k])
    OBVIOUS
  <2>1. /\ Len(out) + k \in 1 .. Len(out) + Len(central) /\ ~(Len(out) + k <= Len(out))
        /\ (Len(out) + k) - Len(out) = k
    BY <1>1
  <2> QED  BY <1>3, <1>6, <1>7, <2>1
<1>10. \A i \in 1 .. Len(out) + 1 : StartOf(i)' = StartOf(i)
  <2>1. Len(out) <= Len(out) /\ Len(out) <= Len(out')
    BY <1>1, <1>7
  <2>2. \A i \in 1 .. Len(out) + 1 : Before(out', i) = Before(out, i)
    BY <1>1, <1>7, <1>8, <2>1, BeforeSame
  <2> QED  BY <2>2 DEF StartOf, Before
<1> QED  BY <1>1, <1>2, <1>5, <1>7, <1>8, <1>9, <1>10

\* The reader of the stream finds what was written.
LEMMA StreamedIs ==
    ASSUME ZipInv, Directory
    PROVE  Streamed' = [k \in 1 .. Len(central) |-> AsRecorded(central[k])]
<1> DEFINE n == Len(central)
           m == Len(out)
           s == out'
           H == {i \in DOMAIN out' : out'[i].is = "header"}
           D == {i \in DOMAIN out' : out'[i].is = "descriptor"}
<1>1. /\ central \in Seq(Records) /\ n \in Nat /\ m \in Nat
      /\ s \in Seq(Pieces) /\ Len(s) = m + n + 1
      /\ DOMAIN s = 1 .. m + n + 1
      /\ \A i \in 1 .. m : s[i] = out[i]
      /\ \A k \in 1 .. n : s[m + k].is = "central"
      /\ s[m + n + 1].is = "end"
      /\ \A i \in 1 .. m + 1 : Before(s, i) = StartOf(i)
  <2>1. /\ central \in Seq(Records) /\ n \in Nat /\ m \in Nat
        /\ s \in Seq(Pieces) /\ Len(s) = m + n + 1
        /\ DOMAIN s = 1 .. m + n + 1
        /\ \A i \in 1 .. m : s[i] = out[i]
        /\ s[m + n + 1].is = "end"
    BY ONLY ZipInv, Directory, ClosedArchive
  <2>2. \A k \in 1 .. n : s[m + k].is = "central"
    <3>1. \A k \in 1 .. n : /\ s[m + k] = CentralHeader(central[k])
                            /\ central[k] \in Records /\ Fits(central[k], central[k].size)
      BY ONLY ZipInv, Directory, ClosedArchive
    <3> QED  BY ONLY <3>1, HeaderSays
  <2>3. \A i \in 1 .. m + 1 : Before(s, i) = StartOf(i)
    <3>1. \A i \in 1 .. m + 1 : StartOf(i)' = StartOf(i)
      BY ONLY ZipInv, Directory, ClosedArchive
    <3> QED  BY ONLY <3>1 DEF StartOf, Before
  <2> QED  BY ONLY <2>1, <2>2, <2>3
<1>2. PICK e \in [0 .. Len(central) -> 0 .. Len(out)] : LaidOut(e)
  BY DEF ZipInv, Directory, Laid
<1>3. /\ e[0] = 0 /\ e[n] = m
      /\ \A k \in 1 .. n : EntryLies(e[k - 1] + 1, e[k], central[k])
  BY <1>2 DEF LaidOut, Directory
<1>4. /\ \A i : i \in H <=> i \in DOMAIN s /\ s[i].is = "header"
      /\ \A i : i \in D <=> i \in DOMAIN s /\ s[i].is = "descriptor"
  OBVIOUS
<1>5. DOMAIN out = 1 .. m
  BY LenProperties DEF ZipInv, WriterHolds
<1>6. Streamed' = [k \in 1 .. Cardinality(H) |->
                      [name |-> s[Nth(H, k)].name, at |-> Before(s, Nth(H, k)),
                       size |-> s[FirstAfter(D, Nth(H, k))].size,
                       wide |-> s[Nth(H, k)].extra]]
  BY DEF Streamed, At, StartOf, Before, FirstAfter
<1>7. ASSUME NEW k \in 1 .. n
      PROVE  /\ e[k - 1] + 1 < e[k] /\ e[k - 1] + 1 \in 1 .. m /\ e[k] \in 1 .. m
             /\ s[e[k - 1] + 1].is = "header" /\ s[e[k]].is = "descriptor"
             /\ \A i \in e[k - 1] + 2 .. e[k] - 1 : s[i].is = "data"
             /\ s[e[k - 1] + 1].name = central[k].name /\ s[e[k - 1] + 1].extra = central[k].zip64
             /\ StartOf(e[k - 1] + 1) = central[k].start /\ s[e[k]].size = central[k].size
  <2> DEFINE h == e[k - 1] + 1
             d == e[k]
  <2>1. EntryLies(h, d, central[k]) /\ HeaderLies(h, central[k])
    BY <1>3 DEF EntryLies
  <2>2. d \in DOMAIN out /\ h \in DOMAIN out /\ h < d
    BY <2>1 DEF EntryLies, HeaderLies
  <2>3. d \in 1 .. m /\ h \in 1 .. m /\ h < d
    BY <1>5, <2>2
  <2>4. \A i \in h + 1 .. d - 1 : i \in 1 .. m
    BY <2>3
  <2>5. e[k - 1] + 2 = h + 1
    <3>1. k - 1 \in 0 .. n
      BY <1>1
    <3>2. e[k - 1] \in Nat
      BY <1>2, <3>1
    <3> QED  BY <3>2
  <2> HIDE DEF h, d, n, m, s
  <2>6. /\ s[h].is = "header" /\ s[d].is = "descriptor"
        /\ \A i \in h + 1 .. d - 1 : s[i].is = "data"
        /\ s[h].name = central[k].name /\ s[h].extra = central[k].zip64
        /\ StartOf(h) = central[k].start /\ s[d].size = central[k].size
    BY <1>1, <2>1, <2>3, <2>4 DEF EntryLies, HeaderLies
  <2>7. \A i \in e[k - 1] + 2 .. e[k] - 1 : s[i].is = "data"
    BY <2>5, <2>6 DEF d
  <2> QED  BY <2>3, <2>6, <2>7 DEF h, d
<1>8. \A i \in m + 1 .. Len(s) : s[i].is \in {"central", "end"}
  <2> SUFFICES ASSUME NEW i \in m + 1 .. Len(s)  PROVE s[i].is \in {"central", "end"}
    OBVIOUS
  <2>1. i = m + n + 1 \/ (i - m \in 1 .. n /\ m + (i - m) = i)
    <3> HIDE DEF m, n, s
    <3> QED  BY <1>1
  <2> QED  BY <1>1, <2>1
<1>9. e \in [0 .. n -> 0 .. m] /\ DOMAIN s = 1 .. Len(s) /\ Len(s) \in Nat /\ m <= Len(s)
  <2>1. e \in [0 .. n -> 0 .. m]
    BY <1>2
  <2> HIDE DEF m, n, s
  <2> QED  BY <1>1, <2>1
<1> HIDE DEF n, m, s, H, D
<1>10. /\ Cardinality(H) = n
       /\ \A k \in 1 .. n : Nth(H, k) = e[k - 1] + 1
       /\ \A k \in 1 .. n : FirstAfter(D, e[k - 1] + 1) = e[k]
  <2>1. n \in Nat /\ m \in Nat /\ EntriesThenDirectory(s, n, m, e)
    BY <1>1, <1>3, <1>7, <1>8, <1>9 DEF EntryOf, EntriesThenDirectory
  <2>2. Those(s, "header", H) /\ Those(s, "descriptor", D)
    BY <1>4 DEF Those
  <2>3. AreEntries(n, e, H, D)
    BY ONLY <1>9, <2>1, <2>2, StreamFinds
  <2> QED  BY <2>3 DEF AreEntries
<1>11. ASSUME NEW k \in 1 .. n
       PROVE  [name |-> s[Nth(H, k)].name, at |-> Before(s, Nth(H, k)),
               size |-> s[FirstAfter(D, Nth(H, k))].size,
               wide |-> s[Nth(H, k)].extra] = AsRecorded(central[k])
  <2>1. PICK h : h = e[k - 1] + 1
    OBVIOUS
  <2>2. Nth(H, k) = h /\ FirstAfter(D, Nth(H, k)) = e[k] /\ h \in 1 .. m
    BY <1>7, <1>10, <2>1
  <2>3. h \in 1 .. m + 1
    BY <1>1, <2>2
  <2>4. Before(s, Nth(H, k)) = StartOf(h)
    BY <1>1, <2>2, <2>3
  <2>5. /\ s[h].name = central[k].name /\ s[h].extra = central[k].zip64
        /\ StartOf(h) = central[k].start /\ s[e[k]].size = central[k].size
    BY <1>7, <2>1
  <2> QED  BY <2>2, <2>3, <2>4, <2>5 DEF AsRecorded
<1>12. Streamed' = [k \in 1 .. n |-> AsRecorded(central[k])]
  BY <1>6, <1>10, <1>11
<1> QED  BY <1>12 DEF n

\* Before the directory the archive holds the entries' pieces only.
LEMMA PiecesOfEntries ==
    ASSUME ZipInv, Directory
    PROVE  \A i \in 1 .. Len(out) : out[i].is \in {"header", "data", "descriptor"}
<1> DEFINE n == Len(central)
           m == Len(out)
<1>1. PICK e \in [0 .. n -> 0 .. m] : LaidOut(e)
  BY DEF ZipInv, Directory, Laid
<1>2. /\ e[0] = 0 /\ e[n] = m /\ n \in Nat /\ m \in Nat
      /\ \A k \in 1 .. n : EntryLies(e[k - 1] + 1, e[k], central[k])
  BY <1>1, LenProperties DEF LaidOut, Directory, ZipInv, WriterHolds
<1> HIDE DEF n, m
<1>3. ASSUME NEW i \in 1 .. m  PROVE out[i].is \in {"header", "data", "descriptor"}
  <2>1. PICK k \in 1 .. n : e[k - 1] < i /\ i <= e[k]
    BY ONLY <1>1, <1>2, <1>3, EntryOfPiece
  <2>2. k - 1 \in 0 .. n /\ k \in 0 .. n
    BY <1>2
  <2>3. e[k - 1] \in Nat /\ e[k] \in Nat /\ i \in Nat
    BY <1>1, <1>2, <2>2
  <2>4. EntryLies(e[k - 1] + 1, e[k], central[k])
    BY <1>2
  <2> DEFINE h == e[k - 1] + 1
             d == e[k]
  <2>5. h \in Nat /\ d \in Nat /\ h <= i /\ i <= d /\ EntryLies(h, d, central[k])
    BY <2>1, <2>3, <2>4
  <2> HIDE DEF h, d
  <2>6. i = h \/ i = d \/ i \in h + 1 .. d - 1
    BY <2>3, <2>5
  <2> QED  BY <2>5, <2>6 DEF EntryLies, HeaderLies
<1> QED  BY <1>3 DEF m

\* The reader of the directory finds what was written.
LEMMA SeekedIs ==
    ASSUME ZipInv, Directory
    PROVE  /\ DOMAIN Seeked' = 1 .. Len(central)
           /\ \A k \in 1 .. Len(central) : Seeked'[k].name = central[k].name
           /\ SentinelMeansZip64' =>
                 /\ Seeked' = [k \in 1 .. Len(central) |-> AsRecorded(central[k])]
                 /\ Or64(Last(out').at, Last(out').extraAt) = offset
           /\ Min({i \in DOMAIN out' : out'[i].is = "central"}
                     \cup {i \in DOMAIN out' : out'[i].is = "end"}) = Len(out) + 1
<1> DEFINE n == Len(central)
           m == Len(out)
           s == out'
           t == [k \in 1 .. n |-> CentralHeader(central[k])]
           C == {i \in DOMAIN s : s[i].is = "central"}
           E == {i \in DOMAIN s : s[i].is = "end"}
           g == [k \in 1 .. n |-> m + k]
<1>1. /\ n \in Nat /\ m \in Nat /\ s \in Seq(Pieces) /\ Len(s) = m + n + 1
      /\ DOMAIN s = 1 .. m + n + 1
      /\ \A i \in 1 .. m : s[i] = out[i]
      /\ \A k \in 1 .. n : s[m + k] = CentralHeader(central[k])
      /\ s[m + n + 1].is = "end"
      /\ Widened(s[m + n + 1].at, s[m + n + 1].extraAt) =>
             Or64(s[m + n + 1].at, s[m + n + 1].extraAt) = offset
      /\ \A k \in 1 .. n : central[k] \in Records /\ Fits(central[k], central[k].size)
  BY ClosedArchive
<1>17. SentinelMeansZip64' =>
         /\ \A i \in C : Widened(s[i].size, s[i].extraSize) /\ Widened(s[i].at, s[i].extraAt)
         /\ \A i \in E : Widened(s[i].at, s[i].extraAt)
  BY DEF SentinelMeansZip64, At, Widened
<1>2. \A i \in 1 .. m : s[i].is \in {"header", "data", "descriptor"}
  BY <1>1, PiecesOfEntries
<1>3. Seeked' = [k \in DOMAIN Only(s, C) |->
                    [name |-> Only(s, C)[k].name,
                     at |-> Or64(Only(s, C)[k].at, Only(s, C)[k].extraAt),
                     size |-> Or64(Only(s, C)[k].size, Only(s, C)[k].extraSize),
                     wide |-> Only(s, C)[k].extraSize # <<>>]]
  BY DEF Seeked, At
<1>4. /\ t \in Seq(Pieces) /\ Len(t) = n /\ DOMAIN t = 1 .. n
      /\ \A k \in 1 .. n : /\ t[k] = s[m + k] /\ t[k] \in Pieces /\ t[k].is = "central"
                           /\ t[k].name = central[k].name
                           /\ Widened(t[k].at, t[k].extraAt) =>
                                  Or64(t[k].at, t[k].extraAt) = central[k].start
                           /\ Widened(t[k].size, t[k].extraSize) =>
                                  Or64(t[k].size, t[k].extraSize) = central[k].size
                           /\ (t[k].extraSize # <<>>) = central[k].zip64
  <2>1. \A k \in 1 .. n : /\ t[k] = s[m + k] /\ t[k] \in Pieces /\ t[k].is = "central"
                          /\ t[k].name = central[k].name
                          /\ Widened(t[k].at, t[k].extraAt) =>
                                 Or64(t[k].at, t[k].extraAt) = central[k].start
                          /\ Widened(t[k].size, t[k].extraSize) =>
                                 Or64(t[k].size, t[k].extraSize) = central[k].size
                          /\ (t[k].extraSize # <<>>) = central[k].zip64
    BY <1>1, HeaderSays
  <2>2. t \in Seq(Pieces) /\ Len(t) = n /\ DOMAIN t = 1 .. n
    BY <1>1, <2>1
  <2> HIDE DEF t
  <2> QED  BY <2>1, <2>2
<1>5. \A k \in 1 .. n : g[k] = m + k
  OBVIOUS
<1>6. DOMAIN g = 1 .. n /\ g = [k \in 1 .. n |-> g[k]]
  OBVIOUS
<1> HIDE DEF n, m, s, t, g
<1>7. \A i \in 1 .. m + n + 1 : i \in 1 .. m \/ i = m + n + 1 \/ (i - m \in 1 .. n /\ m + (i - m) = i)
  BY <1>1
<1>8. ASSUME NEW i  PROVE i \in C <=> i \in m + 1 .. m + n
  <2>1. ASSUME i \in C  PROVE i \in m + 1 .. m + n
    <3>1. i \in 1 .. m + n + 1 /\ i \notin 1 .. m /\ i # m + n + 1
      BY <1>1, <1>2, <2>1
    <3> QED  BY <1>1, <3>1
  <2>2. ASSUME i \in m + 1 .. m + n  PROVE i \in C
    <3>1. i \in DOMAIN s /\ i - m \in 1 .. n /\ m + (i - m) = i
      BY SMTT(30), <1>1, <2>2
    <3> QED  BY <1>4, <3>1
  <2> QED  BY <2>1, <2>2
<1> HIDE DEF C
<1>9. C \in SUBSET DOMAIN s /\ C \in SUBSET Nat
  BY <1>1, <1>8
<1>10. \A k \in 1 .. n : g[k] \in C /\ g[k] = m + k
  BY <1>1, <1>5, <1>8
<1>11. g \in [1 .. n -> C]
  BY <1>6, <1>10
<1>12. \A i \in C : \E k \in 1 .. n : g[k] = i
  <2> SUFFICES ASSUME NEW i \in C  PROVE \E k \in 1 .. n : g[k] = i
    OBVIOUS
  <2>1. i - m \in 1 .. n /\ m + (i - m) = i
    BY <1>1, <1>8
  <2> QED  BY <1>10, <2>1
<1>13. Only(s, C) = t
  <2>1. /\ g \in [1 .. Len(t) -> C] /\ \A i \in C : \E k \in 1 .. Len(t) : g[k] = i
        /\ \A a, b \in 1 .. Len(t) : a < b => g[a] < g[b]
        /\ \A k \in 1 .. Len(t) : t[k] = s[g[k]]
    BY <1>1, <1>4, <1>10, <1>11, <1>12
  <2>2. s \in Seq(Pieces) /\ t \in Seq(Pieces)
    BY <1>1, <1>4
  <2> HIDE DEF g, t
  <2>3. Matches(s, C, t, g)
    BY <2>1 DEF Matches
  <2> QED  BY ONLY <1>9, <2>2, <2>3, OnlyMatches
<1>14. DOMAIN Seeked' = 1 .. n /\ \A k \in 1 .. n : Seeked'[k].name = central[k].name
  BY <1>3, <1>4, <1>13
<1>15. Last(s) = s[m + n + 1]
  BY <1>1 DEF Last
<1>18. ASSUME SentinelMeansZip64'
       PROVE  /\ Seeked' = [k \in 1 .. n |-> AsRecorded(central[k])]
              /\ Or64(Last(s).at, Last(s).extraAt) = offset
  <2>1. \A k \in 1 .. n : Widened(t[k].size, t[k].extraSize) /\ Widened(t[k].at, t[k].extraAt)
    BY <1>4, <1>10, <1>17, <1>18
  <2>2. \A k \in 1 .. n : /\ Or64(t[k].at, t[k].extraAt) = central[k].start
                          /\ Or64(t[k].size, t[k].extraSize) = central[k].size
    BY <1>4, <2>1
  <2>3. m + n + 1 \in E
    BY <1>1
  <2>4. Widened(s[m + n + 1].at, s[m + n + 1].extraAt)
    BY <1>17, <1>18, <2>3
  <2>5. Seeked' = [k \in 1 .. n |-> AsRecorded(central[k])]
    BY <1>3, <1>4, <1>13, <2>2 DEF AsRecorded
  <2> QED  BY <1>1, <1>15, <2>4, <2>5
<1>16. Min(C \cup E) = m + 1
  <2>1. ASSUME NEW i  PROVE i \in E <=> i = m + n + 1
    <3>1. ASSUME i \in E  PROVE i = m + n + 1
      <4>1. i \in 1 .. m + n + 1 /\ i \notin 1 .. m
        BY <1>1, <1>2, <3>1
      <4>2. ~(i - m \in 1 .. n /\ m + (i - m) = i)
        BY <1>4, <3>1
      <4> QED  BY <1>7, <4>1, <4>2
    <3> QED  BY <1>1, <3>1
  <2> HIDE DEF E
  <2> DEFINE U == C \cup E
  <2>2. \A i : i \in U <=> i \in m + 1 .. m + n + 1
    BY <1>1, <1>8, <2>1
  <2> HIDE DEF U
  <2>3. U \in SUBSET Nat /\ m + 1 \in U
    BY <1>1, <2>2
  <2>4. Min(U) \in U /\ \A j \in U : Min(U) <= j
    BY <2>3, MinOfSet
  <2>5. Min(U) \in m + 1 .. m + n + 1 /\ Min(U) <= m + 1
    BY <2>2, <2>3, <2>4
  <2> QED  BY <1>1, <2>5 DEF U
<1> QED  BY <1>14, <1>16, <1>18 DEF n, m, s, C

\* With the directory written each track is answered.
LEMMA DirectoryAnswers ==
    ASSUME ZipInv, Directory, zipPhase' = "closed", UNCHANGED <<plan, missing, central>>
    PROVE  EveryTrackAnswered'
<1> DEFINE names == [k \in 1 .. Len(central) |-> central[k].name]
           F == {i \in DOMAIN plan : plan[i] \notin ToSet(missing)}
           L == {i \in DOMAIN plan : plan[i] \in ToSet(missing)}
           R == 1 .. MaxRows
<1> USE PlanFacts
<1>1. /\ zipPhase = "next" /\ Accounted /\ PlanOfRows
      /\ turn > Len(plan) + (IF missing = <<>> THEN 0 ELSE 1)
      /\ central \in Seq(Records) /\ Len(central) \in Nat
      /\ DOMAIN central = 1 .. Len(central)
  BY LenProperties DEF Directory, ZipInv, WriterHolds
<1>2. DOMAIN Seeked' = 1 .. Len(central) /\ \A k \in 1 .. Len(central) : Seeked'[k].name = central[k].name
  BY SeekedIs
<1>3. [k \in DOMAIN Seeked |-> Seeked[k].name]' = names
  BY <1>2
<1>4. Found = F /\ Lost = L
  <2>1. \A i \in DOMAIN plan : i < turn
    BY <1>1
  <2> QED  BY <2>1 DEF Found, Lost
<1>5. Only(plan, L) = missing
  BY <1>1, <1>4 DEF Accounted
<1>6. names = IF turn = Len(plan) + 2 THEN Append(Only(plan, F), Manifest) ELSE Only(plan, F)
  BY <1>1, <1>4 DEF Accounted, Names
<1>7. Only(plan, F) \in Seq(R)
  BY <1>4
<1>8. (turn = Len(plan) + 2) = (missing # <<>>)
  BY <1>1 DEF PlanOfRows
<1> HIDE DEF names, F, L
<1>9. PICK t \in Seq(R) : t = Only(plan, F)
  BY <1>7
<1>10. /\ Len(t) \in Nat /\ DOMAIN t = 1 .. Len(t)
       /\ \A k \in 1 .. Len(t) : t[k] \in Int /\ t[k] # Manifest
  BY <1>9, ElementOfSeq, LenProperties DEF Manifest
<1>11. t \in Seq(Int)
  BY <1>9
<1>12. Only(t, 1 .. Len(t)) = t
  BY <1>9, <1>10, OnlyPrefix
<1>13. /\ t = Only(names, {k \in DOMAIN names : names[k] # Manifest})
       /\ (missing # <<>>) = (names # <<>> /\ Last(names) = Manifest)
  <2>1. CASE missing = <<>>
    <3>1. names = t
      BY <1>6, <1>8, <1>9, <2>1
    <3>2. {k \in DOMAIN names : names[k] # Manifest} = 1 .. Len(t)
      BY <1>10, <3>1
    <3>3. ~(names # <<>> /\ Last(names) = Manifest)
      <4>1. SUFFICES ASSUME t # <<>>  PROVE Last(t) # Manifest
        BY <3>1
      <4>2. Len(t) # 0
        BY <1>9, <4>1, EmptySeq
      <4>3. Len(t) \in 1 .. Len(t)
        BY <1>10, <4>2
      <4> QED  BY <1>10, <4>3 DEF Last
    <3> QED  BY <1>12, <2>1, <3>1, <3>2, <3>3
  <2>2. CASE missing # <<>>
    <3>1. names = Append(t, Manifest)
      BY <1>6, <1>8, <1>9, <2>2
    <3>2. Manifest \in Int
      BY DEF Manifest
    <3>3. /\ names \in Seq(Int) /\ Len(names) = Len(t) + 1 /\ DOMAIN names = 1 .. Len(t) + 1
          /\ \A k \in 1 .. Len(t) : names[k] = t[k]
          /\ names[Len(t) + 1] = Manifest
      BY <1>11, <3>1, <3>2, AppendProperties, LenProperties
    <3>4. {k \in DOMAIN names : names[k] # Manifest} = 1 .. Len(t)
      <4>1. \A k \in DOMAIN names : k \in 1 .. Len(t) \/ k = Len(t) + 1
        BY <1>10, <3>3
      <4>2. \A k \in 1 .. Len(t) : k \in DOMAIN names
        BY <1>10, <3>3
      <4> QED  BY <1>10, <3>3, <4>1, <4>2
    <3>5. Only(names, 1 .. Len(t)) = t
      <4>1. Len(t) <= Len(names) /\ \A k \in 1 .. Len(t) : t[k] = names[k]
        BY <1>10, <3>3
      <4> QED  BY <1>11, <3>3, <4>1, OnlyPrefix
    <3>6. names # <<>> /\ Last(names) = Manifest
      <4>1. 1 \in DOMAIN names
        BY <1>10, <3>3
      <4>2. names # <<>>
        BY <4>1, NoEntries
      <4> QED  BY <3>3, <4>2 DEF Last
    <3> QED  BY <2>2, <3>4, <3>5, <3>6
  <2> QED  BY <2>1, <2>2
<1>14. /\ {i \in DOMAIN plan : plan[i] \notin ToSet(missing)} = F
       /\ {i \in DOMAIN plan : plan[i] \in ToSet(missing)} = L
  BY DEF F, L
<1>15. /\ plan' = plan /\ missing' = missing
       /\ (Only(plan, {i \in DOMAIN plan : plan[i] \notin ToSet(missing)}))' = t
       /\ (Only(plan, {i \in DOMAIN plan : plan[i] \in ToSet(missing)}))' = missing
  BY <1>5, <1>9, <1>14
<1> QED  BY <1>3, <1>13, <1>15 DEF EveryTrackAnswered

\* The directory closes a whole archive.
LEMMA DirectoryKeeps ==
    ASSUME ZipInv, Directory  PROVE ZipInv'
<1>1. /\ zipPhase = "next" /\ zipPhase' = "closed"
      /\ UNCHANGED <<plan, turn, entry, offset, central, missing, bodies>>
      /\ PlanOfRows /\ WriterHolds /\ Laid
  BY DEF Directory, ZipInv
<1>2. /\ central \in Seq(Records) /\ Len(central) \in Nat /\ Len(out) \in Nat /\ out' \in Seq(Pieces)
      /\ DOMAIN central = 1 .. Len(central)
      /\ \A i \in 1 .. Len(out) + 1 : StartOf(i)' = StartOf(i)
  BY <1>1, ClosedArchive, LenProperties
<1>3. PlanOfRows'
  BY <1>1 DEF PlanOfRows
<1>4. WriterHolds'
  BY <1>1, <1>2 DEF WriterHolds, Fits
<1>5. SentinelMeansZip64' => Streamed' = Seeked'
  BY StreamedIs, SeekedIs
<1>6. ASSUME SentinelMeansZip64'
      PROVE  (bodies = [k \in DOMAIN Seeked |-> <<Seeked[k].name, Seeked[k].size>>])'
  <2>1. /\ DOMAIN Seeked' = 1 .. Len(central)
        /\ \A k \in 1 .. Len(central) : Seeked'[k].name = central[k].name /\ Seeked'[k].size = central[k].size
    BY <1>6, SeekedIs DEF AsRecorded
  <2>2. bodies = [k \in DOMAIN central |-> <<central[k].name, central[k].size>>]
    BY <1>1 DEF WriterHolds
  <2> QED  BY <1>1, <1>2, <2>1, <2>2
<1>7. ASSUME SentinelMeansZip64'
      PROVE  (LET end == Last(out) IN Or64(end.at, end.extraAt)
                    = StartOf(Min(At("central") \cup At("end"))))'
  <2>1. StartOf(Len(out) + 1) = offset
    BY <1>1 DEF Laid, LaidOut
  <2>2. PICK h : h = Len(out) + 1
    OBVIOUS
  <2>3. StartOf(h) = offset /\ h \in 1 .. Len(out) + 1
    BY <1>2, <2>1, <2>2
  <2>4. StartOf(h)' = offset
    BY <1>2, <2>3
  <2>5. Min(At("central") \cup At("end"))' = h
    BY <2>2, SeekedIs DEF At
  <2>6. StartOf(Min(At("central") \cup At("end")))' = StartOf(h)'
    BY <2>5 DEF StartOf
  <2>7. Or64(Last(out').at, Last(out').extraAt) = offset
    BY <1>7, SeekedIs
  <2> QED  BY <2>4, <2>6, <2>7
<1>8. ReadersAgree'
  BY <1>5, <1>6, <1>7 DEF ReadersAgree
<1>9. EveryTrackAnswered'
  BY <1>1, DirectoryAnswers
<1> QED  BY <1>1, <1>3, <1>4, <1>8, <1>9 DEF ZipInv, ArchiveIsWhole

-----------------------------------------------------------------------------
(* Every step.                                                             *)

\* The body errors, or the client goes away.
LEMMA StopsKeep ==
    ASSUME ZipInv, BodyFails \/ CancelDownload  PROVE ZipInv'
<1>1. /\ zipPhase' \in {"broken", "cancelled"}
      /\ UNCHANGED <<plan, turn, offset, central, missing, out, bodies>> /\ entry' = entry
  BY DEF BodyFails, CancelDownload
<1>2. entry' \in [name : -1 .. MaxRows, start : Nat, written : Nat, zip64 : BOOLEAN]
  BY <1>1 DEF ZipInv, WriterHolds
<1> QED  BY <1>1, <1>2, StoppedKeeps

\* Nothing of the download changes.
LEMMA ZipStutters ==
    ASSUME ZipInv, UNCHANGED zipVars  PROVE ZipInv'
<1>1. UNCHANGED <<zipPhase, plan, turn, entry, offset, central, missing, out, bodies>>
  BY DEF zipVars
<1>2. PlanOfRows' /\ WriterHolds'
  BY <1>1 DEF ZipInv, PlanOfRows, WriterHolds, Fits
<1>3. (zipPhase \in {"next", "body"} => Accounted /\ Laid)'
  <2>1. Accounted' = Accounted
    BY <1>1 DEF Accounted, Found, Lost, Names
  <2>2. Laid' = Laid
    BY <1>1 DEF Laid, LaidOut, EntryLies, HeaderLies, StartOf
  <2> QED  BY <1>1, <2>1, <2>2 DEF ZipInv
<1>4. ArchiveIsWhole'
  <2>1. Streamed' = Streamed /\ Seeked' = Seeked
    BY <1>1 DEF Streamed, Seeked, At, StartOf
  <2>2. \A i : StartOf(i)' = StartOf(i)
    BY <1>1 DEF StartOf
  <2>3. Min(At("central") \cup At("end"))' = Min(At("central") \cup At("end"))
    BY <1>1 DEF At
  <2>4. StartOf(Min(At("central") \cup At("end")))' = StartOf(Min(At("central") \cup At("end")))
    BY <1>1, <2>3 DEF StartOf
  <2>7. SentinelMeansZip64' = SentinelMeansZip64
    BY <1>1 DEF SentinelMeansZip64, At
  <2>5. ReadersAgree' = ReadersAgree
    BY <1>1, <2>1, <2>4, <2>7 DEF ReadersAgree
  <2>6. EveryTrackAnswered' = EveryTrackAnswered
    BY <1>1, <2>1 DEF EveryTrackAnswered
  <2> QED  BY <2>5, <2>6 DEF ZipInv, ArchiveIsWhole
<1> QED  BY <1>2, <1>3, <1>4 DEF ZipInv

\* Every step of the download keeps the invariant.
LEMMA ZipStep ==
    ASSUME ZipInv, [ZipNext]_zipVars  PROVE ZipInv'
<1>1. ASSUME NEW n \in 1 .. MaxRows, NEW rows \in [1 .. n -> RowSizes], Get(rows)  PROVE ZipInv'
  BY <1>1, GetKeeps
<1>2. ASSUME NEW length \in RowSizes \ {-1}, OpenObject(length)  PROVE ZipInv'
  BY <1>2, OpenObjectKeeps
<1>3. ASSUME NEW n \in ChunkSizes, BodyChunk(n)  PROVE ZipInv'
  BY <1>3, ChunkKeeps
<1> QED
  BY <1>1, <1>2, <1>3, MissingKeeps, OpenManifestKeeps, StopsKeep, EndsKeeps, DirectoryKeeps,
     ZipStutters DEF ZipNext

\* The invariant says what the shape is.
LEMMA ZipInvIsTyped ==
    ASSUME ZipInv  PROVE ZipTypeOK
<1>1. turn \in 1 .. MaxRows + 2
  BY PlanFacts
<1>2. offset \in Nat /\ entry \in [name : -1 .. MaxRows, start : Nat, written : Nat, zip64 : BOOLEAN]
  BY DEF ZipInv, WriterHolds
<1>3. entry.name \in -1 .. MaxRows
  BY <1>2
<1>4. (zipPhase = "body") = (entry # NoEntry) \/ zipPhase \in {"broken", "cancelled"}
  <2>1. CASE zipPhase = "body"
    <3>1. NoEntry.name = -1 /\ entry.name # -1
      BY <2>1 DEF NoEntry, ZipInv, WriterHolds
    <3> QED  BY <2>1, <3>1
  <2>2. CASE zipPhase \in {"asked", "refused", "next", "closed"}
    BY <2>2 DEF ZipInv, WriterHolds
  <2>3. zipPhase \in {"asked", "refused", "next", "body", "closed", "broken", "cancelled"}
    BY DEF ZipInv, WriterHolds
  <2> QED  BY <2>1, <2>2, <2>3
<1> QED  BY <1>1, <1>2, <1>3, <1>4 DEF ZipTypeOK

\* A finished archive answers for each track of its plan and, unless a number of
\* it is U32_MAX itself (zip.ts:35), says the same to both its readers.
THEOREM DownloadIsWhole ==
    ZipSpec => []ArchiveIsWhole
<1>1. ZipInit => ZipInv
  BY ZipBegins
<1>2. ZipInv /\ [ZipNext]_zipVars => ZipInv'
  BY ZipStep
<1>3. ZipInv => ArchiveIsWhole
  BY DEF ZipInv
<1> QED  BY <1>1, <1>2, <1>3, PTL DEF ZipSpec

\* The shape of the download.
THEOREM DownloadTypeOK ==
    ZipSpec => []ZipTypeOK
<1>1. ZipInit => ZipInv
  BY ZipBegins
<1>2. ZipInv /\ [ZipNext]_zipVars => ZipInv'
  BY ZipStep
<1>3. ZipInv => ZipTypeOK
  BY ZipInvIsTyped
<1> QED  BY <1>1, <1>2, <1>3, PTL DEF ZipSpec
=============================================================================
