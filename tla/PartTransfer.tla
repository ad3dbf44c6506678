----------------------------- MODULE PartTransfer -----------------------------
(***************************************************************************)
(* How a large file is cut into parts and put together again: the plan     *)
(* (lib/upload-policy.ts), the transfer of the parts that are missing      *)
(* (transferMultipart of lib/uploader.ts, with its retries and its         *)
(* progress), the listing a resumed transfer starts from, and the list of  *)
(* parts complete is given.  Module Upload has the same transfer as one    *)
(* step among the routes; here it is the bytes that matter.                *)
(***************************************************************************)
EXTENDS Integers, Sequences, FiniteSets, SequencesExt, FiniteSetsExt, Functions

CONSTANTS
    FileSizes,        \* sizes of the file
    Threshold,        \* MULTIPART_THRESHOLD_BYTES
    PartSize,         \* PART_SIZE_BYTES
    OldPartSizes,     \* what PART_SIZE_BYTES may have been at the first presign
    MaxParts,         \* MAX_PARTS
    PartConcurrency,  \* PART_CONCURRENCY
    PresignChunk,     \* PART_PRESIGN_CHUNK
    MaxFaults         \* bound: PUTs that fail or lose their answer

VARIABLES
    size,        \* bytes of the file
    stored,      \* the row's plan: [partSize, partCount]
    phase,       \* "idle", "sending", "failed", "done", "refused"
    ranges,      \* contiguousRanges still to be sent
    todo,        \* parts of the range under way the pump has not begun
    partsUp,     \* parts in flight -> bytes reported of them
    got,         \* done: part number -> bytes of the part R2 acknowledged
    confirmed,   \* confirmedBytes
    bucket,      \* R2's parts of the upload: part number -> its first and last byte
    rejected,    \* a part of the range under way was given up
    faults

\* Sizes are counted in whole units and there is room for a part.
ASSUME PartsAssumption ==
    /\ FileSizes \subseteq Nat /\ OldPartSizes \subseteq Nat \ {0}
    /\ {Threshold, PartSize, MaxParts, PresignChunk} \subseteq Nat \ {0}

partVars == <<size, stored, phase, ranges, todo, partsUp, got, confirmed, bucket,
              rejected, faults>>

CeilDiv(n, d) == (n + d - 1) \div d

\* partSizeFor, with sizes in MiB: larger parts when there would be too many.
PartSizeFor(n, partSize) ==
    IF CeilDiv(n, partSize) <= MaxParts THEN partSize ELSE CeilDiv(n, MaxParts)

\* planUpload: NoPlan is a single PUT.
NoPlan == [partSize |-> 0, partCount |-> 0]
PlanUpload(n, partSize) ==
    IF n < Threshold THEN NoPlan
    ELSE [partSize  |-> PartSizeFor(n, partSize),
          partCount |-> CeilDiv(n, PartSizeFor(n, partSize))]

\* Mutant: the last part is as long as the others.
PartRangeUnclipped(k, partSize, n) == [from |-> (k - 1) * partSize, to |-> k * partSize]

\* partRange: the bytes of part k, from `from` up to but not including `to`.
PartRange(k, partSize, n) ==
    [from |-> (k - 1) * partSize,
     to   |-> Min({(k - 1) * partSize + partSize, n})]

PartsInit ==
    /\ size \in FileSizes /\ PlanUpload(size, PartSize) # NoPlan
    /\ \E old \in OldPartSizes : stored = PlanUpload(size, old)
    /\ phase = "idle" /\ ranges = <<>> /\ todo = {} /\ partsUp = <<>>
    /\ got = <<>> /\ confirmed = 0 /\ bucket = <<>> /\ rejected = FALSE /\ faults = 0

\* contiguousRanges: the maximal runs of a set of part numbers, cut at maxLength.
ContiguousRanges(numbers, maxLength) ==
    LET Runs[left \in SUBSET numbers] ==
            IF left = {} THEN <<>>
            ELSE LET first == Min(left)
                     run   == {n \in left : n < first + maxLength /\ first .. n \subseteq left}
                 IN  <<run>> \o Runs[left \ run]
    IN  Runs[numbers]

\* transferMultipart begins: a plan other than this page's is refused; what R2
\* lists is done; the rest is sent.
BeginTransfer ==
    /\ phase \in {"idle", "failed"}
    /\ IF PlanUpload(size, PartSize).partSize # stored.partSize
          \/ stored.partCount # CeilDiv(size, stored.partSize)
       THEN phase' = "refused" /\ UNCHANGED <<ranges, got, confirmed>>
       ELSE /\ phase' = "sending"
            /\ got' = [k \in DOMAIN bucket |-> bucket[k].to - bucket[k].from]
            /\ confirmed' = SumFunction(got')
            /\ ranges' = ContiguousRanges((1 .. stored.partCount) \ DOMAIN got', PresignChunk)
    /\ todo' = {} /\ partsUp' = <<>> /\ rejected' = FALSE
    /\ UNCHANGED <<size, stored, bucket, faults>>

\* The next range is presigned and given to the pump; after the last, the parts
\* are returned.  A range with a part given up throws, once the pump is empty.
NextRange ==
    /\ phase = "sending" /\ todo = {} /\ partsUp = <<>>
    /\ IF rejected THEN phase' = "failed" /\ UNCHANGED <<ranges, todo>>
       ELSE IF ranges = <<>> THEN phase' = "done" /\ UNCHANGED <<ranges, todo>>
       ELSE ranges' = Tail(ranges) /\ todo' = Head(ranges) /\ UNCHANGED phase
    /\ UNCHANGED <<size, stored, partsUp, got, confirmed, bucket, rejected, faults>>

\* presignParts refused, or the page gone: what is in flight is no more heard of.
TransferBreaks ==
    /\ phase = "sending" /\ faults < MaxFaults /\ faults' = faults + 1
    /\ phase' = "failed" /\ todo' = {} /\ partsUp' = <<>>
    /\ UNCHANGED <<size, stored, ranges, got, confirmed, bucket, rejected>>

SetAt(f, k, v) == [j \in DOMAIN f \cup {k} |-> IF j = k THEN v ELSE f[j]]
Without(f, k) == Restrict(f, DOMAIN f \ {k})

\* The pump takes parts in their order, so many at a time.
PartBegins ==
    /\ todo # {} /\ Cardinality(DOMAIN partsUp) < PartConcurrency
    /\ todo' = todo \ {Min(todo)} /\ partsUp' = SetAt(partsUp, Min(todo), 0)
    /\ UNCHANGED <<size, stored, phase, ranges, got, confirmed, bucket, rejected, faults>>

LengthOf(k) == LET r == PartRange(k, stored.partSize, size) IN r.to - r.from

\* xhr.upload.onprogress
PartProgress(k) ==
    /\ k \in DOMAIN partsUp /\ partsUp[k] < LengthOf(k)
    /\ partsUp' = [partsUp EXCEPT ![k] = @ + 1]
    /\ UNCHANGED <<size, stored, phase, ranges, todo, got, confirmed, bucket, rejected, faults>>

\* R2 has the part and the page its etag.
PartLands(k) ==
    /\ k \in DOMAIN partsUp
    /\ bucket' = SetAt(bucket, k, PartRange(k, stored.partSize, size))
    /\ partsUp' = Without(partsUp, k)
    /\ got' = SetAt(got, k, LengthOf(k)) /\ confirmed' = confirmed + LengthOf(k)
    /\ UNCHANGED <<size, stored, phase, ranges, todo, rejected, faults>>

\* withRetry: the PUT failed, or only its answer, which R2 may have committed.
\* It is sent again (a new URL resets its progress) or given up.
PartFails(k, committed, then) ==
    /\ k \in DOMAIN partsUp /\ faults < MaxFaults /\ faults' = faults + 1
    /\ bucket' = IF committed THEN SetAt(bucket, k, PartRange(k, stored.partSize, size)) ELSE bucket
    /\ partsUp' = CASE then = "retry"     -> partsUp
                    [] then = "represign" -> [partsUp EXCEPT ![k] = 0]
                    [] then = "give up"   -> Without(partsUp, k)
    /\ rejected' = (rejected \/ then = "give up")
    /\ UNCHANGED <<size, stored, phase, ranges, todo, got, confirmed>>

PartsNext ==
    \/ BeginTransfer \/ NextRange \/ TransferBreaks \/ PartBegins
    \/ \E k \in DOMAIN partsUp : PartProgress(k) \/ PartLands(k)
    \/ \E k \in DOMAIN partsUp, committed \in BOOLEAN,
          then \in {"retry", "represign", "give up"} : PartFails(k, committed, then)

PartsSpec == PartsInit /\ [][PartsNext]_partVars

\* Shape of the plan, which R2 takes, and of what was sent of it.
PartsTypeOK ==
    /\ stored.partCount \in 1 .. MaxParts
    /\ DOMAIN bucket \subseteq 1 .. stored.partCount
    /\ DOMAIN got \subseteq 1 .. stored.partCount

\* What complete assembles is the file: over every interruption, lost answer and
\* repeated part, the parts the page names are the row's, consecutive, within
\* MAX_PARTS, all but the last of one length (R2 checks that only at the end,
\* uploader.ts:592), and their bytes are the file's, each once and in order.
\* The progress shown never passes the file's size, and is all of it at the end.
PartsAreTheFile ==
    /\ phase = "sending" =>
           confirmed + SumFunction(partsUp) <= size
    /\ phase = "done" =>
           LET last == stored.partCount
           IN  /\ DOMAIN got = 1 .. last /\ last <= MaxParts
               /\ \A k \in 1 .. last : bucket[k].to - bucket[k].from = got[k]
               /\ \A k \in 1 .. last - 1 : got[k] = got[1] /\ bucket[k].to = bucket[k + 1].from
               /\ bucket[1].from = 0 /\ bucket[last].to = size /\ got[last] \in 1 .. got[1]
               /\ confirmed = size
=============================================================================
