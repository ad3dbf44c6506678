------------------------------- MODULE CrateZip -------------------------------
(***************************************************************************)
(* A crate's download: the plan (lib/crate-zip.ts), the lazily opened      *)
(* objects (pages/api/crate/[id]/download.ts) and the streaming ZIP writer *)
(* (lib/zip.ts), whose every size and offset has a 32-bit field and, when  *)
(* that overflows, a 64-bit one in an extra block.                         *)
(*                                                                         *)
(* Abstractions: U32Max stands for 0xffffffff, and lengths are scaled with *)
(* it: a local header is 1 long and its ZIP64 extra 1 more, a descriptor 1 *)
(* or 2, a central header 1 and 1 more for its extra.  Names are row       *)
(* numbers: an entry's name starts with its index.  CRCs, times and the    *)
(* 16-bit count (MAX_CRATE_DOWNLOAD_TRACKS is 200) are left out.           *)
(***************************************************************************)
EXTENDS Integers, Sequences, FiniteSets, SequencesExt, FiniteSetsExt, Functions, Subsequences

CONSTANTS
    U32Max,
    MaxZipTracks,    \* MAX_CRATE_DOWNLOAD_TRACKS
    MaxZipBytes,     \* MAX_CRATE_DOWNLOAD_BYTES
    RowSizes,        \* byte_size of a row; -1: the row has no r2_key
    MaxRows,         \* bound: rows of a crate
    ChunkSizes       \* bound: the pieces a body arrives in

VARIABLES
    zipPhase,        \* "asked", "refused", "next", "body", "closed",
                     \* "broken" (the stream errors) or "cancelled"
    plan,            \* planCrateZip's entries: row numbers
    turn,            \* index into plan of the next object to open
    entry,           \* the entry being written
    offset,
    central,         \* CentralRecord per entry written
    missing,         \* rows for the manifest
    out,             \* what the client has received
    bodies           \* the bodies read to their end: <<name, bytes>>

zipVars == <<zipPhase, plan, turn, entry, offset, central, missing, out, bodies>>

\* Sizes are numbers, a missing one is -1, and a field holds more than one.
ASSUME ZipAssumption ==
    /\ U32Max \in Nat \ {0} /\ MaxRows \in Nat
    /\ RowSizes \subseteq Nat \cup {-1} /\ ChunkSizes \subseteq Nat

Manifest == 0        \* MISSING_MANIFEST_NAME
NoEntry == [name |-> -1, start |-> 0, written |-> 0, zip64 |-> FALSE]

ZipInit ==
    /\ zipPhase = "asked" /\ plan = <<>> /\ turn = 1 /\ entry = NoEntry /\ offset = 0
    /\ central = <<>> /\ missing = <<>> /\ out = <<>> /\ bodies = <<>>

\* A 32-bit field, and what it keeps of a number written unchecked.
Capped(v) == IF v > U32Max THEN U32Max ELSE v
Field32(v) == v % (U32Max + 1)

(***************************************************************************)
(* GET.                                                                    *)
(***************************************************************************)

\* planCrateZip: the rows with a key, none, too many or too large refused.
PlanCrateZip(rows) ==
    LET usable == {i \in DOMAIN rows : rows[i] >= 0}
    IN  [ok |-> /\ Cardinality(usable) \in 1 .. MaxZipTracks
                /\ SumFunctionOnSet(rows, usable) <= MaxZipBytes,
         entries |-> Only([i \in DOMAIN rows |-> i], usable)]

Get(rows) ==
    LET p == PlanCrateZip(rows)
    IN  /\ zipPhase = "asked"
        /\ zipPhase' = IF p.ok THEN "next" ELSE "refused"
        /\ plan' = IF p.ok THEN p.entries ELSE <<>>
        /\ UNCHANGED <<turn, entry, offset, central, missing, out, bodies>>

\* The local header of an object of the given size: ZIP64 when the size or
\* the offset does not fit.
OpenEntry(name, size) ==
    LET zip64 == size > U32Max \/ offset > U32Max
        len   == IF zip64 THEN 2 ELSE 1
    IN  /\ entry' = [name |-> name, start |-> offset, written |-> 0, zip64 |-> zip64]
        /\ offset' = offset + len
        /\ out' = Append(out, [is |-> "header", name |-> name, extra |-> zip64, len |-> len])
        /\ zipPhase' = "body"

\* crateSources: the next object's stream and its size in the bucket, ...
OpenObject(size) ==
    /\ zipPhase = "next" /\ turn \in DOMAIN plan
    /\ OpenEntry(plan[turn], size)
    /\ turn' = turn + 1
    /\ UNCHANGED <<plan, central, missing, bodies>>

\* ... or none: it is gone, or R2 did not answer; a row of the manifest.
ObjectMissing ==
    /\ zipPhase = "next" /\ turn \in DOMAIN plan
    /\ missing' = Append(missing, plan[turn])
    /\ turn' = turn + 1
    /\ UNCHANGED <<zipPhase, plan, entry, offset, central, out, bodies>>

\* The manifest is one small entry behind all others.
OpenManifest ==
    /\ zipPhase = "next" /\ turn = Len(plan) + 1 /\ missing # <<>>
    /\ OpenEntry(Manifest, 1)
    /\ turn' = turn + 1
    /\ UNCHANGED <<plan, central, missing, bodies>>

(***************************************************************************)
(* zipChunks.                                                              *)
(***************************************************************************)

\* A chunk of the body, passed on unless a 32-bit entry outgrows its fields.
BodyChunk(n) ==
    /\ zipPhase = "body" /\ (entry.name = Manifest => n = 1 /\ entry.written = 0)
    /\ entry' = [entry EXCEPT !.written = @ + n]
    /\ IF ~entry.zip64 /\ entry'.written > U32Max
       THEN zipPhase' = "broken" /\ UNCHANGED out
       ELSE out' = Append(out, [is |-> "data", len |-> n]) /\ UNCHANGED zipPhase
    /\ UNCHANGED <<plan, turn, offset, central, missing, bodies>>

\* The body errors midway: the read throws.
BodyFails ==
    /\ zipPhase = "body" /\ zipPhase' = "broken"
    /\ UNCHANGED <<plan, turn, entry, offset, central, missing, out, bodies>>

\* The body's end: the descriptor, and the record for the directory.
BodyEnds ==
    LET width == IF entry.zip64 THEN 2 ELSE 1
        size  == IF entry.zip64 THEN entry.written ELSE Field32(entry.written)
    IN  /\ zipPhase = "body" /\ (entry.name = Manifest => entry.written = 1)
        /\ out' = Append(out, [is |-> "descriptor", size |-> size, len |-> width])
        /\ offset' = offset + entry.written + width
        /\ central' = Append(central, [name |-> entry.name, size |-> entry.written,
                                       start |-> entry.start, zip64 |-> entry.zip64])
        /\ bodies' = Append(bodies, <<entry.name, entry.written>>)
        /\ entry' = NoEntry
        /\ zipPhase' = "next"
        /\ UNCHANGED <<plan, turn, missing>>

\* Mutant: an entry is ZIP64 in the directory only when its size is large.
CentralHeaderBySize(r) ==
    LET bigSize   == r.size > U32Max
        bigOffset == r.start > U32Max
    IN  [is |-> "central", name |-> r.name, size |-> Capped(r.size), at |-> Capped(r.start),
         extraSize |-> IF bigSize THEN <<r.size>> ELSE <<>>,
         extraAt   |-> IF bigOffset THEN <<r.start>> ELSE <<>>,
         len |-> IF bigSize \/ bigOffset THEN 2 ELSE 1]

\* A central header, with a 64-bit extra for exactly the fields that say so.
CentralHeader(r) ==
    LET bigSize   == r.zip64 \/ r.size > U32Max
        bigOffset == r.start > U32Max
    IN  [is |-> "central", name |-> r.name,
         size |-> IF bigSize THEN U32Max ELSE r.size,
         at |-> IF bigOffset THEN U32Max ELSE r.start,
         extraSize |-> IF bigSize THEN <<r.size>> ELSE <<>>,
         extraAt   |-> IF bigOffset THEN <<r.start>> ELSE <<>>,
         len |-> IF bigSize \/ bigOffset THEN 2 ELSE 1]

\* The end records: the 64-bit one when an entry or a field needs it.
EndOfCentralDirectory(cdSize, cdOffset) ==
    LET any64 == \E i \in DOMAIN central :
                    central[i].zip64 \/ central[i].size > U32Max \/ central[i].start > U32Max
        needs64 == any64 \/ cdSize > U32Max \/ cdOffset > U32Max
    IN  [is |-> "end", at |-> Capped(cdOffset), len |-> 1,
         extraAt |-> IF needs64 THEN <<cdOffset>> ELSE <<>>]

Directory ==
    LET headers == [i \in DOMAIN central |-> CentralHeader(central[i])]
        cdSize  == SumFunction([i \in DOMAIN headers |-> headers[i].len])
    IN  /\ zipPhase = "next"
        /\ turn > Len(plan) + (IF missing = <<>> THEN 0 ELSE 1)
        /\ out' = Append(out \o headers, EndOfCentralDirectory(cdSize, offset))
        /\ zipPhase' = "closed"
        /\ UNCHANGED <<plan, turn, entry, offset, central, missing, bodies>>

\* The client goes away: it.return ends the generator.
CancelDownload ==
    /\ zipPhase \in {"next", "body"} /\ zipPhase' = "cancelled"
    /\ UNCHANGED <<plan, turn, entry, offset, central, missing, out, bodies>>

ZipNext ==
    \/ \E n \in 1 .. MaxRows : \E rows \in [1 .. n -> RowSizes] : Get(rows)
    \/ \E size \in RowSizes \ {-1} : OpenObject(size)
    \/ ObjectMissing
    \/ OpenManifest
    \/ \E n \in ChunkSizes : entry.written <= U32Max /\ BodyChunk(n)
    \/ BodyFails
    \/ BodyEnds
    \/ Directory
    \/ CancelDownload

ZipSpec == ZipInit /\ [][ZipNext]_zipVars

(***************************************************************************)
(* The two ways to read the archive (the ZIP format's; external).          *)
(***************************************************************************)

\* Where a piece of the archive begins, and the pieces of one kind.
StartOf(i) == SumFunctionOnSet([j \in DOMAIN out |-> out[j].len], 1 .. i - 1)
At(kind) == {i \in DOMAIN out : out[i].is = kind}

\* A reader of the stream: an entry is a local header and what follows it up
\* to a descriptor, which is as wide as the header's extra says.
Streamed ==
    LET entryAt(i) ==
            LET end == Min({j \in At("descriptor") : j > i})
            IN  [name |-> out[i].name, at |-> StartOf(i), size |-> out[end].size,
                 wide |-> out[i].extra]
    IN  [k \in 1 .. Cardinality(At("header")) |-> entryAt(Nth(At("header"), k))]

\* A reader of the directory: a field that carries U32Max sends it to the
\* 64-bit value, which it cannot read where there is none.
Unreadable == -1
Or64(field, extra) ==
    IF field # U32Max THEN field ELSE IF extra = <<>> THEN Unreadable ELSE extra[1]
Seeked ==
    LET heads == Only(out, At("central"))
    IN  [k \in DOMAIN heads |->
            [name |-> heads[k].name, at |-> Or64(heads[k].at, heads[k].extraAt),
             size |-> Or64(heads[k].size, heads[k].extraSize),
             wide |-> heads[k].extraSize # <<>>]]

(***************************************************************************)
(* Properties.                                                             *)
(***************************************************************************)

\* Shape of the download.
ZipTypeOK ==
    /\ turn \in 1 .. MaxRows + 2 /\ offset \in Nat
    /\ entry.name \in -1 .. MaxRows
    /\ (zipPhase = "body") = (entry # NoEntry) \/ zipPhase \in {"broken", "cancelled"}

\* What U32_MAX's own comment says: a 32-bit field that carries it has its
\* number in ZIP64.
SentinelMeansZip64 ==
    /\ \A i \in At("central") : out[i].size = U32Max => out[i].extraSize # <<>>
    /\ \A i \in At("central") : out[i].at = U32Max => out[i].extraAt # <<>>
    /\ \A i \in At("end") : out[i].at = U32Max => out[i].extraAt # <<>>

\* A finished archive says the same to a reader that streams it and to one
\* that seeks its directory: the entries, where each begins, how long it is
\* and how wide its descriptor is; and that is what the bodies held.  An
\* object that is longer than the bucket said either fits or breaks the
\* stream, and is never written short.  Not so where a number is U32Max
\* itself: its field is taken for one that overflowed.
ReadersAgree ==
    zipPhase = "closed" /\ SentinelMeansZip64 =>
        /\ Streamed = Seeked
        /\ bodies = [k \in DOMAIN Seeked |-> <<Seeked[k].name, Seeked[k].size>>]
        /\ LET end == Last(out) IN Or64(end.at, end.extraAt)
              = StartOf(Min(At("central") \cup At("end")))

\* A finished archive answers for each track of the plan once: it is an
\* entry, in the crate's order, or the manifest behind them names it.
EveryTrackAnswered ==
    zipPhase = "closed" =>
        LET names == [k \in DOMAIN Seeked |-> Seeked[k].name]
        IN  /\ Only(plan, {i \in DOMAIN plan : plan[i] \notin ToSet(missing)})
                 = Only(names, {k \in DOMAIN names : names[k] # Manifest})
            /\ Only(plan, {i \in DOMAIN plan : plan[i] \in ToSet(missing)}) = missing
            /\ (missing # <<>>) = (names # <<>> /\ Last(names) = Manifest)

\* What a finished archive owes its reader.
ArchiveIsWhole == ReadersAgree /\ EveryTrackAnswered
=============================================================================
