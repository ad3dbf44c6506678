----------------------------- MODULE UploadList -----------------------------
(***************************************************************************)
(* The upload list of one tab: upload-engine.ts over upload-store.ts,      *)
(* upload-queue.ts and upload-journal.ts.  Rows are picked, checked, queued*)
(* and uploaded, a few at a time, and may be removed, retried or started   *)
(* afresh meanwhile; every handler is an async function, and what other    *)
(* handlers do while one is suspended is the subject of this module.  What *)
(* a transfer does on the wire is module Upload's.                         *)
(*                                                                         *)
(* Abstractions: a file is its journal key; of a row's file id only whether*)
(* it has one is kept; one row at a time is retried; reading the head and  *)
(* the duration of a file is one suspension (their writes are the same);   *)
(* the preflight's own pump never fills, with fewer files than             *)
(* PREFLIGHT_CONCURRENCY.                                                  *)
(***************************************************************************)
EXTENDS Integers, Sequences, FiniteSets, SequencesExt, Subsequences

CONSTANTS
    Keys,             \* the files a member may pick
    Started,          \* those an earlier session has left in the journal
    FileConcurrency,  \* FILE_CONCURRENCY
    NoKey,
    MaxPicks,         \* bound: picks of a behaviour
    MaxRuns           \* bound: presses of a button that runs rows

ASSUME UploadListAssumption ==
    FileConcurrency \in Nat \ {0} /\ Started \subseteq Keys /\ NoKey \notin Keys

VARIABLES
    rows,      \* uploadRows: the list, in the order shown
    indexOf,   \* key -> position in rows, 0 for none
    handles,   \* keys whose File is held
    disk,      \* keys the journal in IndexedDB remembers
    memory,    \* those its copy in this tab does
    checks,    \* preflights in flight
    batch,     \* a batch id is known
    running,   \* uploadRunning
    creating,  \* createBatch is in flight
    tasks,     \* keys the pump has still to take
    active,    \* transfers: the key, and whether they send a file id
    aborted,   \* the run's AbortController
    fresh,     \* startFresh, suspended: the position and key it forgets
    retry,     \* retryRow, suspended: the key it forgets
    picks, runs,  \* counts of picks and of runs (bounds)
    haunted,   \* history: keys picked or run again with an older check, task or retry pending
    evicted    \* history: keys removed and not sent since

listVars  == <<rows, indexOf, handles, haunted, evicted>>
runVars   == <<batch, running, creating, tasks, active, aborted>>
otherVars == <<disk, memory, checks, fresh, retry, picks, runs>>
uploadListVars == <<listVars, runVars, otherVars>>

NoFresh == [at |-> 0, key |-> NoKey]

UploadListInit ==
    /\ rows = <<>> /\ indexOf = [k \in Keys |-> 0] /\ handles = {}
    /\ disk = Started /\ memory = {} /\ checks = {}
    /\ batch = FALSE /\ running = FALSE /\ creating = FALSE
    /\ tasks = <<>> /\ active = {} /\ aborted = FALSE
    /\ fresh = NoFresh /\ retry = NoKey
    /\ picks = 0 /\ runs = 0 /\ haunted = {} /\ evicted = {}

HasRow(k) == indexOf[k] > 0
RowOf(k)  == rows[indexOf[k]]

Statuses  == {"checking", "skipped", "queued", "uploading", "done", "failed", "cancelled"}
\* Mutant: an uploading row may be removed.
RemovableInFlight == {"checking", "queued", "skipped", "uploading"}

Removable == {"checking", "queued", "skipped"}

\* patch: every write names a key and lands where indexOf says, or nowhere.
Patched(list, k, row) == [i \in DOMAIN list |-> IF i = indexOf[k] THEN row ELSE list[i]]

\* The row r with other fields, of the same key.
Changed(r, status, named, resumed, discarded) ==
    [key |-> r.key, named |-> named, status |-> status, resumed |-> resumed,
     discarded |-> discarded]

Positions(list) ==
    [k \in Keys |-> IF \E i \in DOMAIN list : list[i].key = k
                    THEN CHOOSE i \in DOMAIN list : list[i].key = k ELSE 0]

(***************************************************************************)
(* Picking, checking, removing.                                            *)
(***************************************************************************)

\* What an earlier row of this file has left: a check that has not ended, or
\* a task of the run that was not taken.
Pending(k) == (\E c \in checks : c.key = k) \/ (\E i \in DOMAIN tasks : tasks[i] = k)

\* enqueue: a key that has a row is passed over.
Pick(k) ==
    /\ picks < MaxPicks /\ picks' = picks + 1
    /\ ~HasRow(k)
    /\ handles' = handles \cup {k}
    /\ rows' = Append(rows, [key |-> k, named |-> FALSE, status |-> "checking",
                             resumed |-> FALSE, discarded |-> FALSE])
    /\ indexOf' = [indexOf EXCEPT ![k] = Len(rows) + 1]
    /\ checks' = checks \cup {[key |-> k, pick |-> picks', step |-> "reading", found |-> FALSE]}
    /\ haunted' = IF Pending(k) THEN haunted \cup {k} ELSE haunted
    /\ UNCHANGED <<evicted, runVars, disk, memory, fresh, retry, runs>>

\* The head and the duration are read: a file refused is skipped; for one
\* whose row is still there the journal is asked.
ReadLands(c, accepted) ==
    /\ c.step = "reading"
    /\ IF ~accepted
       THEN /\ handles' = handles \ {c.key}
            /\ rows' = Patched(rows, c.key, [RowOf(c.key) EXCEPT !.status = "skipped"])
            /\ checks' = checks \ {c}
       ELSE /\ checks' = (checks \ {c}) \cup
                 (IF HasRow(c.key) THEN {[key |-> c.key, pick |-> c.pick, step |-> "lookup",
                                          found |-> c.key \in disk]}
                  ELSE {})
            /\ UNCHANGED <<handles, rows>>
    /\ UNCHANGED <<indexOf, haunted, evicted, runVars, disk, memory, fresh, retry,
                   picks, runs>>

\* lookupFile answers: the row is queued under the remembered id, or a new one.
LookupLands(c) ==
    LET found == c.found \/ c.key \in memory
        row   == RowOf(c.key)
    IN  /\ c.step = "lookup"
        /\ checks' = checks \ {c}
        /\ rows' = Patched(rows, c.key, Changed(row, "queued", TRUE, found, row.discarded))
        /\ UNCHANGED <<indexOf, handles, haunted, evicted, runVars, disk, memory, fresh,
                       retry, picks, runs>>

Forget(k) == disk' = disk \ {k} /\ memory' = memory \ {k}

\* removeRow, all of it before its await.
RemoveRow(k) ==
    /\ HasRow(k) /\ RowOf(k).status \in Removable
    /\ handles' = handles \ {k}
    /\ rows' = RemoveAt(rows, indexOf[k])
    /\ indexOf' = Positions(rows')
    /\ Forget(k)
    /\ evicted' = evicted \cup {k}
    /\ UNCHANGED <<haunted, runVars, checks, fresh, retry, picks, runs>>

(***************************************************************************)
(* Running rows: runKeys, the pump and runOne.                             *)
(***************************************************************************)

\* runOne for the first n tasks: it returns at once for a key whose row or
\* File is gone, and when the run is aborted.
Begun(todo, n, list) ==
    {[key |-> k, named |-> list[indexOf[k]].named] :
        k \in {todo[i] : i \in 1 .. n} \cap {k \in handles : HasRow(k) /\ ~aborted'}}

\* The tasks that so many workers look at: all, or until none is free.
Looked(todo, sending, list, workers) ==
    LET full(n) == Cardinality(sending \cup Begun(todo, n, list)) >= workers
    IN  CHOOSE n \in 0 .. Len(todo) :
            /\ full(n) \/ n = Len(todo)
            /\ \A m \in 0 .. Len(todo) : m < n => ~full(m)

\* Mutant: one worker more than FILE_CONCURRENCY.
PumpTakesOneMore(todo, sending, list) == Looked(todo, sending, list, FileConcurrency + 1)

\* The pump's workers take tasks, in order, while one of them is free.
PumpTakes(todo, sending, list) == Looked(todo, sending, list, FileConcurrency)

\* The run after its workers have taken what they can; over when none works.
\* runOne marks the row and remembers the file before its first await.
Pump(todo, sending, list) ==
    LET n     == PumpTakes(todo, sending, list)
        begun == Begun(todo, n, list)
        taken == {t.key : t \in begun \ sending}
    IN  /\ tasks' = SubSeq(todo, n + 1, Len(todo))
        /\ active' = sending \cup begun
        /\ rows' = [i \in DOMAIN list |->
                       IF \E t \in begun : i = indexOf[t.key]
                       THEN [list[i] EXCEPT !.status = "uploading"] ELSE list[i]]
        /\ running' = (active' # {})
        /\ disk' = disk \cup taken /\ memory' = memory \cup taken
        /\ evicted' = evicted \ taken

\* runKeys: refused while a run is on; the first run creates the batch.
RunKeys(keys, list) ==
    IF keys = <<>> \/ running
    THEN rows' = list /\ UNCHANGED <<runVars, disk, memory, evicted>>
    ELSE /\ aborted' = FALSE
         /\ IF batch
            THEN Pump(keys, {}, list) /\ UNCHANGED <<batch, creating>>
            ELSE /\ creating' = TRUE /\ running' = TRUE /\ tasks' = keys /\ rows' = list
                 /\ UNCHANGED <<batch, active, disk, memory, evicted>>

Press == runs < MaxRuns /\ runs' = runs + 1

KeysIn(statuses) ==
    LET chosen == Only(rows, {i \in DOMAIN rows : rows[i].status \in statuses})
    IN  [i \in DOMAIN chosen |-> chosen[i].key]

\* The Upload and the Retry-failed buttons, disabled while a run is on.
RunRows(statuses) ==
    /\ Press /\ ~running
    /\ KeysIn(statuses) # <<>>
    /\ haunted' = haunted \cup ({retry} \cap {rows[i].key : i \in DOMAIN rows})
    /\ UNCHANGED <<indexOf, handles, checks, fresh, retry, picks>>
    /\ RunKeys(KeysIn(statuses), rows)

\* Mutant: a refused batch leaves uploadRunning set (no `finally`).
BatchLandsStuck(created) ==
    /\ creating
    /\ creating' = FALSE /\ batch' = created
    /\ UNCHANGED <<indexOf, handles, haunted, aborted, checks, fresh, retry, picks, runs>>
    /\ IF created
       THEN Pump(tasks, {}, rows)
       ELSE tasks' = <<>> /\ UNCHANGED <<running, active, rows, disk, memory, evicted>>

BatchLands(created) ==
    /\ creating
    /\ creating' = FALSE /\ batch' = created
    /\ UNCHANGED <<indexOf, handles, haunted, aborted, checks, fresh, retry, picks, runs>>
    /\ IF created
       THEN Pump(tasks, {}, rows)
       ELSE running' = FALSE /\ tasks' = <<>> /\ UNCHANGED <<active, rows, disk, memory, evicted>>

\* A transfer ends; its worker takes the next task.  A lost session aborts
\* the others; a refusal may have discarded the server's row.
TransferEnds(t, status, discarded, expired) ==
    /\ t \in active
    /\ status = "cancelled" => aborted
    /\ aborted' = (aborted \/ expired)
    /\ UNCHANGED <<indexOf, handles, haunted, batch, creating, checks, fresh, retry,
                   picks, runs>>
    /\ Pump(tasks, active \ {t},
            LET row == RowOf(t.key)
            IN  Patched(rows, t.key, Changed(row, status, row.named, row.resumed,
                                             row.discarded \/ discarded)))

Cancel ==
    /\ running /\ ~aborted
    /\ aborted' = TRUE
    /\ UNCHANGED <<listVars, batch, running, creating, tasks, active, otherVars>>

\* retryRow: a discarded row is forgotten first and gets a new id.
Retry(k) ==
    /\ Press /\ ~running /\ retry = NoKey
    /\ HasRow(k) /\ RowOf(k).status \in {"failed", "cancelled"}
    /\ UNCHANGED <<indexOf, handles, haunted, checks, fresh, picks>>
    /\ IF RowOf(k).discarded
       THEN /\ retry' = k /\ Forget(k)
            /\ UNCHANGED <<rows, evicted, runVars>>
       ELSE /\ RunKeys(<<k>>, Patched(rows, k, [RowOf(k) EXCEPT !.status = "queued"]))
            /\ UNCHANGED retry

RetryForgotten ==
    /\ retry # NoKey
    /\ retry' = NoKey
    /\ UNCHANGED <<indexOf, handles, haunted, checks, fresh, picks, runs>>
    /\ RunKeys(<<retry>>,
               Patched(rows, retry, Changed(RowOf(retry), "queued", RowOf(retry).named, FALSE, FALSE)))

(***************************************************************************)
(* startFresh: one row after the other is forgotten and given a new id.    *)
(***************************************************************************)

\* The next resumable row after position `at` of the live list.
NextResumable(list, at) ==
    LET found == {i \in DOMAIN list : i > at /\ list[i].resumed /\ list[i].status = "queued"}
    IN  IF found = {} THEN NoFresh
        ELSE LET i == CHOOSE i \in found : \A j \in found : i <= j
             IN  [at |-> i, key |-> list[i].key]

ForgetNext(next) ==
    /\ fresh' = next
    /\ IF next = NoFresh THEN UNCHANGED <<disk, memory>> ELSE Forget(next.key)

StartFresh ==
    /\ ~running /\ fresh = NoFresh /\ NextResumable(rows, 0) # NoFresh
    /\ ForgetNext(NextResumable(rows, 0))
    /\ UNCHANGED <<listVars, runVars, checks, retry, picks, runs>>

FreshForgotten ==
    /\ fresh # NoFresh
    /\ rows' = Patched(rows, fresh.key, [RowOf(fresh.key) EXCEPT !.resumed = FALSE])
    /\ ForgetNext(NextResumable(rows', fresh.at))
    /\ UNCHANGED <<indexOf, handles, haunted, evicted, runVars, checks, retry, picks, runs>>

UploadListNext ==
    \/ \E k \in Keys : Pick(k) \/ RemoveRow(k) \/ Retry(k)
    \/ \E c \in checks : LookupLands(c) \/ \E accepted \in BOOLEAN : ReadLands(c, accepted)
    \/ RunRows({"queued"})
    \/ RunRows({"failed", "cancelled"})
    \/ \E created \in BOOLEAN : BatchLands(created)
    \/ \E t \in active :
          \/ TransferEnds(t, "done", FALSE, FALSE)
          \/ TransferEnds(t, "cancelled", FALSE, FALSE)
          \/ \E discarded \in BOOLEAN : TransferEnds(t, "failed", discarded, FALSE)
          \/ TransferEnds(t, "failed", FALSE, TRUE)
    \/ Cancel
    \/ RetryForgotten
    \/ StartFresh
    \/ FreshForgotten

UploadListSpec == UploadListInit /\ [][UploadListNext]_uploadListVars

\* Every request a run waits for is answered, refused or dropped by the
\* browser, and a transfer gives up after its last attempt (withRetry).
UploadListFairness ==
    /\ WF_uploadListVars(\E created \in BOOLEAN : BatchLands(created))
    /\ WF_uploadListVars(\E t \in active, status \in {"done", "failed"}, discarded \in BOOLEAN :
                             TransferEnds(t, status, discarded, FALSE))

(***************************************************************************)
(* What the chip of the other pages says (upload-progress.ts).             *)
(***************************************************************************)

With(statuses) == {i \in DOMAIN rows : rows[i].status \in statuses}

ChipPhase ==
    IF With({"checking", "queued", "uploading"}) # {} THEN "active"
    ELSE IF With({"failed", "cancelled"}) # {} THEN "failed"
    ELSE IF With({"done"}) # {} THEN "done" ELSE "idle"

(***************************************************************************)
(* Properties.                                                             *)
(***************************************************************************)

\* Shape of the list, its index, its journal and its run.
UploadListTypeOK ==
    /\ \A i \in DOMAIN rows : rows[i].status \in Statuses
    /\ disk \subseteq Keys /\ memory \subseteq disk
    /\ \A c \in checks : c.step \in {"reading", "lookup"}
    /\ creating => running /\ active = {}

\* A row says it is uploading exactly while a transfer sends its file under
\* its own handle, and then the chip of every page says so: removals, late
\* checks, retries and fresh starts included.  Exempt are rows picked
\* again while an older check or task of the same file was pending, or run by
\* the Retry-failed button while their own retry was suspended.
RowTellsTransfer ==
    /\ \A k \in Keys \ haunted :
          (\E t \in active : t.key = k) <=> (HasRow(k) /\ RowOf(k).status = "uploading")
    /\ \A t \in active : t.key \notin haunted => t.named /\ ChipPhase = "active"

\* One run at a time, of at most FILE_CONCURRENCY transfers, and no task waits
\* while a worker is free.
OneRun ==
    /\ active # {} => running
    /\ Cardinality(active) <= FileConcurrency
    /\ tasks # <<>> /\ ~creating => Cardinality(active) = FileConcurrency

\* An eviction is not a pause: what was removed is not in the journal, and a
\* row picked again starts afresh.  (Exempt as above.)
EvictedIsForgotten ==
    \A k \in evicted \ haunted :
        k \notin disk \cup memory /\ (HasRow(k) => ~RowOf(k).resumed)

\* The index patchRow writes by is what a search of the rows finds, and a file has
\* one row.
RowsIndexed ==
    indexOf = Positions(rows) /\ Len(rows) = Cardinality({k \in Keys : HasRow(k)})

\* What the list shows and remembers is what the transfers do.
ListTellsRun == RowsIndexed /\ RowTellsTransfer /\ EvictedIsForgotten

\* Every run ends, whatever is refused, cancelled, removed or lost.
RunEnds == running ~> ~running

\* upload-engine.ts:240: "Never the in-flight file" is not a race that usually
\* goes our way; there is no race.
NeverEvictsInFlight ==
    \A t \in active : HasRow(t.key) /\ RowOf(t.key).status \notin Removable
=============================================================================
