# localchune, modelled in TLA+

localchune is a private track pool for a small circle of DJs: members upload the
tracks they own, a worker analyses and deduplicates them, everybody plays and
downloads them. Its Postgres database, its R2 bucket, two Cloudflare Workers, a
queue and the members' browsers each keep a part of one truth, the life of an
uploaded file, and no transaction spans two of them. These modules model
that life and what the site makes of the stored files (which of them are one
recording, the queue that plays them, the crates that hold them, the controls of a
page), model-check it on small instances, and prove the safety properties of the
upload, the analysis, the playback queue, the upload list, the crates, the controls and
the overlays for instances of any size.

Paths below are relative to the repository; the app's own source is `src/`, the
Workers are under `workers/`, the database functions under `supabase/migrations/`.

## 1. The system

| Component | Where | State it keeps | Operations | Talks to |
|---|---|---|---|---|
| File state machine | `files.state`, `ingest_set_state`, the conditional UPDATEs of every function | one state per file | begin, mark, finalize, fail, abandon, claim, persist, requeue, delete | everything below |
| Upload routes | `src/pages/api/upload/*.ts`, `track/[id]/delete.ts` | none between requests | presign, parts, complete, abort, delete; resume (read only) | database, R2, queue |
| R2 | `src/lib/r2.ts` | objects, multipart uploads, outstanding signed URLs | PUT, create/complete/abort multipart, HEAD, DELETE, list | browser (signed PUTs), routes, crons |
| Maintenance Worker | `workers/maintenance/src/` | nothing; re-reads the world each hour or night | `sweep`, `reconcileBucket`, `requeueStuck`, the matcher backstop | database, R2, queue |
| Browser uploader | `src/lib/uploader.ts` | the parts sent and acknowledged | upload, resume, discard | routes, R2 |
| Upload list | `src/lib/upload-engine.ts`, `upload-store.ts`, `upload-queue.ts`, `upload-journal.ts` | rows and their index, held files, the pump, a journal in IndexedDB and its copy | pick, check, run, cancel, retry, start afresh, remove | uploader, preflight |
| Preflight and policy | `src/lib/preflight.ts`, `preflight.worker.ts`, `upload-policy.ts` | one Web Worker, a chain of reads | read a header, judge a file, plan its parts | upload list |
| Analysis | `workers/analysis/src/consumer.ts`, two queues, `analysis_*` | the queue's messages and attempt counts, `state_changed_at` as a lease | handle a message, handle a dead letter | queue, container, database |
| Analysis container | `worker/` | none | analyse one file | analysis Worker |
| Deduplication | `src/lib/dedup.ts`, `dedup_*`, `merge_tracks`, `undo_merge`, `review_*` | tracks, merges, decisions, negatives | probe, resolve, merge, undo, seed, review | analysis Worker, maintenance Worker |
| Playback queue | `src/lib/queue-*.ts`, `player-memory.ts`, `src/scripts/site.ts` | current track, pins, history, method; the rendered queue; two records in localStorage | play, skip, add, move, remove, select, clear, restore, regenerate | pool API, audio element |
| Crates | migration 27, `src/pages/api/crate/` | items with positions | add, remove, move, reorder, delete, list | database |
| Crate archive | `src/lib/crate-zip.ts`, `zip.ts`, `crate/[id]/download.ts` | one stream | plan, open objects, write, cancel | R2 |
| Page controls | `src/scripts/site.ts`, `tag-edit.ts`, `crate-picker.ts`, like and tag routes | what the page shows, a cached crate list | like, tag, pick a crate, search | routes |
| Overlays | `src/lib/overlay.ts`, `sheet.ts`, `src/scripts/drag-dismiss.ts`, `site.ts` | a lock count, inert marks, timers | open and close the drawer and sheets, drag, navigate | the page |
| Likes, plays, feed, search | migrations 26 to 38 | counters, views | triggers and read queries | database |
| Membership, sessions | `src/lib/session.ts`, migrations 1 to 5 | members, allowlist | predicates | every function |

What is hard here:

* **No transaction spans the stores.** A route is a chain of awaits over the
  database, R2 and the queue. Another route, a cron or the browser's PUT may run
  at each of them, and the chain may end at any of them.
* **Capabilities outlive decisions.** A presigned URL cannot be revoked; a row may
  be failed or abandoned while a PUT is on its way.
* **Stale decisions.** complete decides on a row read several awaits earlier; the
  reconcile deletes on two reads taken at different moments.
* **Times measured against each other.** A 1 hour URL against a 24 hour sweep; a
  back-off of 1 to 5 minutes against a 10 minute lease against an hour before a row
  is stuck.
* **At-least-once delivery, lost answers.** The browser takes an answer it did not
  get for a refusal.
* **Answers that come late.** A page is one thread, but each of its handlers may be
  suspended several times; the state it goes on with is another's, and a second
  answer may already have been shown.
* **READ COMMITTED.** A function of several statements sees the commits of others
  between them, and one function forgets the lock the others take.
* **Two records of one thing.** A row and its index, the queue and the player's
  memory, a like in a row and in the bar, a size in a header and in the directory.

What makes the parts correct: a row moves only along its table and dead rows stay
dead; only dead rows' objects are erased; a live row has its bytes; what was
verified is credited; nobody can write an abandoned row's key; uploads and analyses
end; the bytes of dead rows are reclaimed. In the browser: a row says what its
transfer does and a run ends; the parts complete is given are the file; what plays,
what is shown and what a reload brings back are one queue; a control ends on what the
server holds. In the database: the files of one recording stand on one live track, and
a crate's order is the one committed. `PROJECT.json` lists the hazards one by
one with the property that covers each, or why none does yet.

## 2. Modules

```
FileState             the table of moves of files.state (abstract specification)
  ^ implemented by
Ingest                routes + ingest_* + R2 + sweeper + reconcile, any caller
  ^ extended by                                  Analysis   queue + consumer + cron
Upload                Ingest closed with the browser's uploadFile

Subsequences          what a filter keeps of a list (operators)
  ^ used by
QueueEngine           the reducer and the layers of the queue (operators)
  ^ used by
Playback              the page: requests in flight, audio element, storage, reload

UploadList  Preflight  PartTransfer              the upload, in the tab
Crates  CrateZip  Dedup                          the database's other writers
PageControls  Overlays  Strategies               the page
  ^ all extended by
MCSite                one run for them, a part to a behaviour

MCIngest, MCUpload, MCAnalysis,
MCPlayback, MCUploadList, MCSite                 small instances for TLC

DataProofs       lemmas on lists, folds, loops and finite sets, used by the others
UploadProofs     theorems of FileState, Ingest and Upload
AnalysisProofs   PlaybackProofs                  of the modules they are named after
StrategyProofs   TransferProofs   DedupProofs    of Strategies; of PartTransfer and
                                                 CrateZip; of Dedup
SiteProofs       of PageControls, Preflight, Crates, UploadList and Overlays; and,
                 with the three above, of MCSite
```

**FileState.** One variable. A database function is a set of pairs `<<from, to>>`,
read off its `where state = any (p_from)`. `Next` lets several files move in one
step because `ingest_abandon_stale` moves a page of rows in one statement.

**Ingest.** A route invocation is a record in `req` with a program counter; each
of its awaits is one action, and each database function, one transaction, is one
action. So `IngestBegin`, `LoadJob`, `LoadFile`, `CreateUpload`, `MarkUploading` are
presign's awaits in their order; `LoadJob`, `LoadFile`, (`ListParts`), (`Assemble`),
`HeadObject`, `IngestFinalize`, `Enqueue` are complete's; and so on. The two reads of
`loadOwnedJob` are two actions. `Die` ends a request anywhere. `PutObject` and
`PutParts` are the browser's transfers, possible exactly while a URL is
outstanding. presign signs before it marks the row, but hands the URL out only
after, so the URL exists from the mark on. `Age` is the clock: a row's 24 hours
run out only while nobody holds a URL of it and no request works on it, because
each URL was signed by a request that restarted the row's clock and is worth
nothing after an hour, and no request lasts a day. `SweepPage` is the one SQL
statement of the sweeper and returns the page; `SweepAbort` and `SweepDelete` are
its loop, `SweepDie` its death. The reconcile's two reads are side by side
(`Promise.all`), hence two actions in either order, followed by `Compare` and one
action per delete. `Pipeline` stands for the analysis.

**Upload** adds `session`, where a tab stands in `uploadFile`, and the request it
awaits. It reuses Ingest's actions, so it can only do what Ingest allows; that is
the theorem `UploadRefinesIngest`. `After` is what uploadFile does with each answer:
everything that is not an exhausted network retry discards. With `LoseReplies` an
answer may be lost while its handler runs on, which the browser sees as a
`TypeError`, or as a page that is not JSON.

**Analysis** counts minutes. The constants of the code are the constants of the
model: lease 10, stuck after 60, cron every 60, back-off capped at 5, five retries
on the main queue, three on the dead-letter queue. `BeginRead` and `Claim` are the
SELECT and the UPDATE of `analysis_begin`, two statements with no lock between
them. A handler holds time back until it ends, and the container may run for
`MaxRun`. Faults (calls that throw, before or after committing; invocations that
die) and surplus (late, duplicate or repeated messages) have a budget each.

**QueueEngine** has `reduce` as an operator on a record with the fields of
`QueueState`, one operator per event, and `Regenerated`, the set of queues the tail
may be filled to: the strategy's choice is left open here and made in Strategies.
**Playback** is the page around it. `Apply` is `apply()`: reduce, save, render, and a
ticket for the candidates, with the `regenSeq` of that moment. Each request in flight
(tickets, `starts`, `refreshing`, `lookahead`, the resumed track) is a variable and
its answer an action that reads the state as it is then, which is where the code's
re-checks (`seq !== regenSeq`, `currentFileId !== fileId`) stand or fall. The resumed
track has two of them, `ResumeAnswers` and `ResumeLands`, since `restorePlayer` looks at
the claim after its request and then awaits the body. The two
localStorage records are two variables: a reload may find one aged out.
`overtaken` and `crossed` are history: they mark two divergences of section 3 that the
invariants exempt.

**UploadList** is `upload-engine.ts`. `Pick` is `enqueue` up to its first await,
`ReadLands` and `LookupLands` its continuations; `RunRows`, `BatchLands`, `Pump` and
`TransferEnds` are a run; `Retry` and `StartFresh` split where they forget the
journal's entry. The rows' index is a variable, since the code keeps it beside the
rows. `haunted` is history: keys with two checks or two tasks, of the divergence in
finding 5. **Preflight** has the worker, the promise chain that serialises the reads
and the time-out that terminates the worker. **PartTransfer** has the bytes:
plan, ranges, pump, parts that land although their answer is lost, and the listing a
second visit starts from, possibly under another `PART_SIZE_BYTES`.

**Subsequences** says what `filter` keeps without a recursion: `Only` is the elements at some of a
list's places, in their order. QueueEngine and UploadList filter lists all the time, and
in this form the lemmas about it can be proved once (DataProofs).

**Crates** has one action per group of statements between which others can commit:
`AddReads`, `AddLands`, `DeleteBegins`, `DeleteLands`, `ReorderMoves`, `ReorderLands`,
with `Locked` for row
locks and the deferred unique check when a call commits. `crate_delete` takes the crate's
row and then its items, `crate_reorder` items and then the crate, and two reorders lock
rows in the order of their arrays: `Waits` says when a call may hold what another waits
for, and `Deadlocked` is the abort of either. The page that drags rows is in it: it sends
an order per drop, whatever it has sent before, so several may be in flight and be served
in any order. **CrateZip** scales 0xffffffff down to `U32Max` and follows every size and
offset into the field, or the 64-bit extra, that holds it; two readers of the format
(external) read it back. The one that seeks goes by the field, as readers do: a field that
reads `U32Max` sends it to the extra, there or not (`Or64`). **Dedup** makes each transaction under the advisory lock one
step, and splits `dedup_seed_tracks`, which takes none. A file remembers the track it
was minted on (`home`), from which the merges in force must lead to where it stands.

**PageControls** holds four controls, each with a server half and a page half and
lost answers between. They are one state: an answer to a search replaces the rows, hence
their like buttons, painted as the server held them when it served the search, and their
menus, bare (`PoolSwap`); a toggle in flight keeps only the bar's button. **Overlays** has the drawer, sheets, their scrims, exit timers,
frames, drags, and `overlay.ts`'s count. **Strategies** is the arithmetic of the
tail: penalties kept whole by a common factor, the walk, the shuffle with its
generator as a constant, and the narrowing of the pool's answer. Its loops (the walk,
the shuffle, the collapse to one copy of a recording) are recursive functions of the
round, so that what they compute can be proved round by round.
**MCSite** lets one part run in each behaviour while the others stay at their initial
state, and the state spaces add up instead of multiplying. Of the controls it takes one at
a time; the search, which writes what the picker and the like buttons show, runs with
either. Nothing else the code shares is cut by this, and the theorems of PageControls are
about all four at once.

Not in the models: authorisation, validation of bodies,
wording, logging, signing, XML, what a result says. A request those refuse changes
nothing. An object is absent, of the declared size, or of another. One SQL
statement is one step: what READ COMMITTED lets happen inside one (the CTE of
`ingest_abandon_stale`) is listed as a hazard and not modelled.

Some things the source says of itself that the models had to settle:

* `ingest_set_state` calls itself the only place that writes `files.state`;
  `ingest_abandon_stale`, `analysis_requeue` and `undo_merge` write it directly. The
  table has a set of moves for the first two. Dedup leaves the state a rejected copy
  moves to, and `undo_merge`'s way back, out: `needs_review`, `rejected_*` and
  `quarantined` are allowed by the check constraint, and no function modelled here
  moves a row there.
* `max_retries` 5 means six deliveries. Attempts count refusals by the lease too,
  so an `ok:false` result that "is retried twice" gets fewer runs than that when
  another delivery holds the lease.
* Migration 9 says that `RECONCILE_DELETE_PENDING` must stay `"false"`, because a
  failed row may hold good bytes; `track/[id]/delete.ts` relies on its being on. The
  runs below check both settings.

## 3. What the runs show

| Run | Question | Outcome |
|---|---|---|
| `ingest_races` | two routes at once, four requests of any kind, the crons, late PUTs, one file | six invariants and the refinement of FileState hold |
| `upload_serial` | the browser's own procedure, answers delivered | a live row has bytes; uploads end; dead rows' bytes are reclaimed |
| `upload_lost` | answers lost, isolates dying, tabs reopened, four requests | "done" is still always true |
| `upload_abort_after_finalize` | the same, asking for `LiveRowHasBytes` | violated: finding 1 |
| `tombstone_not_reclaimed` | `RECONCILE_DELETE_PENDING` off, as deployed | violated: finding 2 |
| `analysis_faults` | three faults, one surplus message, the code's own times | files settle; no second message beside a live one; dead letters spare running containers; the table is kept |
| `analysis_poison` | a file that throws every time | violated: finding 3 |
| `analysis_double_claim` | two messages for one file | violated: finding 4 |
| `playback` | four commands, two requests of a kind in flight, a reload | the queue, the screen, the transport and the element agree; a reload keeps the queue |
| `site` | every order of clicks, answers and failures in each of its parts | twelve invariants, three action properties and one liveness property hold |
| `upload_list_evicts` | a file picked, removed and picked again | violated: finding 5 |
| `overlay_reopen` | the drawer opened during its own exit | violated: finding 6 |

Properties, in the order of what they protect:

* `SweepOnlyDead`, `ReconcileOnlyDead`: a cron erases only what is dead at that
  moment, although it decided earlier. The second needs `DeleteOrphans` off: an
  orphan is a key with no row, and a row may come later.
* `AbandonedHasNoUrls`: an abandoned row's key cannot be written again. It depends on
  /parts restarting the row's clock each time it signs.
* `LiveWasClaimed`, `SentAfterFinalize`: storage is credited when bytes are
  verified; no message runs ahead of the row.
* `LiveRowHasBytes`, `DoneIsFinalized`: row, object and browser agree.
* `UploadEnds`, `Reclaimed`, `Settles`: nothing stays in flight, nothing dead keeps its
  bytes, nothing waits for an analysis for ever.
* `OneMessagePerFile`, `DeadLetterSpares`: the times fit together.
* `ImplementsFileState`, `FSNext`: the table is the whole truth about `files.state`.
* `ClaimIsCurrent`, `SourceFollowsClaim`, `RenderedDescribesState`: the reducer's
  current track, the file the transport answers for, the element's source and the
  queue on the screen, four records written at different moments, agree.
* `OneOfEach`, `AdvanceTakesFirstPin`, `ReloadKeepsQueue`: no file twice, no pin lost.
* `ListTellsRun`, `OneRun`, `RunEnds`: rows and index are one list, "uploading" is said
  of exactly the rows that upload, what was removed is forgotten, one run at a time, and
  it ends.
* `ReadTellsHeader`, `PartsAreTheFile`: one bad file costs no other its duration; the
  parts complete names are the file's bytes once each.
* `SaidInCrate`, `HiddenStayBehind`, `PageShowsCommitted`: a crate's order. A reorder
  that writes is refused by a deadlock only and then leaves nothing; the page shows the
  order committed when its last drag is answered, unless another's call, or a later drag,
  committed first.
* `ArchiveIsWhole`: streaming and seeking readers read the same archive, each planned
  track an entry or named missing; an archive with a number that is `U32Max` itself is
  exempt from the first half (`SentinelMeansZip64`).
* `ResolveJoins`, `TracksHold`: copies the matcher accepts end on one track; files
  follow the merges in force; a live track prefers a live file of its own.
* `PickerListsCreated`, `ControlsSettle`: picker, hearts, chips and search results end
  on what the server holds, but for the exemptions below.
* `PageFollowsOverlays`: the page is locked exactly while an overlay is open.
* `TailIsChain`: the tail is a function of the set of tracks on offer.

Findings:

1. **abort erases a live object.** complete commits `ingest_finalize` and its answer
   is lost; uploadFile counts the `TypeError` as fatal and calls abort, which deletes
   the object before `ingest_fail` refuses the row. The row stays `received`.
2. **A tombstone whose object delete failed keeps its bytes** for as long as the flag
   is off.
3. **A poisoned file is never failed.** Its fifth delivery, or a later one, reclaims
   the row and takes a new lease; the dead letter arrives inside it and is
   dropped; an hour later the cron starts again.
4. **analysis_begin admits two claims** whose SELECTs overlap.
5. **A row can be removed while it uploads.** `enqueue` asks, when a check ends, whether
   its key has a row, and not whether the row is its own. A file picked, removed during
   its check and picked again has two checks: the first queues it and it uploads, the
   second writes "queued" over "uploading".
6. **The scrim of a reopened drawer takes no tap.** Within 280 ms of closing, the old
   scrim is still in the body when `lockPage` makes its children inert.

Divergences met while modelling that no run checks; the properties exempt those marked
with the variable or guard in brackets, and the models have the steps:

* A resume (`RESTORE_CURRENT` with `hydrate` false) does not count up `regenSeq`, so
  candidates in flight, computed before it, are taken for the newest and render the
  replaced state, against `site.ts:537` "There is deliberately no moment between an event
  and its successor where this array describes a state that has already been replaced";
  the next advance reads positions of a queue without the current track [`overtaken`].
* `restorePlayer` looks at the claim when its request is answered and then awaits the
  body (2827). A track played during that await is replaced by the resumed one, against
  `site.ts:2819` "a deliberate click always outranks a silent restore"
  [`ResumeLands`; no property says it, and `ClaimIsCurrent` holds through it].
* `refreshSource` does not look at the claim again when its answer comes: the old track's
  source is put in the new one's place, or its failure is booked on the new one, which is
  skipped and struck, against `site.ts:464` "fetch a fresh signed URL for currentFileId"
  [`crossed`].
* `zip.ts` widens what is greater than `U32_MAX`; a size or offset equal to it goes into
  its 32-bit field with no ZIP64 value, which a reader takes for one that overflowed,
  against `zip.ts:35` "The value a 32-bit ZIP field carries when the real number lives in
  ZIP64" [`SentinelMeansZip64`].
* The like handler paints, and rolls back, the buttons there were at the submit. After a
  lost answer, or rows replaced by a search meanwhile, the row says one thing and the bar
  another with nothing in flight. A like from the bar that lands after a skip is painted
  on the next track's heart [`muddled`].
* Nulling `crateListPromise` does not stop its request, whose answer fills the bare menus
  of the page there is then; a crate made meanwhile is missing until the next swap
  [PickerListsCreated's own `overtaken`]. A failed list is cached as empty [`NoList`].
* The play meter names the claimed file while the previous source still plays;
  `takeLookahead` never finds anything, since `setRenderedQueue` has cleared the id before.
* `restoreQueue` loses the method when there is neither a current track nor a pin.
* Two adds that overlap may be told "already in this crate" of a file that is not
  [`said.alone`]; an add to a crate deleted meanwhile is told the file does not exist.
  Two drags that commit the other way round leave the page showing the later and the
  database holding the earlier [a call's `alone`].
* Two edits of one tag may cross [`crossed`]. The cap of 20 tags is counted and then
  inserted.
* `dedup_seed_tracks` may overwrite a track assigned since it read [`raced`];
  `undo_merge` may restore a tombstone as preferred, and an answer "same" may prefer a
  deleted file [`tainted`].
* `retryAllFailed` keeps the ids of discarded files, which can only fail again.
* The fallback of the harmonic walk to tempo never adds a track: the walk ends only
  when nothing is left. The shuffle depends on the order of the answer.
* A worker that breaks while idle costs one file its duration [`cut`]; where there is
  no Worker a parse has no time-out.

### Bounds

* One file: every property is about one file at a time and the routes of two files
  share nothing but the crons' pages, which treat each row on its own. The
  inductive invariant was checked with two files as well, and the theorems have no
  bound.
* Two requests at once: all the races known are between two (a late complete and
  an abort, two presigns, a delete and a complete); four requests in a behaviour
  let a whole upload, its retry and an abort follow one another.
* Two upload ids, so that the second presign's upload replaces the first's.
* `upload_serial` has three requests, the least a whole upload takes, because of the cost of
  the liveness check; it leaves lost answers out for the same reason.
* Analysis: two message slots, enough for a duplicate; three faults, enough to use
  up the dead-letter queue's retries with one to spare on the way; the code's own
  times, so that the comparison between back-off, lease and stuck threshold is the
  real one. `MaxRun` is one minute, well below the lease.
* Playback: four files, two of them one recording and one of none, a queue of three so
  that the cap cuts, four commands, two requests of a kind. A pin lost, an answer
  overtaken or a track restored over another takes three of these.
* `site`: two files, three picks and a pump of one, so that a removed file is picked again
  while another is sent or waits for the worker (the theorems have any number of
  each); three tunes and three overlapping calls on a crate, so that two drags meet a
  third call and a deadlock leaves one to commit; two songs and two queries for the
  controls, so that a search replaces the row of a toggle and of another song;
  two tracks and a manifest around a `U32Max` of 5, with sizes below, at and over it
  and one the bucket does not know; three uploads of which two pairs match, two
  jobs, merges and turns of the owner, so that a merge is undone after another of the same tracks;
  six tunes whose keys lie where the wheel closes, with a tie, a pair of copies and
  one not analysed; files of one to four parts; three sheets and six taps.
* Symmetry over requests and upload ids is used for the runs without liveness
  properties only. Deadlock is checked where the
  system never stops (the cron and the clock always have a step); a page that nobody
  touches and whose requests are answered does stop, and those runs do not check it.

### Fairness

A route that runs gets an answer or dies (the runtime bounds it). The cron triggers
fire for ever. Time passes, so URLs expire and rows age. R2 and the database may
fail any number of times but not for ever: the reconcile's steps, which a failure
sends back to their beginning, are strongly fair, since the job is started again
every night. In Analysis, the queue delivers, an invocation goes on or dies, and the
hourly cron fires. Members and tabs owe nothing, and no property needs them to.
In UploadList the answer of `createBatch` comes or the browser gives the request up,
and a transfer ends: each of its requests is answered or fails, and its retries are
counted. The rest of the site's runs assume no fairness.

## 4. What is proved

All proofs are checked by tlapm to the last leaf, and every safety property of every
passing run is a theorem. They assume of the constants what the
named assumptions of the modules say (a NULL is not an id, bounds, sizes and times are
numbers, part sizes and `FileConcurrency` are not 0, the files and the catalogue are
finite, a file id names one track, a draw of the shuffle is within its range) and hold
for any number of files, requests, tabs, messages, sheets, tracks, parts or archive
entries. Where a theorem needs more, its hypothesis is listed here.

* `UploadProofs`, of FileState: in every history of the table the states are legal, dead
  rows stay dead, and bytes appear only by finalize. Of Ingest: `TypeOK`,
  `SweepOnlyDead`, `ReconcileOnlyDead`, `LiveWasClaimed`,
  `SentAfterFinalize`, `AbandonedHasNoUrls`, and `Spec => ImplementsFileState`.
  Of Upload: `USpec => Spec`, so that all of the above holds of the closed
  system; `UploadTypeOK`; `DoneIsFinalized`; and `LiveRowHasBytes` under three
  hypotheses: answers arrive (`~LoseReplies`; finding 1 is what happens otherwise),
  the orphan deletes are off (`~DeleteOrphans`; `"false"` in
  `workers/maintenance/wrangler.jsonc:61` and `:107`), and no two tabs send the same file
  (`OneTabPerFile`; the engine mints a random id per row, and only the same file picked
  again in a second tab of the same browser finds a remembered one).
* `AnalysisProofs`: `TypeOK`; `FSNext`; `OneMessagePerFile` when
  `HourOutlastsDeliveries`, which says that six attempts with their back-off and the dead
  letter's four fit into the hour of the cron and of the stuck threshold: with the
  deployed numbers, for container runs of up to six minutes and not for seven;
  `DeadLetterSpares` when no run outlasts the lease and the owner requeues no file that
  is still being worked on. `analysis_requeue` takes stored files only, so such a file
  is one that two overlapping claims (finding 4) both work on.
* `PlaybackProofs`: all seven properties of the run, from lemmas about what each event
  of QueueEngine keeps (entries are distinct, pins in order, the cap).
* `TransferProofs`: `PartsAreTheFile` and `ArchiveIsWhole`, for any sizes, any field width
  and any number of parts and entries.
* `DedupProofs`: `TracksHold` and `ResolveJoins`, for chains of merges of any length, and
  the shape of the tables.
* `StrategyProofs`: `TailIsChain`, for any pool, any order of the answer and any draws.
* `SiteProofs`: of the upload list `ListTellsRun`, `OneRun` and the types; of the crates
  `SaidInCrate`, `HiddenStayBehind`, `PageShowsCommitted` and that positions are unique
  at every commit, for any number of calls and drags in flight; of the controls
  `PickerListsCreated` and `ControlsSettle`, over every
  interleaving of the four, where the run takes one control, with the search, at a time; of the duration
  check `ReadTellsHeader`; of the overlays `PageFollowsOverlays`; and of the run of all
  the parts, that each part does what its own specification allows
  (`WholeIsItsParts`), whence `SiteTypeOK`, and whence that run has every property proved
  of a part alone (`SiteKeepsPromises`).

The arguments. None of the properties is inductive.

**Ingest.** A request between two awaits, a snapshot and a URL carry knowledge from one
moment to another, so `IInv` says what is still true when it is used:

* a request at "enqueue" works on a claimed file (`EnqueueIsClaimed`), because it came
  from finalize or from a row it read as received;
* a request at "sign" works on a row whose clock it has restarted and which is
  therefore not abandoned (`SignersAreFresh`); a URL keeps its row fresh
  (`UrlsAreFresh`), so the sweeper, which takes only rows that are not, never meets one;
* a dead row in the reconcile's snapshot is still in that state
  (`SnapshotStillDead`), because no move leaves a dead state. This is why two reads
  that were not taken together are good enough.

The proof first types the steps (one lemma for the handlers, one for callers, one
for the environment, one for the crons), then says once how each kind of step
changes rows (`HandlerState`, the frame lemmas, `RowsMove`) and requests
(`HandlerRequest`), and derives each group of `IInv` from these.

**Upload.** `TabInv`: while a request runs it is the one its tab made, and the answers
that end an upload are true when they are given (`AnswersTrue`) and stay true, since
claims only grow. For the bytes, `Serial` adds that a running route is the one its file's
tab waits for (`Served`), so no abort is under way beside a complete; that a tab whose
complete is past finalize can do nothing but be done (`LiveIsDone`); and that the object
complete has looked at is still there when it finalizes (`Verified`).

**Analysis.** That a file has one message is a matter of time. `Spent` counts the minutes
a message can have been under way, from where it is in its attempts, and `ClocksKeepUp`
says that the row's clock or the cron's has run no longer than that; so a message is
over before the cron can list its row. `RunsAreClaimed` is the lease: while a container
runs, the row is claimed or settled, and the claim is no older than the run.

**Playback.** `IInv` says of every answer in flight what it was asked about: a ticket of the
current sequence number holds the state there is (`Showing`), the stored record is what
there is to lose (`Saved`), and the claimed file is in the element or a start of it is on
its way (`Answered`). The lemmas on what `Only` keeps of a list (DataProofs) and
one or more per event of the queue carry it.

**Upload list.** `RunInv`: the pump is full or has no task left. `FilesTell`, of each
file that has not two checks or tasks (`haunted`): a transfer and its row's "uploading" go
together (`SendsIt`), a check that is not over is alone and its row waits for it
(`ChecksIt`), a task waits once and its row with it (`WaitsOnce`), and what was removed
stays forgotten (`StaysForgotten`). The last three are why the first holds: a check that
ended on a row that was already queued would write over "uploading", which is finding 5.

**Overlays.** `OInv` counts: the depth of `overlay.ts` is the number of locks held
(`LocksCounted`), each lock remembers what it made inert (`DrawerHolds`), and a timer of an
exit that was overtaken has nothing left to take away (`ExitsAreOver`).

**Crates, controls, durations.** `CratesInv` says what a call in flight knows and what of
that is still true (`CallsKnow`): a reorder that has moved rows holds the lock, so what it
names is still there until it commits or is aborted, and of a page's unanswered drags the
last sent is what the page shows unless a call of others committed since. `ControlsInv` says of every paint, answer and rollback
in flight what it will leave, and of a search that was served what its rows tell of each
song (`RowsTell`), a song toggled since set aside. `PreflightInv` says that one read at a time is with the worker that
began it, so that a time-out cuts off that read and none other. For the
shape, `ControlsBounds` adds what no property needed: no list on its way names more
crates than there are, and of two searches in flight one is aborted.

**What loops compute.** A fold or a recursive function is a function on a finite set or
an interval, so what it computes follows by induction once it is known to satisfy its own
equation. The library states induction for an operator; the proofs use it for a set, the
set of the arguments for which the claim holds: an interval has a least element outside
that set, a finite set a least subset. DataProofs does this once for each kind of
loop: sums (`SumFunction`, `SumFunctionOnSet`), folds over a list (`StepsWithin`) and
functions of the round (`LoopWithin`).
What each loop keeps is then an ordinary step lemma.

**Parts.** `PartsInv`: the plan covers the file and no more (`PlanCovers`); what R2 holds
is the plan's ranges, and what is counted as sent R2 holds (`PartsHeld`); and each part is
in one place, waiting in one range, under way, failed or held, unless it was given up
(`PartsPlaced`). Progress is a sum over parts in different places, so it is at most the
size.

**Archive.** `ZipInv`: the pieces written are the entries one behind the other
(`Laid`, a witness says where each ends), each with the start its record names, and a
field that was not widened is wide enough for what it holds (`Fits`). With no number equal
to `U32Max` (`SentinelMeansZip64`) a field that reads so has its number in the extra, which
is what the reader that seeks needs. Each row of the
plan passed so far is an entry or listed as missing (`Accounted`). Both readers walk the
pieces; that they read the same follows from the layout, not from the writer.

**Merges.** `Sound`: `merged_into` is a forest because each merge in force has a loser of
its own, still standing when it was merged away, and because a merge is undone only while
nothing was merged after it into its loser (`Forest`); a file is moved by the merges on its
path and no other, and stands at its end (`Follows`); a live track prefers a live file
that stands on it (`Prefers`). `Canonical` walks to the path's end in at most as many
steps as there are tracks. The two exemptions are the divergences of section 3: `raced`, what the
seed overwrote, and `tainted`, tracks an undo or an answer pointed at a deleted file.

**The tail.** `compare` and `preferredCopy` are strict and total (`Orders`), ids being
unique, so of any set of tracks one is best, wherever it stands in a list. The collapse
keeps, of each recording, the best copy so far (`Kept`); a round of the walk takes the best
of the rest (`Walked`); the shuffle only exchanges. So what is picked depends on the set of
tracks and, but for the shuffle, not on the order of the answer.

### What is only model-checked

Liveness, which this prover does not do: `UploadEnds`, `Reclaimed`, `Settles`, `RunEnds`
(and `TombstoneReclaimed`, which fails), on the instances and under the fairness of
section 3. The six violated properties are counterexamples TLC found and need no proof.

## 5. Plan

The models are complete as far as the plan went: the upload and its crons first, then the
analysis, the queue, and the parts of the site; and every safety property the runs check
is proved. What could follow is where the hazards without a property are: the CTE of
`ingest_abandon_stale` statement by statement under READ COMMITTED, two presigns that both
create an upload, a dead letter between a handler's look and its answer, and the
seed without the advisory lock as a property of its own rather than an exemption.

Not modelled: the container's signal processing and the bit arithmetic of the
fingerprints, whose constants are empirical; SigV4 and XML; the walk over a dropped
folder, layout, lists of rows and the status strip, which only read; the play meter
and the counters kept by triggers; the queries of pool, search and feed; who may do
what, which every function decides by a predicate before the steps modelled here.

## 6. Running

```
tlc -config MCIngest.cfg MCIngest
tlc -config MCUpload.cfg MCUpload            (also MCUploadLost, MCUploadAbort, MCUploadTombstone)
tlc -config MCAnalysis.cfg MCAnalysis        (also MCAnalysisPoison, MCAnalysisRace)
tlc -config MCPlayback.cfg MCPlayback
tlc -config MCSite.cfg MCSite
tlc -config MCUploadListEvict.cfg MCUploadList
tlc -config MCOverlaysReopen.cfg Overlays
tlapm DataProofs.tla                         (also UploadProofs, AnalysisProofs,
                                              PlaybackProofs, StrategyProofs,
                                              TransferProofs, DedupProofs, SiteProofs)
```
