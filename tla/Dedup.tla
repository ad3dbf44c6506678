-------------------------------- MODULE Dedup --------------------------------
(***************************************************************************)
(* Which files are one recording: the matcher (lib/dedup.ts) run by the    *)
(* analysis consumer and by the hourly sweep, dedup_resolve and            *)
(* merge_tracks under the lock 'localchune.track_assign', the owner's      *)
(* answers (review_resolve) and undo_merge, upload_delete's re-election,   *)
(* and dedup_seed_tracks, which takes no lock.                             *)
(*                                                                         *)
(* Abstractions: a transaction under the lock is one step, and so is       *)
(* upload_delete.  What the fingerprints say of two files is constant      *)
(* (Copies, Likely).  Tags, statistics and claims folded by a merge are    *)
(* left out; reclaimed_file_ids is never filled by the code.               *)
(***************************************************************************)
EXTENDS Integers, Sequences, FiniteSets, SequencesExt, FiniteSetsExt, Subsequences

CONSTANTS
    Uploads,         \* the files: numbers, in the order of created_at
    Copies,          \* pairs of files the matcher scores 'same'
    Likely,          \* pairs it scores 'probable'
    Printless,       \* files without a usable fingerprint
    MaxJobs,         \* bound: runs of the matcher in a behaviour
    MaxMerges,       \* bound: merges
    MaxTurns         \* bound: requeues, deletions, answers, undos, seeds

VARIABLES
    fileState,       \* files.state: "analysing", "stored" or "deleted"
    track,           \* files.track_id: an index into tracks, or 0
    tracks,          \* [into: merged_into_track_id, pref: preferred_file_id]
    home,            \* the track a file was last minted
    merges,          \* track_merges
    negatives,       \* dedup_negatives: pairs
    review,          \* unanswered 'probable' decisions: <<probe, candidate>>
    jobs,            \* runDedup in flight
    jobsRun,         \* count of them (bound)
    probed,          \* files with dedup_probed_at
    unmatched,       \* files persisted, the consumer's matcher still to run
    due,             \* the files dedup_seed_tracks has read
    raced,           \* files it gave a track over the one they had
    tainted,         \* tracks undo or review pointed at a deleted or absent file
    turns            \* count (bound)

trackVars == <<track, tracks, home, merges>>
dedupVars == <<fileState, trackVars, negatives, review, jobs, jobsRun, probed, unmatched, due,
               raced, tainted, turns>>

\* There are finitely many files, 0 is none of them, and the printless are files.
ASSUME DedupAssumption ==
    IsFiniteSet(Uploads) /\ Uploads \subseteq Nat \ {0} /\ Printless \subseteq Uploads

DedupInit ==
    /\ fileState = [f \in Uploads |-> "analysing"] /\ unmatched = {}
    /\ track = [f \in Uploads |-> 0] /\ home = track /\ tracks = <<>> /\ merges = <<>>
    /\ negatives = {} /\ review = {} /\ jobs = {} /\ jobsRun = 0 /\ probed = {}
    /\ due = <<>> /\ raced = {} /\ tainted = {} /\ turns = 0

Visible == {f \in Uploads : fileState[f] # "deleted"}   \* pool_visible_states()
Turn == turns < MaxTurns /\ turns' = turns + 1
InOrder(files) == [n \in 1 .. Cardinality(files) |-> Nth(files, n)]

(***************************************************************************)
(* The tables under the lock, as one value.                                *)
(***************************************************************************)

Db == [track |-> track, tracks |-> tracks, home |-> home, merges |-> merges]
Commit(db) ==
    /\ track' = db.track /\ tracks' = db.tracks /\ home' = db.home /\ merges' = db.merges
    /\ Len(db.merges) <= MaxMerges

\* canonical_track_id: the end of the chain of merges.
Canonical(db, t) ==
    FoldSeq(LAMBDA i, u : IF u = 0 \/ db.tracks[u].into = 0 THEN u ELSE db.tracks[u].into,
            t, db.tracks)
TrackOf(db, f) == Canonical(db, db.track[f])

Mint(db, f) ==
    LET t == Len(db.tracks) + 1
    IN  [db EXCEPT !.tracks = Append(@, [into |-> 0, pref |-> f]),
                   !.track[f] = t, !.home[f] = t]

MintAll(db, files) == FoldSeq(LAMBDA f, d : Mint(d, f), db, files)

\* dedup_assign_track: a stored file without a track is minted one.
Assign(db, f) == IF db.track[f] # 0 \/ fileState[f] # "stored" THEN db ELSE Mint(db, f)

\* merge_tracks: the loser's files move, and the record can be undone.
MergeTracks(db, loser, winner) ==
    LET l == Canonical(db, loser)
        w == Canonical(db, winner)
        moved == {f \in Uploads : db.track[f] = l}
    IN  [db EXCEPT !.merges = Append(@, [loser |-> l, winner |-> w, moved |-> moved,
                                         priorPref |-> db.tracks[w].pref, undone |-> FALSE]),
                   !.track = [f \in Uploads |-> IF f \in moved THEN w ELSE db.track[f]],
                   !.tracks[l].into = w]

\* The survivor of several tracks: the one with the oldest file.
Survivor(db, ts) ==
    LET age(t) == Min({f \in Uploads : db.track[f] = t} \cup {1 + Max(Uploads)})
    IN  CHOOSE t \in ts : \A u \in ts : age(t) < age(u) \/ (age(t) = age(u) /\ t <= u)

(***************************************************************************)
(* The matcher.                                                            *)
(***************************************************************************)

\* analysis_persist; the consumer's matcher runs behind it.
Persist(f) ==
    /\ fileState[f] = "analysing" /\ fileState' = [fileState EXCEPT ![f] = "stored"]
    /\ unmatched' = unmatched \cup {f}
    /\ UNCHANGED <<trackVars, negatives, review, jobs, jobsRun, probed, due, raced,
                   tainted, turns>>

\* analysis_requeue: the file goes through analysis again.
RequeueFile(f) ==
    /\ Turn /\ fileState[f] = "stored" /\ fileState' = [fileState EXCEPT ![f] = "analysing"]
    /\ UNCHANGED <<trackVars, negatives, review, jobs, jobsRun, probed, unmatched, due, raced, tainted>>

\* runDedup up to its last call: the candidates are read and scored.  The
\* consumer runs it after it persisted, the sweep for a file never probed.
RunDedup(f) ==
    /\ f \in unmatched \/ (fileState[f] = "stored" /\ f \notin probed \cup Printless)
    /\ unmatched' = unmatched \ {f}
    /\ jobsRun < MaxJobs /\ jobsRun' = jobsRun + 1
    /\ \E cands \in SUBSET {c \in Visible : {f, c} \in Copies \cup Likely} :
          /\ (f \in Printless => cands = {})
          /\ jobs' = jobs \cup {[id |-> jobsRun, file |-> f, cands |-> cands,
                                 at |-> IF f \in Printless THEN "done" ELSE "scored"]}
    /\ UNCHANGED <<fileState, trackVars, negatives, review, probed, due, raced, tainted, turns>>

\* What dedup_resolve takes of the list: still visible, never told apart.
Accepted(job, pairs) ==
    {c \in job.cands : c \in Visible /\ {job.file, c} \in pairs \ negatives}

\* A file's track goes into the winner's, unless it is that or there is none.
MergeFile(db, f, winner) ==
    LET t == TrackOf(db, f)
    IN  IF t = 0 \/ t = Canonical(db, winner) THEN db ELSE MergeTracks(db, t, winner)

AssignAll(db, same) == FoldSeq(LAMBDA c, d : Assign(d, c), db, same)
MergeAll(db, same, winner) == FoldSeq(LAMBDA c, d : MergeFile(d, c, winner), db, same)
Winner(db, job, same) ==
    Survivor(db, {TrackOf(db, c) : c \in {job.file} \cup ToSet(same)} \ {0})

\* Mutant: the probe's own track is left out.
JoinedWithoutProbe(db, job, same) ==
    LET assigned == AssignAll(db, same)
    IN  MergeAll(assigned, same, Winner(assigned, job, same))

\* The accepted copies get tracks, and all tracks are merged into one, the
\* probe's last.
Joined(db, job, same) ==
    LET assigned == AssignAll(db, same)
        winner   == Winner(assigned, job, same)
    IN  MergeFile(MergeAll(assigned, same, winner), job.file, winner)

\* dedup_resolve, which refuses a probe that is not stored and has no track.
DedupResolve(job) ==
    LET db == Assign(Db, job.file)
    IN  /\ job.at = "scored"
        /\ IF db.track[job.file] = 0 THEN UNCHANGED <<trackVars, review>>
           ELSE LET same == InOrder(Accepted(job, Copies))
                IN  /\ Commit(IF same = <<>> THEN db ELSE Joined(db, job, same))
                    /\ review' = review \cup ({job.file} \X Accepted(job, Likely))
        /\ jobs' = (jobs \ {job}) \cup {[job EXCEPT !.at = "done"]}
        /\ UNCHANGED <<fileState, negatives, jobsRun, probed, unmatched, due, raced, tainted, turns>>

\* A throw: the file is not stamped, and the sweep finds it again.
DedupThrows(job) ==
    /\ job.at = "scored" /\ jobs' = jobs \ {job}
    /\ UNCHANGED <<fileState, trackVars, negatives, review, jobsRun, probed, unmatched, due,
                   raced, tainted, turns>>

\* dedup_mark_probed, or its failure.
DedupMarkProbed(job, fails) ==
    /\ job.at = "done" /\ jobs' = jobs \ {job}
    /\ probed' = IF fails THEN probed ELSE probed \cup {job.file}
    /\ UNCHANGED <<fileState, trackVars, negatives, review, jobsRun, unmatched, due, raced,
                   tainted, turns>>

(***************************************************************************)
(* dedup_seed_tracks: one statement without the lock, so what it read may  *)
(* have changed when it writes.                                            *)
(***************************************************************************)

SeedReads ==
    LET read == {f \in Printless : fileState[f] = "stored" /\ track[f] = 0}
    IN  /\ Turn /\ due = <<>> /\ read # {} /\ due' = InOrder(read)
        /\ UNCHANGED <<fileState, trackVars, negatives, review, jobs, jobsRun, probed, unmatched,
                       raced, tainted>>

SeedLands ==
    /\ due # <<>> /\ due' = <<>>
    /\ Commit(MintAll(Db, due))
    /\ raced' = raced \cup {f \in ToSet(due) : track[f] # 0 \/ fileState[f] = "deleted"}
    /\ UNCHANGED <<fileState, negatives, review, jobs, jobsRun, probed, unmatched, tainted, turns>>

(***************************************************************************)
(* The owner, and the uploader.                                            *)
(***************************************************************************)

\* review_resolve.  'same' merges, and the file of the loser's side may be
\* preferred (an upgrade, by quality); it is not asked whether it is deleted.
ReviewResolve(probe, cand, verdict, upgrade) ==
    LET db == Assign(Assign(Db, probe), cand)
        p  == TrackOf(db, probe)
        c  == TrackOf(db, cand)
        w  == Survivor(db, {p, c})
        challenger == IF w = p THEN cand ELSE probe
        merged == MergeTracks(db, IF w = p THEN c ELSE p, w)
        takes  == upgrade \/ merged.tracks[w].pref = 0
    IN  /\ Turn /\ <<probe, cand>> \in review
        /\ review' = review \ {<<probe, cand>>}
        /\ negatives' = IF verdict = "different" THEN negatives \cup {{probe, cand}} ELSE negatives
        /\ IF verdict = "same" /\ 0 \notin {p, c} /\ p # c
           THEN /\ Commit(IF takes THEN [merged EXCEPT !.tracks[w].pref = challenger] ELSE merged)
                /\ tainted' = IF takes /\ fileState[challenger] = "deleted"
                              THEN tainted \cup {w} ELSE tainted
           ELSE Commit(db) /\ UNCHANGED tainted
        /\ UNCHANGED <<fileState, jobs, jobsRun, probed, unmatched, due, raced>>

\* Mutant: a later merge that depends on this one is not looked for.
UndoableAny(i) == ~merges[i].undone

\* No later merge touches either track.
Undoable(i) ==
    /\ ~merges[i].undone
    /\ \A j \in DOMAIN merges :
          j > i /\ ~merges[j].undone =>
              {merges[j].loser, merges[j].winner} \cap {merges[i].loser, merges[i].winner} = {}

\* undo_merge: the loser, the files that moved and the winner's preferred
\* file are put back, if there was one.
UndoMerge(i) ==
    LET m   == merges[i]
        was == tracks[m.winner].pref
        p   == IF m.priorPref # 0 THEN m.priorPref ELSE was
    IN  /\ Turn /\ Undoable(i)
        /\ merges' = [merges EXCEPT ![i].undone = TRUE]
        /\ track' = [f \in Uploads |-> IF f \in m.moved THEN m.loser ELSE track[f]]
        /\ tracks' = [tracks EXCEPT ![m.loser].into = 0, ![m.winner].pref = p]
        /\ tainted' = IF p # 0 /\ (fileState[p] = "deleted" \/ track'[p] # m.winner)
                      THEN tainted \cup {m.winner} ELSE tainted
        /\ UNCHANGED <<fileState, home, negatives, review, jobs, jobsRun, probed, unmatched, due, raced>>

\* Every track that names the file, merged away or not.
Naming(f) == {t \in DOMAIN tracks : tracks[t].pref = f}

\* upload_delete: each of them elects a visible file of its own, by quality.
UploadDeleteFile(f) ==
    /\ Turn /\ fileState[f] = "stored" /\ fileState' = [fileState EXCEPT ![f] = "deleted"]
    /\ \E elected \in [Naming(f) -> Visible \cup {0}] :
          /\ \A t \in Naming(f) :
                LET own == {g \in Visible \ {f} : track[g] = t}
                IN  elected[t] \in IF own = {} THEN {0} ELSE own
          /\ tracks' = [t \in DOMAIN tracks |->
                           IF t \in Naming(f) THEN [tracks[t] EXCEPT !.pref = elected[t]]
                           ELSE tracks[t]]
    /\ UNCHANGED <<track, home, merges, negatives, review, jobs, jobsRun, probed, unmatched, due,
                   raced, tainted>>

DedupNext ==
    \/ \E f \in Uploads : Persist(f) \/ RequeueFile(f) \/ RunDedup(f) \/ UploadDeleteFile(f)
    \/ \E job \in jobs : \/ DedupResolve(job) \/ DedupThrows(job)
                         \/ \E fails \in BOOLEAN : DedupMarkProbed(job, fails)
    \/ SeedReads \/ SeedLands
    \/ \E pair \in review, upgrade \in BOOLEAN, verdict \in {"same", "different", "version"} :
          ReviewResolve(pair[1], pair[2], verdict, upgrade)
    \/ \E i \in DOMAIN merges : UndoMerge(i)

DedupSpec == DedupInit /\ [][DedupNext]_dedupVars

(***************************************************************************)
(* Properties.                                                             *)
(***************************************************************************)

\* Shape of the tables.
DedupTypeOK ==
    /\ \A f \in Uploads : track[f] \in {0} \cup DOMAIN tracks /\ (track[f] = 0) = (home[f] = 0)
    /\ \A t \in DOMAIN tracks : tracks[t].into \in {0} \cup (DOMAIN tracks \ {t})

\* Through any sequence of merges and undos a file stands on the track that
\* the merges in force lead to from the one it was minted, and that track is
\* live.  (Not a file whose track the seed overwrote.)
TrackFollowsMerges ==
    \A f \in Uploads \ raced :
        track[f] # 0 => /\ track[f] = Canonical(Db, home[f])
                        /\ tracks[track[f]].into = 0

\* When the matcher has resolved a file, the file and every copy accepted of
\* its list stand on one track, whichever of them had tracks before.
ResolveJoins ==
    [][\A job \in jobs :
          job.at = "scored" /\ [job EXCEPT !.at = "done"] \in jobs' /\ track'[job.file] # 0 =>
              \A c \in Accepted(job, Copies) :
                  track'[c] # 0 => Canonical(Db', track'[c]) = Canonical(Db', track'[job.file])
      ]_dedupVars

\* The preferred file of a live track is a file of that track and not a
\* tombstone, whatever was merged, deleted and undone before.  Not so where an
\* undo restores, or an answer prefers, a file that is gone; nor for files
\* whose track the seed overwrote.
PreferredIsLive ==
    \A t \in DOMAIN tracks \ tainted :
        tracks[t].into = 0 /\ tracks[t].pref \notin {0} \cup raced =>
            fileState[tracks[t].pref] # "deleted" /\ track[tracks[t].pref] = t

\* What merges, undos, answers and deletes leave of the tracks.
TracksHold == TrackFollowsMerges /\ PreferredIsLive
=============================================================================
