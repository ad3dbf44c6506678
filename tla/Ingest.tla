------------------------------- MODULE Ingest -------------------------------
(***************************************************************************)
(* The upload pipeline's server side: the routes /api/upload/{presign,     *)
(* parts,complete,abort} and /api/track/[id]/delete, the ingest_* database *)
(* functions they call, the R2 bucket, and the two cron jobs of the        *)
(* maintenance Worker that erase objects (sweep and reconcileBucket).      *)
(*                                                                         *)
(* A route is not a transaction.  It reads the job, then the file, then    *)
(* talks to R2, then calls one database function, and any other request,   *)
(* cron or client PUT may run in between.  So a request is a small process *)
(* (a slot of req) and each of its awaits is an action.  A database        *)
(* function is one transaction, hence one action.                          *)
(*                                                                         *)
(* Who calls the routes is left open here: any request may arrive at any   *)
(* time.  Upload.tla closes the system with the browser's own procedure.   *)
(*                                                                         *)
(* Abstractions.  An object is present with the declared size ("right"),   *)
(* present with another size ("wrong"), or absent; parts of a multipart    *)
(* upload are all there ("filled") or not ("open").  Membership checks,    *)
(* body parsing and the pre-flight verdict are not modelled: a request     *)
(* they refuse changes nothing.  A page of the sweeper (500 rows) and of   *)
(* the reconcile (1000) is taken to hold every file of the model.          *)
(***************************************************************************)
EXTENDS Naturals, FiniteSets

CONSTANTS
    Files,            \* file ids
    Reqs,             \* route invocations that may run at the same time
    UploadIds,        \* the ids R2 hands out for multipart uploads
    NoFile, NoUpload, \* SQL NULLs
    Ops,              \* the operations members call, a subset of AllOps
    MaxRequests,      \* bound: requests started in one behaviour
    DeleteOrphans,    \* RECONCILE_DELETE_ORPHANS
    DeletePending     \* RECONCILE_DELETE_PENDING

AllOps == {"presign", "parts", "complete", "abort", "delete"}

ASSUME IngestAssumption ==
    /\ NoFile \notin Files
    /\ NoUpload \notin UploadIds
    /\ Ops \subseteq AllOps
    /\ MaxRequests \in Nat
    /\ DeleteOrphans \in BOOLEAN
    /\ DeletePending \in BOOLEAN

VARIABLES
    state,     \* files.state
    fresh,     \* files whose state_changed_at is under 24 hours old
    plan,      \* ingest_jobs.multipart, stored by the first ingest_begin
    uploadId,  \* ingest_jobs.upload_id
    claims,    \* files with a file_claims row
    object,    \* what R2 holds at the file's key
    upload,    \* R2's multipart uploads
    putUrls,   \* files a whole-object PUT URL is outstanding for
    partUrls,  \* <<file, upload id>> part URLs are outstanding for
    sent,      \* files an analysis message has been sent for
    req,       \* the route invocations
    started,   \* requests started so far, against MaxRequests
    sweep,     \* what the sweeper still owes R2 for each file it abandoned
    recRows,   \* the reconcile's snapshot of files, as key -> state
    recObjs,   \* the reconcile's listing of the bucket
    recDel     \* objects the reconcile has decided to delete

dbVars  == <<state, fresh, plan, uploadId, claims>>
r2Vars  == <<object, upload, putUrls, partUrls>>
recVars == <<recRows, recObjs, recDel>>
vars    == <<dbVars, r2Vars, sent, req, started, sweep, recVars>>

FS == INSTANCE FileState WITH Files <- Files, state <- state

States           == FS!States
InFlight         == FS!InFlight
HoldingBytes     == FS!HoldingBytes
SafeToAutoDelete == FS!SafeToAutoDelete

Plans       == {"none", "single", "multipart"}
ObjectKinds == {"none", "right", "wrong"}
UploadKinds == {"unused", "open", "filled", "completed", "aborted"}
Replies     == {"none", "ok", "already", "dead", "error"}

Pcs == {"idle", "begin", "job", "file", "create", "mark", "sign", "list",
        "assemble", "head", "drop", "fail", "finalize", "enqueue",
        "abortUpload", "tombstone"}

Requests == [op : AllOps \cup {"none"}, pc : Pcs, file : Files \cup {NoFile},
             up : UploadIds \cup {NoUpload}, reply : Replies]

Idle == [op |-> "none", pc |-> "idle", file |-> NoFile, up |-> NoUpload,
         reply |-> "none"]

\* "Not read yet", for the two reads Promise.all runs side by side.
Unread == [f \in Files |-> "unread"]

TypeOK ==
    /\ state \in [Files -> States]
    /\ fresh \subseteq Files
    /\ plan \in [Files -> Plans]
    /\ uploadId \in [Files -> UploadIds \cup {NoUpload}]
    /\ claims \subseteq Files
    /\ object \in [Files -> ObjectKinds]
    /\ upload \in [UploadIds -> UploadKinds]
    /\ putUrls \subseteq Files
    /\ partUrls \subseteq Files \X UploadIds
    /\ sent \subseteq Files
    /\ req \in [Reqs -> Requests]
    /\ started \in 0..MaxRequests
    /\ sweep \in [Files -> {"no", "abort", "delete"}]
    /\ recRows \in [Files -> States \cup {"unread"}]
    /\ recObjs \in [Files -> {"unread", "present", "absent"}]
    /\ recDel \subseteq Files

Init ==
    /\ state = [f \in Files |-> "none"]
    /\ fresh = {}
    /\ plan = [f \in Files |-> "none"]
    /\ uploadId = [f \in Files |-> NoUpload]
    /\ claims = {}
    /\ object = [f \in Files |-> "none"]
    /\ upload = [u \in UploadIds |-> "unused"]
    /\ putUrls = {}
    /\ partUrls = {}
    /\ sent = {}
    /\ req = [r \in Reqs |-> Idle]
    /\ started = 0
    /\ sweep = [f \in Files |-> "no"]
    /\ recRows = Unread
    /\ recObjs = Unread
    /\ recDel = {}

-----------------------------------------------------------------------------
(* Requests: how a slot starts, moves on and answers.                      *)

At(r, pc)      == req[r].pc = pc
Goto(r, pc)    == req' = [req EXCEPT ![r].pc = pc]
Respond(r, o)  == req' = [req EXCEPT ![r] = [Idle EXCEPT !.reply = o]]

\* Mutant: state_changed_at moves only when the state does.
SetStateStampsOnChange(f, moves, to) ==
    /\ <<state[f], to>> \in moves
    /\ state' = [state EXCEPT ![f] = to]
    /\ fresh' = IF state[f] = to THEN fresh ELSE fresh \cup {f}

\* ingest_set_state: one conditional UPDATE, which also restarts the row's clock.
SetState(f, moves, to) ==
    /\ <<state[f], to>> \in moves
    /\ state' = [state EXCEPT ![f] = to]
    /\ fresh' = fresh \cup {f}

\* The first thing each route awaits, once the body has parsed.
FirstPc(op) == CASE op = "presign" -> "begin"
                 [] op = "delete"  -> "tombstone"
                 [] OTHER          -> "job"

Request(r, op, f) ==
    /\ At(r, "idle")
    /\ op \in Ops
    /\ started < MaxRequests
    /\ started' = started + 1
    /\ req' = [req EXCEPT ![r] = [op |-> op, pc |-> FirstPc(op), file |-> f,
                                  up |-> NoUpload, reply |-> "none"]]
    /\ UNCHANGED <<dbVars, r2Vars, sent, sweep, recVars>>

\* An await throws and the route answers with an error, or the isolate running
\* it dies: what the request has done so far stays done, the rest never happens.
Die(r) ==
    /\ ~At(r, "idle")
    /\ Respond(r, "error")
    /\ UNCHANGED <<dbVars, r2Vars, sent, started, sweep, recVars>>

-----------------------------------------------------------------------------
(* presign: begin, load, (create), mark, answer with a URL.                *)

\* Mutant: any row past uploading counts as uploaded already.
BeginAlreadyWhenDead(r) ==
    LET f == req[r].file IN
    /\ At(r, "begin")
    /\ \/ /\ state[f] = "none"
          /\ SetState(f, FS!BeginMoves, "pending")
          /\ \E p \in Plans \ {"none"} : plan' = [plan EXCEPT ![f] = p]
          /\ Goto(r, "job")
       \/ /\ state[f] # "none"
          /\ IF state[f] \in InFlight THEN Goto(r, "job") ELSE Respond(r, "already")
          /\ UNCHANGED <<state, fresh, plan>>
    /\ UNCHANGED <<uploadId, claims, r2Vars, sent, started, sweep, recVars>>

\* ingest_begin.  A replay returns the existing row and never its plan, which
\* stays the one the first call stored.
IngestBegin(r) ==
    LET f == req[r].file IN
    /\ At(r, "begin")
    /\ \/ /\ state[f] = "none"
          /\ SetState(f, FS!BeginMoves, "pending")
          /\ \E p \in Plans \ {"none"} : plan' = [plan EXCEPT ![f] = p]
          /\ Goto(r, "job")
       \/ /\ state[f] \in InFlight
          /\ Goto(r, "job")
          /\ UNCHANGED <<state, fresh, plan>>
       \/ /\ state[f] \notin InFlight \cup {"none"}
          /\ Respond(r, IF state[f] = "received" THEN "already" ELSE "dead")
          /\ UNCHANGED <<state, fresh, plan>>
    /\ UNCHANGED <<uploadId, claims, r2Vars, sent, started, sweep, recVars>>

\* loadOwnedJob reads ingest_jobs first ...
LoadJob(r) ==
    LET f == req[r].file IN
    /\ At(r, "job")
    /\ IF state[f] = "none"
         THEN Respond(r, "error")
         ELSE req' = [req EXCEPT ![r].pc = "file", ![r].up = uploadId[f]]
    /\ UNCHANGED <<dbVars, r2Vars, sent, started, sweep, recVars>>

\* ... and files second; the route then decides on the two answers.
LoadFile(r) ==
    LET f == req[r].file
        multi == plan[f] = "multipart"
        started_ == req[r].up # NoUpload
    IN
    /\ At(r, "file")
    /\ \/ /\ req[r].op = "presign"
          /\ Goto(r, IF multi /\ ~started_ THEN "create" ELSE "mark")
       \/ /\ req[r].op = "parts"
          /\ IF multi /\ started_ /\ state[f] \in InFlight
               THEN Goto(r, "mark") ELSE Respond(r, "error")
       \/ /\ req[r].op = "complete"
          /\ \/ state[f] = "received" /\ Goto(r, "enqueue")
             \/ state[f] \notin InFlight \cup {"received"} /\ Respond(r, "error")
             \/ state[f] \in InFlight /\ ~multi /\ Goto(r, "head")
             \/ state[f] \in InFlight /\ multi /\ ~started_ /\ Respond(r, "error")
             \/ /\ state[f] \in InFlight /\ multi /\ started_
                \* The browser's list is used only when it is complete.
                /\ \E pc \in {"list", "assemble"} : Goto(r, pc)
       \/ /\ req[r].op = "abort"
          /\ Goto(r, IF started_ THEN "abortUpload" ELSE "drop")
    /\ UNCHANGED <<dbVars, r2Vars, sent, started, sweep, recVars>>

\* A bound of the model: once UploadIds are used up, R2 refuses.
CreateUpload(r) ==
    /\ At(r, "create")
    /\ \/ \E u \in UploadIds :
             /\ upload[u] = "unused"
             /\ upload' = [upload EXCEPT ![u] = "open"]
             /\ req' = [req EXCEPT ![r].pc = "mark", ![r].up = u]
       \/ /\ \A u \in UploadIds : upload[u] # "unused"
          /\ Respond(r, "error")
          /\ UNCHANGED upload
    /\ UNCHANGED <<dbVars, object, putUrls, partUrls, sent, started, sweep, recVars>>

\* ingest_mark_uploading.  presign passes the upload id it holds and parts
\* passes null; coalesce keeps the stored id in that case.  An illegal move
\* raises and the whole transaction rolls back.
MarkUploading(r) ==
    LET f == req[r].file
        fromPresign == req[r].op = "presign"
    IN
    /\ At(r, "mark")
    /\ \/ /\ SetState(f, FS!MarkUploadingMoves, "uploading")
          /\ IF fromPresign /\ plan[f] = "multipart"
               THEN uploadId' = [uploadId EXCEPT ![f] = req[r].up]
               ELSE UNCHANGED uploadId
          /\ IF fromPresign
               THEN /\ Respond(r, "ok")
                    /\ putUrls' = IF plan[f] = "single" THEN putUrls \cup {f}
                                                        ELSE putUrls
               ELSE Goto(r, "sign") /\ UNCHANGED putUrls
       \/ /\ state[f] \notin InFlight
          /\ Respond(r, "error")
          /\ UNCHANGED <<state, fresh, uploadId, putUrls>>
    /\ UNCHANGED <<plan, claims, object, upload, partUrls, sent, started, sweep, recVars>>

\* parts signs for the upload id it LOADED, after the row has been marked.
SignParts(r) ==
    /\ At(r, "sign")
    /\ partUrls' = partUrls \cup {<<req[r].file, req[r].up>>}
    /\ Respond(r, "ok")
    /\ UNCHANGED <<dbVars, object, upload, putUrls, sent, started, sweep, recVars>>

-----------------------------------------------------------------------------
(* complete: (list), (assemble), HEAD, then finalize or drop and fail.     *)

ListParts(r) ==
    /\ At(r, "list")
    /\ IF upload[req[r].up] = "filled"
         THEN Goto(r, "assemble")
         ELSE Respond(r, "error")   \* incomplete, or NoSuchUpload
    /\ UNCHANGED <<dbVars, r2Vars, sent, started, sweep, recVars>>

\* CompleteMultipartUpload.  NoSuchUpload falls through to the HEAD.
Assemble(r) ==
    LET u == req[r].up IN
    /\ At(r, "assemble")
    /\ \/ /\ upload[u] = "filled"
          /\ upload' = [upload EXCEPT ![u] = "completed"]
          /\ \E k \in {"right", "wrong"} : object' = [object EXCEPT ![req[r].file] = k]
          /\ Goto(r, "head")
       \/ /\ upload[u] \in {"completed", "aborted"}
          /\ Goto(r, "head")
          /\ UNCHANGED <<object, upload>>
       \/ /\ upload[u] = "open"
          /\ Respond(r, "error")
          /\ UNCHANGED <<object, upload>>
    /\ UNCHANGED <<dbVars, putUrls, partUrls, sent, started, sweep, recVars>>

\* Mutant: the message goes out before the row is finalized.
HeadThenEnqueue(r) ==
    /\ At(r, "head")
    /\ Goto(r, IF object[req[r].file] = "right" THEN "enqueue" ELSE "drop")
    /\ UNCHANGED <<dbVars, r2Vars, sent, started, sweep, recVars>>

\* THE verification: the object's real size against the declared one.
HeadObject(r) ==
    /\ At(r, "head")
    /\ Goto(r, IF object[req[r].file] = "right" THEN "finalize" ELSE "drop")
    /\ UNCHANGED <<dbVars, r2Vars, sent, started, sweep, recVars>>

\* Mutant: the claim is left to a later job.
FinalizeWithoutClaim(r) ==
    LET f == req[r].file IN
    /\ At(r, "finalize")
    /\ \/ SetState(f, FS!FinalizeMoves, "received") /\ Goto(r, "enqueue")
       \/ /\ <<state[f], "received">> \notin FS!FinalizeMoves
          /\ Respond(r, "error")
          /\ UNCHANGED <<state, fresh>>
    /\ UNCHANGED <<plan, uploadId, claims, r2Vars, sent, started, sweep, recVars>>

IngestFinalize(r) ==
    LET f == req[r].file IN
    /\ At(r, "finalize")
    /\ \/ /\ SetState(f, FS!FinalizeMoves, "received")
          /\ claims' = claims \cup {f}
          /\ Goto(r, "enqueue")
       \/ /\ <<state[f], "received">> \notin FS!FinalizeMoves
          /\ Respond(r, "error")
          /\ UNCHANGED <<state, fresh, claims>>
    /\ UNCHANGED <<plan, uploadId, r2Vars, sent, started, sweep, recVars>>

\* enqueueAnalysis never throws; a failed send is left to the hourly cron.
Enqueue(r) ==
    /\ At(r, "enqueue")
    /\ sent' \in {sent, sent \cup {req[r].file}}
    /\ Respond(r, "ok")
    /\ UNCHANGED <<dbVars, r2Vars, started, sweep, recVars>>

\* deleteObjectQuietly: a failure is logged and swallowed.
DropObject(r) ==
    LET f == req[r].file IN
    /\ At(r, "drop")
    /\ object' \in {object, [object EXCEPT ![f] = "none"]}
    /\ IF req[r].op = "delete" THEN Respond(r, "ok") ELSE Goto(r, "fail")
    /\ UNCHANGED <<dbVars, upload, putUrls, partUrls, sent, started, sweep, recVars>>

\* Mutant: the UPDATE has lost its "where state = any (p_from)".
FailFromAnyState(r) ==
    /\ At(r, "fail")
    /\ state' = [state EXCEPT ![req[r].file] = "failed"]
    /\ fresh' = fresh \cup {req[r].file}
    /\ Respond(r, IF req[r].op = "abort" THEN "ok" ELSE "error")
    /\ UNCHANGED <<plan, uploadId, claims, r2Vars, sent, started, sweep, recVars>>

\* ingest_fail.  abort answers with its result; complete answers an error anyway.
IngestFail(r) ==
    LET f == req[r].file IN
    /\ At(r, "fail")
    /\ \/ /\ SetState(f, FS!FailMoves, "failed")
          /\ Respond(r, IF req[r].op = "abort" THEN "ok" ELSE "error")
       \/ /\ <<state[f], "failed">> \notin FS!FailMoves
          /\ Respond(r, "error")
          /\ UNCHANGED <<state, fresh>>
    /\ UNCHANGED <<plan, uploadId, claims, r2Vars, sent, started, sweep, recVars>>

-----------------------------------------------------------------------------
(* abort: tear the multipart upload down, drop the object, fail the row.   *)
(* track/[id]/delete: tombstone the row, then drop the object.             *)

AbortedUpload(u) ==
    [upload EXCEPT ![u] = IF @ \in {"open", "filled"} THEN "aborted" ELSE @]

AbortUpload(r) ==
    /\ At(r, "abortUpload")
    /\ upload' = AbortedUpload(req[r].up)
    /\ Goto(r, "drop")
    /\ UNCHANGED <<dbVars, object, putUrls, partUrls, sent, started, sweep, recVars>>

\* Mutant: a state files_state_check does not know.
DeleteAsRemoved(r) ==
    LET f == req[r].file IN
    /\ At(r, "tombstone")
    /\ \/ /\ state[f] = "stored"
          /\ state' = [state EXCEPT ![f] = "removed"]
          /\ Goto(r, "drop")
       \/ /\ state[f] # "stored"
          /\ Respond(r, "error")
          /\ UNCHANGED state
    /\ UNCHANGED <<fresh, plan, uploadId, claims, r2Vars, sent, started, sweep, recVars>>

\* Mutant: the route does not look at what upload_delete answered.
DeleteIgnoresRefusal(r) ==
    LET f == req[r].file IN
    /\ At(r, "tombstone")
    /\ Goto(r, "drop")
    /\ \/ SetState(f, FS!DeleteMoves, "deleted")
       \/ state[f] # "stored" /\ UNCHANGED <<state, fresh>>
    /\ UNCHANGED <<plan, uploadId, claims, r2Vars, sent, started, sweep, recVars>>

\* upload_delete: only a stored file, and the row goes first.
UploadDelete(r) ==
    LET f == req[r].file IN
    /\ At(r, "tombstone")
    /\ \/ /\ SetState(f, FS!DeleteMoves, "deleted")
          /\ Goto(r, "drop")
       \/ /\ state[f] # "stored"
          /\ Respond(r, "error")
          /\ UNCHANGED <<state, fresh>>
    /\ UNCHANGED <<plan, uploadId, claims, r2Vars, sent, started, sweep, recVars>>

-----------------------------------------------------------------------------
(* The browser against R2: a signed URL is a capability nobody can revoke. *)

PutObject(f) ==
    /\ f \in putUrls
    /\ \E k \in {"right", "wrong"} : object' = [object EXCEPT ![f] = k]
    /\ UNCHANGED <<dbVars, upload, putUrls, partUrls, sent, req, started, sweep, recVars>>

PutParts(f, u) ==
    /\ <<f, u>> \in partUrls
    /\ upload[u] = "open"
    /\ upload' = [upload EXCEPT ![u] = "filled"]
    /\ UNCHANGED <<dbVars, object, putUrls, partUrls, sent, req, started, sweep, recVars>>

\* PRESIGN_TTL_SECONDS: an hour after it was signed, a URL is worth nothing.
ExpireUrls(f) ==
    /\ f \in putUrls \/ \E u \in UploadIds : <<f, u>> \in partUrls
    /\ putUrls' = putUrls \ {f}
    /\ partUrls' = {pu \in partUrls : pu[1] # f}
    /\ UNCHANGED <<dbVars, object, upload, sent, req, started, sweep, recVars>>

\* A day passes over a row nobody touches.  Each URL was signed by a request that
\* had just restarted the row's clock, so by then every one has expired, and no
\* request lasts a day.
Age(f) ==
    /\ f \in fresh
    /\ state[f] \in InFlight
    /\ f \notin putUrls /\ \A u \in UploadIds : <<f, u>> \notin partUrls
    /\ \A r \in Reqs : req[r].file # f
    /\ fresh' = fresh \ {f}
    /\ UNCHANGED <<state, plan, uploadId, claims, r2Vars, sent, req, started, sweep, recVars>>

\* The analysis consumer and the owner's requeue, which Analysis.tla details.
Pipeline(f) ==
    /\ \E to \in States : SetState(f, FS!AnalysisMoves, to)
    /\ UNCHANGED <<plan, uploadId, claims, r2Vars, sent, req, started, sweep, recVars>>

-----------------------------------------------------------------------------
(* The hourly sweeper: abandon first, then abort and delete in R2.         *)

\* Mutant: the sweeper looks for rows that never got past ingest_begin.
StalePending == {f \in Files : state[f] = "pending" /\ f \notin fresh}

Stale == {f \in Files : state[f] \in InFlight /\ f \notin fresh}

\* ingest_abandon_stale: one statement marks the page and returns it.
SweepPage ==
    /\ Stale # {}
    /\ sweep = [f \in Files |-> "no"]
    /\ state' = [f \in Files |-> IF f \in Stale THEN "abandoned" ELSE state[f]]
    /\ fresh' = fresh \cup Stale
    /\ sweep' = [f \in Files |-> IF f \notin Stale THEN "no"
                                 ELSE IF uploadId[f] = NoUpload THEN "delete"
                                 ELSE "abort"]
    /\ UNCHANGED <<plan, uploadId, claims, r2Vars, sent, req, started, recVars>>

\* A throw inside the loop skips the rest of that row.
SweepAbort(f) ==
    /\ sweep[f] = "abort"
    /\ \/ /\ upload' = AbortedUpload(uploadId[f])
          /\ sweep' = [sweep EXCEPT ![f] = "delete"]
       \/ /\ sweep' = [sweep EXCEPT ![f] = "no"]
          /\ UNCHANGED upload
    /\ UNCHANGED <<dbVars, object, putUrls, partUrls, sent, req, started, recVars>>

SweepDelete(f) ==
    /\ sweep[f] = "delete"
    /\ object' \in {object, [object EXCEPT ![f] = "none"]}
    /\ sweep' = [sweep EXCEPT ![f] = "no"]
    /\ UNCHANGED <<dbVars, upload, putUrls, partUrls, sent, req, started, recVars>>

\* The Worker dies between the statement and the loop's end.  The rows are
\* abandoned already, so no later run returns them again.
SweepDie ==
    /\ \E f \in Files : sweep[f] # "no"
    /\ sweep' = [f \in Files |-> "no"]
    /\ UNCHANGED <<dbVars, r2Vars, sent, req, started, recVars>>

-----------------------------------------------------------------------------
(* The nightly reconcile: two reads side by side, then the deletes.        *)

SelectFiles ==
    /\ recRows = Unread /\ recDel = {}
    /\ recRows' = state
    /\ UNCHANGED <<dbVars, r2Vars, sent, req, started, sweep, recObjs, recDel>>

ListBucket ==
    /\ recObjs = Unread /\ recDel = {}
    /\ recObjs' = [f \in Files |-> IF object[f] = "none" THEN "absent" ELSE "present"]
    /\ UNCHANGED <<dbVars, r2Vars, sent, req, started, sweep, recRows, recDel>>

\* Mutant: whatever is not live may go.
DeletableNotLive == {f \in Files : recObjs[f] = "present"
                                   /\ recRows[f] \notin HoldingBytes \cup {"none"}}

\* Mutant: the tombstone is missing from the list of dead states.
DeletableNoTombstones == {f \in Files : recObjs[f] = "present"
                                        /\ recRows[f] \in {"failed", "abandoned"}}

\* reconcile(): bytes no row knows about, and terminal rows that still have bytes.
OrphanObjects     == {f \in Files : recObjs[f] = "present" /\ recRows[f] = "none"}
DeletablePending  == {f \in Files : recObjs[f] = "present"
                                    /\ recRows[f] \in SafeToAutoDelete}

Compare ==
    /\ recRows # Unread /\ recObjs # Unread
    /\ recDel' = (IF DeleteOrphans THEN OrphanObjects ELSE {})
                   \cup (IF DeletePending THEN DeletablePending ELSE {})
    /\ recRows' = Unread
    /\ recObjs' = Unread
    /\ UNCHANGED <<dbVars, r2Vars, sent, req, started, sweep>>

ReconcileDelete(f) ==
    /\ f \in recDel
    /\ object' = [object EXCEPT ![f] = "none"]
    /\ recDel' = recDel \ {f}
    /\ UNCHANGED <<dbVars, upload, putUrls, partUrls, sent, req, started, sweep, recRows, recObjs>>

\* A read or a delete throws: the cron is recorded as failed and ends there.
ReconcileDie ==
    /\ recRows # Unread \/ recObjs # Unread \/ recDel # {}
    /\ recRows' = Unread
    /\ recObjs' = Unread
    /\ recDel' = {}
    /\ UNCHANGED <<dbVars, r2Vars, sent, req, started, sweep>>

-----------------------------------------------------------------------------
Handle(r) ==
    \/ IngestBegin(r) \/ LoadJob(r) \/ LoadFile(r) \/ CreateUpload(r)
    \/ MarkUploading(r) \/ SignParts(r) \/ ListParts(r) \/ Assemble(r)
    \/ HeadObject(r) \/ IngestFinalize(r) \/ Enqueue(r) \/ DropObject(r)
    \/ IngestFail(r) \/ AbortUpload(r) \/ UploadDelete(r)

Browser(f) == PutObject(f) \/ \E u \in UploadIds : PutParts(f, u)

Sweeper == SweepPage \/ SweepDie \/ \E f \in Files : SweepAbort(f) \/ SweepDelete(f)

Reconcile ==
    \/ SelectFiles \/ ListBucket \/ Compare \/ ReconcileDie
    \/ \E f \in Files : ReconcileDelete(f)

Cron == Sweeper \/ Reconcile

Next ==
    \/ \E r \in Reqs, op \in AllOps, f \in Files : Request(r, op, f)
    \/ \E r \in Reqs : Handle(r) \/ Die(r)
    \/ \E f \in Files : Browser(f) \/ ExpireUrls(f) \/ Age(f) \/ Pipeline(f)
    \/ Cron

Spec == Init /\ [][Next]_vars

-----------------------------------------------------------------------------
(* What must hold whoever calls the routes, in whatever order.             *)

\* The sweeper erases the objects of abandoned rows only: it marks the row before
\* it deletes, and ingest_finalize never takes an abandoned row back, even when it
\* runs in a request that read the row before the sweep (the argument in sweep()'s
\* header comment).
SweepOnlyDead == \A f \in Files : sweep[f] # "no" => state[f] = "abandoned"

\* With RECONCILE_DELETE_ORPHANS off, whatever the reconcile decided to delete
\* belongs to a row that is dead when the delete runs, although it was decided on
\* two reads that were not taken together and may be long out of date.
ReconcileOnlyDead ==
    ~DeleteOrphans => \A f \in recDel : state[f] \in SafeToAutoDelete

\* Every file that ever held verified bytes is claimed by its uploader, the deleted
\* ones too: member_storage()'s "contributed" counts claims and never decreases.
LiveWasClaimed ==
    \A f \in Files : state[f] \in HoldingBytes \cup {"deleted"} => f \in claims

\* An analysis message is sent only for a file ingest_finalize has accepted: a
\* message for a row still uploading would be acked as "not claimable" and lost
\* (complete.ts, the comment above the enqueue).
SentAfterFinalize == sent \subseteq claims

\* Once a row is abandoned nobody holds a URL that can put its object back, so the
\* sweeper's delete is the last word on the key.  This is what re-stamping
\* state_changed_at at every /parts call buys.
AbandonedHasNoUrls ==
    \A f \in Files : state[f] = "abandoned" =>
        f \notin putUrls /\ \A u \in UploadIds : <<f, u>> \notin partUrls

\* The routes, the cron and the consumer move files.state only along the table of
\* FileState, so all that holds of that machine holds of this one.
ImplementsFileState == FS!Spec
=============================================================================
