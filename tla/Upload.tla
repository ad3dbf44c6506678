------------------------------- MODULE Upload -------------------------------
(***************************************************************************)
(* Ingest closed with its real caller: uploadFile() in the browser         *)
(* (src/lib/uploader.ts), driven by runOne() and retryRow() of             *)
(* src/lib/upload-engine.ts.  A session uploads one file: presign, PUT or  *)
(* multipart PUTs, complete; any error that is not an exhausted network    *)
(* retry makes it call abort, which discards the row.                      *)
(*                                                                         *)
(* A session waits for the answer of the request it made.  With            *)
(* LoseReplies the answer may never come (the connection drops, the isolate*)
(* dies, the tab is closed and reopened) while the route runs on to its    *)
(* end: fetch then throws a plain TypeError in the browser.                *)
(***************************************************************************)
EXTENDS Ingest

CONSTANTS
    Sessions,      \* browser tabs uploading
    FileOf,        \* the file id each tab's journal gives its file
    NoReq,
    LoseReplies    \* may an answer be lost while its handler runs on?

ASSUME UploadAssumption ==
    /\ FileOf \in [Sessions -> Files]
    /\ NoReq \notin Reqs
    /\ LoseReplies \in BOOLEAN

VARIABLE session   \* where each tab is in uploadFile, and the request it awaits

uvars == <<vars, session>>

Waits    == {"presigning", "represigning", "parting", "completing", "aborting"}
Resting  == {"paused", "done", "discarded"}
Steps    == {"ready", "putting", "resuming", "askParts", "sending",
             "transferred", "discarding"}

UploadTypeOK ==
    /\ TypeOK
    /\ session \in [Sessions -> [pc : Waits \cup Resting \cup Steps,
                                 slot : Reqs \cup {NoReq}]]
    /\ \A s \in Sessions : session[s].slot # NoReq <=> session[s].pc \in Waits

UInit == Init /\ session = [s \in Sessions |-> [pc |-> "ready", slot |-> NoReq]]

-----------------------------------------------------------------------------
Move(s, pc)  == session' = [session EXCEPT ![s] = [pc |-> pc, slot |-> NoReq]]
In(s, pcs)   == session[s].pc \in pcs
Awaited(r)   == \E s \in Sessions : session[s].slot = r

\* The tab sends a request and waits for it.
Call(s, op, pc) ==
    \E r \in Reqs :
        /\ ~Awaited(r)
        /\ Request(r, op, FileOf[s])
        /\ session' = [session EXCEPT ![s] = [pc |-> pc, slot |-> r]]

\* What uploadFile does with an answer.  Only a TransferError can be told apart:
\* every other error is 'fatal', and fatal discards.
After(pc, reply, f) ==
    CASE pc = "presigning" ->
             (CASE reply = "ok"      -> IF plan[f] = "single" THEN "putting" ELSE "resuming"
                [] reply = "already" -> "done"
                [] OTHER             -> "discarding")
      [] pc = "represigning" -> IF reply = "error" THEN "discarding" ELSE "putting"
      [] pc = "parting"      -> IF reply = "ok" THEN "sending" ELSE "discarding"
      [] pc = "completing"   -> IF reply = "ok" THEN "done" ELSE "discarding"
      [] pc = "aborting"     -> "discarded"    \* its own failure is caught

\* Mutant: the tab never lets go of the request it awaited.
AnswerKeepsRequest(s) ==
    /\ In(s, Waits)
    /\ At(session[s].slot, "idle")
    /\ session' = [session EXCEPT ![s].pc =
                      After(@, req[session[s].slot].reply, FileOf[s])]
    /\ UNCHANGED vars

Answer(s) ==
    /\ In(s, Waits)
    /\ At(session[s].slot, "idle")
    /\ Move(s, After(session[s].pc, req[session[s].slot].reply, FileOf[s]))
    /\ UNCHANGED vars

\* fetch throws, or what comes back is an error page and not JSON, which readJson
\* takes for a dead session and which discards nothing.
LoseReply(s) ==
    /\ LoseReplies
    /\ In(s, Waits)
    /\ \E pc \in {"paused", After(session[s].pc, "error", FileOf[s])} : Move(s, pc)
    /\ UNCHANGED vars

\* Closing the tab loses the page, not the journal: the file comes back under the
\* same id.  A request in flight runs on without it.
Reopen(s) ==
    /\ ~In(s, {"ready", "done", "discarded", "paused"})
    /\ In(s, Waits) => LoseReplies
    /\ Move(s, "ready")
    /\ UNCHANGED vars

\* Retry of a file that failed on the network or was cancelled.
Retry(s) ==
    /\ In(s, {"paused"})
    /\ Move(s, "ready")
    /\ UNCHANGED vars

-----------------------------------------------------------------------------
Presign(s) == In(s, {"ready"}) /\ Call(s, "presign", "presigning")

\* transferSingle: one PUT; a 403 means the URL expired, so presign again.
Put(s)     == In(s, {"putting"}) /\ PutObject(FileOf[s]) /\ Move(s, "transferred")

Represign(s) ==
    /\ In(s, {"putting"})
    /\ FileOf[s] \notin putUrls
    /\ Call(s, "presign", "represigning")

\* transferMultipart asks R2 what it already holds; a swept upload is restarted.
Resume(s) ==
    LET f == FileOf[s]
        expired == uploadId[f] # NoUpload
                     /\ upload[uploadId[f]] \notin {"open", "filled"}
        complete == uploadId[f] # NoUpload /\ upload[uploadId[f]] = "filled"
    IN
    /\ In(s, {"resuming"})
    /\ \/ Move(s, IF expired THEN "discarding"
                  ELSE IF complete THEN "transferred" ELSE "askParts")
       \/ Move(s, "discarding")                 \* the GET itself failed
    /\ UNCHANGED vars

\* A part's URL that has expired is asked for again.
AskParts(s) ==
    /\ \/ In(s, {"askParts"})
       \/ In(s, {"sending"}) /\ \A u \in UploadIds : <<FileOf[s], u>> \notin partUrls
    /\ Call(s, "parts", "parting")

SendParts(s) ==
    LET f == FileOf[s] IN
    /\ In(s, {"sending"})
    /\ \E u \in UploadIds :
          \/ PutParts(f, u)
          \/ <<f, u>> \in partUrls /\ upload[u] = "filled" /\ UNCHANGED vars
    /\ Move(s, "transferred")

\* Cancelled, out of attempts or signed out: the row stays uploading.
Interrupt(s) ==
    /\ In(s, Steps \ {"discarding"})
    /\ Move(s, "paused")
    /\ UNCHANGED vars

\* Any other status of a PUT (a 404 for an aborted upload, a 4xx) discards.
FailTransfer(s) ==
    /\ In(s, {"putting", "sending"})
    /\ Move(s, "discarding")
    /\ UNCHANGED vars

Complete(s) == In(s, {"transferred"}) /\ Call(s, "complete", "completing")
Discard(s)  == In(s, {"discarding"}) /\ Call(s, "abort", "aborting")

\* The uploader presses delete on the track page; nobody waits for this answer.
DeleteTrack(f) ==
    /\ state[f] = "stored"
    /\ \E r \in Reqs : ~Awaited(r) /\ Request(r, "delete", f)
    /\ UNCHANGED session

Tab(s) ==
    \/ Presign(s) \/ Put(s) \/ Represign(s) \/ Resume(s) \/ AskParts(s)
    \/ SendParts(s) \/ Interrupt(s) \/ FailTransfer(s) \/ Complete(s) \/ Discard(s)
    \/ Answer(s) \/ LoseReply(s) \/ Reopen(s) \/ Retry(s)

\* The awaits whose failure the route answers itself.  enqueueAnalysis and
\* deleteObjectQuietly never throw, so past finalize there is none.
Throw(r) == ~At(r, "enqueue") /\ ~At(r, "drop") /\ Die(r)

UNext ==
    \/ \E s \in Sessions : Tab(s)
    \/ \E f \in Files : DeleteTrack(f)
    \/ /\ \/ \E r \in Reqs : Handle(r) \/ Throw(r) \/ (LoseReplies /\ Die(r))
          \* A PUT the browser gave up on may still land while its URL is good.
          \/ \E f \in Files : Browser(f) \/ ExpireUrls(f) \/ Age(f) \/ Pipeline(f)
          \/ Cron
       /\ UNCHANGED session

USpec == UInit /\ [][UNext]_uvars

(***************************************************************************)
(* Fairness.  A route that runs gets an answer or dies; the cron triggers  *)
(* fire for ever; time passes.  R2 and the database may fail any number of *)
(* times, so the nightly job's own steps are only strongly fair: it is run *)
(* again every night, and R2 is not down for ever.  Members owe nothing.   *)
(***************************************************************************)
Fairness ==
    /\ \A r \in Reqs : WF_uvars(Handle(r) /\ UNCHANGED session)
    /\ \A f \in Files :
          /\ WF_uvars(ExpireUrls(f) /\ UNCHANGED session)
          /\ WF_uvars(Age(f) /\ UNCHANGED session)
          /\ WF_uvars((SweepAbort(f) \/ SweepDelete(f)) /\ UNCHANGED session)
          /\ SF_uvars(ReconcileDelete(f) /\ UNCHANGED session)
    /\ WF_uvars(SweepPage /\ UNCHANGED session)
    /\ SF_uvars(SelectFiles /\ UNCHANGED session)
    /\ SF_uvars(recRows # Unread /\ ListBucket /\ UNCHANGED session)
    /\ SF_uvars(Compare /\ UNCHANGED session)

FairUSpec == USpec /\ Fairness

-----------------------------------------------------------------------------
\* A row the pool can show has its bytes in R2.  A live row whose object is gone
\* is a track that fails on play and on download, and nothing anywhere repairs it
\* (src/pages/api/track/[id]/delete.ts on its order of operations).
LiveRowHasBytes ==
    \A f \in Files : state[f] \in HoldingBytes => object[f] # "none"

\* A tab that shows an upload as done is right, whatever was lost on the way: the
\* server has verified and claimed that file ("already" and a repeated complete are
\* answers about a received row, never about one that was abandoned meanwhile).
DoneIsFinalized == \A s \in Sessions : session[s].pc = "done" => FileOf[s] \in claims

\* An upload does not stay in flight for ever: when the browser never comes back,
\* the sweeper ends it (24 hours after its last presign or parts call).
UploadEnds ==
    \A f \in Files : state[f] \in InFlight ~> state[f] \notin InFlight

\* The bytes of a failed, abandoned or deleted row are gone for good in the end.
Reclaimed ==
    \A f \in Files : state[f] \in SafeToAutoDelete ~> [](object[f] = "none")

\* "cleaned up within a day with no human involved" (track/[id]/delete.ts) about a
\* tombstone whose object delete failed.
TombstoneReclaimed ==
    \A f \in Files : state[f] = "deleted" ~> object[f] = "none"
=============================================================================
