---------------------------- MODULE UploadProofs ----------------------------
(***************************************************************************)
(* The table of files.state, the routes and the jobs over it, and the tabs *)
(* that call them, for any number of files, requests, upload ids and tabs. *)
(*                                                                         *)
(* FileState and Ingest.  None of Ingest's invariants is inductive by      *)
(* itself.  A request between two awaits carries what it learnt (a claimed *)
(* file, a row it has just marked), the reconcile carries a snapshot, and  *)
(* a URL outlives the request that signed it; IInv says what each of these *)
(* still guarantees when it is used.  It falls into four groups, each      *)
(* inductive given the typing:                                             *)
(*   Typed     the types, and what a request's program counter implies;    *)
(*   DeadInv   what the sweeper and the reconcile may erase stays dead;    *)
(*   ClaimInv  what holds bytes, or is about to be enqueued, is claimed;   *)
(*   UrlInv    what can still be written has a running 24-hour clock.      *)
(*                                                                         *)
(* Upload.  A browser tab, whatever it loses, closes or retries, calls the *)
(* routes only in ways Ingest already allows, so every theorem about       *)
(* Ingest holds of the closed system too; and a tab that shows "done" is   *)
(* right about it.                                                         *)
(***************************************************************************)
EXTENDS Upload, TLAPS

-----------------------------------------------------------------------------
(* The table of files.state itself, whatever moves it: what holds of every *)
(* history of FileState, a module that implements it inherits.             *)

\* Every move ends in a state of files_state_check.
LEMMA MovesEndInStates ==
    ASSUME NEW from, NEW to, <<from, to>> \in FS!Moves
    PROVE  to \in FS!States \ {"none"}
BY DEF FS!Moves, FS!States, FS!BeginMoves, FS!MarkUploadingMoves, FS!FinalizeMoves, FS!FailMoves,
       FS!AbandonMoves, FS!AnalysisMoves, FS!AnalysisBeginMoves, FS!PersistMoves,
       FS!AnalysisFailMoves, FS!RequeueMoves, FS!DeleteMoves, FS!InFlight

\* No move leaves failed, abandoned or deleted, the re-run of a fail apart.
LEMMA DeadMovesNowhere ==
    ASSUME NEW from, NEW to, <<from, to>> \in FS!Moves, from \in FS!SafeToAutoDelete
    PROVE  to = from
BY DEF FS!Moves, FS!SafeToAutoDelete, FS!BeginMoves, FS!MarkUploadingMoves, FS!FinalizeMoves,
       FS!FailMoves, FS!AbandonMoves, FS!AnalysisMoves, FS!AnalysisBeginMoves, FS!PersistMoves,
       FS!AnalysisFailMoves, FS!RequeueMoves, FS!DeleteMoves, FS!InFlight

\* A move into the states that hold bytes is finalize's, or starts among them.
LEMMA BytesEnterByFinalize ==
    ASSUME NEW from, NEW to, <<from, to>> \in FS!Moves,
           from \notin FS!HoldingBytes, to \in FS!HoldingBytes
    PROVE  <<from, to>> \in FS!FinalizeMoves
BY DEF FS!Moves, FS!HoldingBytes, FS!BeginMoves, FS!MarkUploadingMoves, FS!FinalizeMoves,
       FS!FailMoves, FS!AbandonMoves, FS!AnalysisMoves, FS!AnalysisBeginMoves, FS!PersistMoves,
       FS!AnalysisFailMoves, FS!RequeueMoves, FS!DeleteMoves, FS!InFlight

-----------------------------------------------------------------------------
\* Every reachable row is in a state that files_state_check allows.
THEOREM FileStateTypeOK == FS!Spec => []FS!TypeOK
<1>1. FS!Init => FS!TypeOK
  BY DEF FS!Init, FS!TypeOK, FS!States
<1>2. FS!TypeOK /\ [FS!Next]_state => FS!TypeOK'
  BY DEF FS!Next, FS!TypeOK
<1>3. QED
  BY <1>1, <1>2, PTL DEF FS!Spec

\* No function revives a row the sweeper or the reconcile may have erased.
THEOREM DeadRowsStayDead == FS!Spec => FS!DeadStaysDead
<1>1. [FS!Next]_state =>
        [\A f \in Files : state[f] \in FS!SafeToAutoDelete => state'[f] = state[f]]_state
  <2>1. SUFFICES ASSUME FS!Next, NEW f \in Files, state[f] \in FS!SafeToAutoDelete
                 PROVE  state'[f] = state[f]
    OBVIOUS
  <2>2. state'[f] = state[f] \/ <<state[f], state'[f]>> \in FS!Moves
    BY <2>1 DEF FS!Next
  <2>3. QED
    BY <2>1, <2>2, DeadMovesNowhere
<1>2. QED
  BY <1>1, PTL DEF FS!Spec, FS!DeadStaysDead

\* Only ingest_finalize makes an upload's bytes visible.
THEOREM BytesAppearByFinalize == FS!Spec => FS!LiveOnlyByFinalize
<1>1. [FS!Next]_state =>
        [\A f \in Files :
            state[f] \notin FS!HoldingBytes /\ state'[f] \in FS!HoldingBytes
               => <<state[f], state'[f]>> \in FS!FinalizeMoves]_state
  <2>1. SUFFICES ASSUME FS!Next, NEW f \in Files,
                        state[f] \notin FS!HoldingBytes, state'[f] \in FS!HoldingBytes
                 PROVE  <<state[f], state'[f]>> \in FS!FinalizeMoves
    OBVIOUS
  <2>2. <<state[f], state'[f]>> \in FS!Moves
    BY <2>1 DEF FS!Next
  <2>3. QED
    BY <2>1, <2>2, BytesEnterByFinalize
<1>2. QED
  BY <1>1, PTL DEF FS!Spec, FS!LiveOnlyByFinalize

-----------------------------------------------------------------------------
(* The inductive invariant.                                                *)

\* A running request works on a file, and one that may sign has an upload id.
RequestsOK ==
    \A r \in Reqs :
        /\ req[r].pc # "idle" => req[r].file \in Files
        /\ req[r].pc = "mark" /\ req[r].op # "presign" => req[r].up \in UploadIds
        /\ req[r].pc = "sign" => req[r].up \in UploadIds

\* A dead row the reconcile has read is still in the state it was read in.
SnapshotStillDead ==
    \A f \in Files : recRows[f] \in SafeToAutoDelete => state[f] = recRows[f]

\* A request about to send the analysis message is past ingest_finalize.
EnqueueIsClaimed == \A r \in Reqs : req[r].pc = "enqueue" => req[r].file \in claims

\* A URL, or a request about to sign one, keeps its row out of the sweeper's reach.
UrlsAreFresh ==
    /\ \A f \in putUrls : f \in fresh
    /\ \A f \in Files, u \in UploadIds : <<f, u>> \in partUrls => f \in fresh

\* So does a request that is about to sign part URLs.
SignersAreFresh ==
    \A r \in Reqs : req[r].pc = "sign" =>
        req[r].file \in fresh /\ state[req[r].file] # "abandoned"

Typed   == TypeOK /\ RequestsOK
DeadInv == SweepOnlyDead /\ SnapshotStillDead /\ ReconcileOnlyDead
ClaimInv == LiveWasClaimed /\ EnqueueIsClaimed /\ SentAfterFinalize
UrlInv  == AbandonedHasNoUrls /\ UrlsAreFresh /\ SignersAreFresh

IInv == Typed /\ DeadInv /\ ClaimInv /\ UrlInv

-----------------------------------------------------------------------------
(* How a step changes req.                                                 *)

\* Moving on changes the request's program counter only.
LEMMA GotoEffect ==
    ASSUME req \in [Reqs -> Requests], NEW r \in Reqs, NEW pc \in Pcs, Goto(r, pc)
    PROVE  /\ req' \in [Reqs -> Requests]
           /\ \A q \in Reqs \ {r} : req'[q] = req[q]
           /\ req'[r].pc = pc
           /\ req'[r].op = req[r].op
           /\ req'[r].file = req[r].file
           /\ req'[r].up = req[r].up
BY DEF Goto, Requests

\* Answering ends the request.
LEMMA RespondEffect ==
    ASSUME req \in [Reqs -> Requests], NEW r \in Reqs, NEW o \in Replies, Respond(r, o)
    PROVE  /\ req' \in [Reqs -> Requests]
           /\ \A q \in Reqs \ {r} : req'[q] = req[q]
           /\ req'[r].pc = "idle"
           /\ req'[r].reply = o
BY DEF Respond, Requests, Idle, Pcs, Replies

\* ingest_set_state moves one row, along one of the moves it was given.
LEMMA SetStateEffect ==
    ASSUME state \in [Files -> States], fresh \subseteq Files, NEW f \in Files,
           NEW moves, NEW to \in States, SetState(f, moves, to)
    PROVE  /\ <<state[f], to>> \in moves
           /\ state' \in [Files -> States]
           /\ state'[f] = to
           /\ \A g \in Files \ {f} : state'[g] = state[g]
           /\ fresh' \subseteq Files
           /\ fresh' = fresh \cup {f}
BY DEF SetState

\* A step of a request that ends neither at "mark" nor at "sign" keeps req typed.
LEMMA PlainRequestStep ==
    ASSUME req \in [Reqs -> Requests], RequestsOK,
           NEW r \in Reqs, req[r].pc # "idle",
           \/ \E pc \in Pcs \ {"mark", "sign"} : Goto(r, pc)
           \/ \E o \in Replies : Respond(r, o)
    PROVE  req' \in [Reqs -> Requests] /\ RequestsOK'
BY GotoEffect, RespondEffect DEF RequestsOK

\* The handlers of a route keep every variable in its type ...
LEMMA HandleTyped ==
    ASSUME TypeOK, RequestsOK, NEW r \in Reqs, Handle(r)
    PROVE  TypeOK' /\ RequestsOK'
<1> USE DEF dbVars, r2Vars, recVars
<1> DEFINE f == req[r].file
<1>0. req \in [Reqs -> Requests]
  BY DEF TypeOK
<1>1. CASE IngestBegin(r)
  <2>1. f \in Files
    BY <1>1 DEF IngestBegin, At, RequestsOK
  <2>2. state' \in [Files -> States] /\ fresh' \subseteq Files
    BY <1>1, <2>1, SetStateEffect DEF IngestBegin, TypeOK, States, FS!States
  <2>3. plan' \in [Files -> Plans]
    BY <1>1 DEF IngestBegin, TypeOK
  <2>4. req[r].pc # "idle" /\ (Goto(r, "job") \/ \E o \in Replies : Respond(r, o))
    BY <1>1 DEF IngestBegin, Replies, At
  <2>5. req' \in [Reqs -> Requests] /\ RequestsOK'
    BY <1>0, <2>4, PlainRequestStep DEF Pcs
  <2>6. QED
    BY <1>1, <2>2, <2>3, <2>5 DEF IngestBegin, TypeOK
<1>2. CASE LoadJob(r)
  <2>1. f \in Files /\ req[r].pc # "idle"
    BY <1>2 DEF LoadJob, At, RequestsOK
  <2>2. CASE state[f] = "none"
    <3>1. req' \in [Reqs -> Requests] /\ RequestsOK'
      BY <1>0, <1>2, <2>1, <2>2, PlainRequestStep DEF LoadJob, Replies
    <3>2. QED
      BY <1>2, <3>1 DEF LoadJob, TypeOK
  <2>3. CASE state[f] # "none"
    <3> DEFINE up == uploadId[f]
    <3>0. /\ up \in UploadIds \cup {NoUpload}
          /\ req' = [req EXCEPT ![r].pc = "file", ![r].up = up]
      BY <1>2, <2>1, <2>3 DEF LoadJob, TypeOK
    <3> HIDE DEF up
    <3>1. /\ req' \in [Reqs -> Requests]
          /\ req'[r].pc = "file" /\ req'[r].file = f
          /\ \A q \in Reqs \ {r} : req'[q] = req[q]
      BY ZenonT(60), <1>0, <3>0 DEF Requests, Pcs
    <3>2. RequestsOK'
      BY <2>1, <3>1 DEF RequestsOK
    <3>3. QED
      BY <1>2, <3>1, <3>2 DEF LoadJob, TypeOK
  <2>4. QED
    BY <2>2, <2>3
<1>3. CASE LoadFile(r)
  <2>1. req[r].pc # "idle" /\ req[r].up \in UploadIds \cup {NoUpload} /\ f \in Files
    BY <1>0, <1>3 DEF LoadFile, At, RequestsOK, Requests
  <2>2. \/ \E pc \in Pcs \ {"mark", "sign"} : Goto(r, pc)
        \/ \E o \in Replies : Respond(r, o)
        \/ Goto(r, "mark") /\ (req[r].op = "presign" \/ req[r].up # NoUpload)
    BY <1>3 DEF LoadFile, Pcs, Replies
  <2>3. req' \in [Reqs -> Requests] /\ RequestsOK'
    <3>1. CASE Goto(r, "mark") /\ (req[r].op = "presign" \/ req[r].up # NoUpload)
      BY <1>0, <2>1, <3>1, GotoEffect DEF RequestsOK, Pcs
    <3>2. QED
      BY <1>0, <2>1, <2>2, <3>1, PlainRequestStep
  <2>4. QED
    BY <1>3, <2>3 DEF LoadFile, TypeOK
<1>4. CASE CreateUpload(r)
  <2>1. req[r].pc # "idle" /\ f \in Files
    BY <1>4 DEF CreateUpload, At, RequestsOK
  <2>2. CASE \E u \in UploadIds :
               /\ upload[u] = "unused"
               /\ upload' = [upload EXCEPT ![u] = "open"]
               /\ req' = [req EXCEPT ![r].pc = "mark", ![r].up = u]
    <3>1. PICK u \in UploadIds :
               /\ upload' = [upload EXCEPT ![u] = "open"]
               /\ req' = [req EXCEPT ![r].pc = "mark", ![r].up = u]
      BY <2>2
    <3>2. /\ req' \in [Reqs -> Requests]
          /\ req'[r].pc = "mark" /\ req'[r].file = f /\ req'[r].up = u
          /\ \A q \in Reqs \ {r} : req'[q] = req[q]
      BY ZenonT(60), <1>0, <3>1 DEF Requests, Pcs
    <3>3. upload' \in [UploadIds -> UploadKinds]
      BY <3>1 DEF TypeOK, UploadKinds
    <3>4. RequestsOK'
      BY <2>1, <3>2 DEF RequestsOK
    <3>5. QED
      BY <1>4, <3>2, <3>3, <3>4 DEF CreateUpload, TypeOK
  <2>3. CASE Respond(r, "error") /\ UNCHANGED upload
    <3>1. req' \in [Reqs -> Requests] /\ RequestsOK'
      BY <1>0, <2>1, <2>3, PlainRequestStep DEF Replies
    <3>2. QED
      BY <1>4, <2>3, <3>1 DEF CreateUpload, TypeOK
  <2>4. QED
    BY <1>4, <2>2, <2>3 DEF CreateUpload
<1>5. CASE MarkUploading(r)
  <2>1. req[r].pc = "mark" /\ f \in Files
    BY <1>5 DEF MarkUploading, At, RequestsOK
  <2>2. state' \in [Files -> States] /\ fresh' \subseteq Files
    BY <1>5, <2>1, SetStateEffect DEF MarkUploading, TypeOK, States, FS!States
  <2>3. uploadId' \in [Files -> UploadIds \cup {NoUpload}]
    BY <1>0, <1>5, <2>1 DEF MarkUploading, TypeOK, Requests
  <2>4. putUrls' \subseteq Files
    BY <1>5, <2>1 DEF MarkUploading, TypeOK
  <2>5. \/ \E o \in Replies : Respond(r, o)
        \/ Goto(r, "sign") /\ req[r].op # "presign"
    BY <1>5 DEF MarkUploading, Replies
  <2>6. req' \in [Reqs -> Requests] /\ RequestsOK'
    <3>1. CASE Goto(r, "sign") /\ req[r].op # "presign"
      BY <1>0, <2>1, <3>1, GotoEffect DEF RequestsOK, Pcs
    <3>2. QED
      BY <1>0, <2>1, <2>5, <3>1, PlainRequestStep
  <2>7. QED
    BY <1>5, <2>2, <2>3, <2>4, <2>6 DEF MarkUploading, TypeOK
<1>6. CASE SignParts(r)
  <2>1. req[r].pc # "idle" /\ f \in Files /\ req[r].up \in UploadIds
    BY <1>6 DEF SignParts, At, RequestsOK
  <2>2. partUrls' \subseteq Files \X UploadIds
    BY <1>6, <2>1 DEF SignParts, TypeOK
  <2>3. req' \in [Reqs -> Requests] /\ RequestsOK'
    BY <1>0, <1>6, <2>1, PlainRequestStep DEF SignParts, Replies
  <2>4. QED
    BY <1>6, <2>2, <2>3 DEF SignParts, TypeOK
<1>7. CASE ListParts(r) \/ HeadObject(r)
  <2>1. req' \in [Reqs -> Requests] /\ RequestsOK'
    BY <1>0, <1>7, PlainRequestStep DEF ListParts, HeadObject, At, Replies, Pcs
  <2>2. QED
    BY <1>7, <2>1 DEF ListParts, HeadObject, TypeOK
<1>8. CASE Assemble(r)
  <2>1. f \in Files
    BY <1>8 DEF Assemble, At, RequestsOK
  <2>2. object' \in [Files -> ObjectKinds] /\ upload' \in [UploadIds -> UploadKinds]
    BY <1>8, <2>1 DEF Assemble, TypeOK, ObjectKinds, UploadKinds
  <2>3. req' \in [Reqs -> Requests] /\ RequestsOK'
    BY <1>0, <1>8, PlainRequestStep DEF Assemble, At, Replies, Pcs
  <2>4. QED
    BY <1>8, <2>2, <2>3 DEF Assemble, TypeOK
<1>9. CASE IngestFinalize(r)
  <2>1. f \in Files
    BY <1>9 DEF IngestFinalize, At, RequestsOK
  <2>2. state' \in [Files -> States] /\ fresh' \subseteq Files /\ claims' \subseteq Files
    BY ZenonT(60), <1>9, <2>1, SetStateEffect DEF IngestFinalize, TypeOK, States, FS!States
  <2>3. req' \in [Reqs -> Requests] /\ RequestsOK'
    BY <1>0, <1>9, PlainRequestStep DEF IngestFinalize, At, Replies, Pcs
  <2>4. QED
    BY <1>9, <2>2, <2>3 DEF IngestFinalize, TypeOK
<1>10. CASE Enqueue(r)
  <2>1. f \in Files
    BY <1>10 DEF Enqueue, At, RequestsOK
  <2>2. sent' \subseteq Files
    BY <1>10, <2>1 DEF Enqueue, TypeOK
  <2>3. req' \in [Reqs -> Requests] /\ RequestsOK'
    BY <1>0, <1>10, PlainRequestStep DEF Enqueue, At, Replies
  <2>4. QED
    BY <1>10, <2>2, <2>3 DEF Enqueue, TypeOK
<1>11. CASE DropObject(r)
  <2>1. object' \in [Files -> ObjectKinds]
    BY <1>11 DEF DropObject, TypeOK, ObjectKinds
  <2>2. req' \in [Reqs -> Requests] /\ RequestsOK'
    BY <1>0, <1>11, PlainRequestStep DEF DropObject, At, Replies, Pcs
  <2>3. QED
    BY <1>11, <2>1, <2>2 DEF DropObject, TypeOK
<1>12. CASE IngestFail(r) \/ UploadDelete(r)
  <2>1. f \in Files
    BY <1>12 DEF IngestFail, UploadDelete, At, RequestsOK
  <2>2. state' \in [Files -> States] /\ fresh' \subseteq Files
    BY <1>12, <2>1, SetStateEffect
       DEF IngestFail, UploadDelete, TypeOK, States, FS!States
  <2>3. req' \in [Reqs -> Requests] /\ RequestsOK'
    BY <1>0, <1>12, PlainRequestStep DEF IngestFail, UploadDelete, At, Replies, Pcs
  <2>4. QED
    BY <1>12, <2>2, <2>3 DEF IngestFail, UploadDelete, TypeOK
<1>13. CASE AbortUpload(r)
  <2>1. upload' \in [UploadIds -> UploadKinds]
    BY <1>13 DEF AbortUpload, AbortedUpload, TypeOK, UploadKinds
  <2>2. req' \in [Reqs -> Requests] /\ RequestsOK'
    BY <1>0, <1>13, PlainRequestStep DEF AbortUpload, At, Pcs
  <2>3. QED
    BY <1>13, <2>1, <2>2 DEF AbortUpload, TypeOK
<1>14. QED
  BY <1>1, <1>2, <1>3, <1>4, <1>5, <1>6, <1>7, <1>8, <1>9, <1>10, <1>11, <1>12,
     <1>13 DEF Handle

\* ... so do a request's start and its death,
LEMMA CallersTyped ==
    ASSUME TypeOK, RequestsOK, NEW r \in Reqs,
           Die(r) \/ \E op \in AllOps, f \in Files : Request(r, op, f)
    PROVE  TypeOK' /\ RequestsOK'
<1> USE DEF dbVars, r2Vars, recVars
<1>1. CASE Die(r)
  <2>1. req' \in [Reqs -> Requests] /\ RequestsOK'
    BY <1>1, PlainRequestStep DEF Die, At, Replies, TypeOK
  <2>2. QED
    BY <1>1, <2>1 DEF Die, TypeOK
<1>2. ASSUME NEW op \in AllOps, NEW f \in Files, Request(r, op, f)
      PROVE  TypeOK' /\ RequestsOK'
  <2>1. FirstPc(op) \in Pcs \ {"idle", "mark", "sign"}
    BY DEF FirstPc, Pcs
  <2> DEFINE new == [op |-> op, pc |-> FirstPc(op), file |-> f, up |-> NoUpload,
                     reply |-> "none"]
  <2>3. new \in Requests
    BY <2>1 DEF Requests, Replies
  <2>4. req' = [req EXCEPT ![r] = new]
    BY <1>2 DEF Request
  <2>5. /\ req' \in [Reqs -> Requests]
        /\ req'[r].file = f /\ req'[r].pc = FirstPc(op)
        /\ \A q \in Reqs \ {r} : req'[q] = req[q]
    BY <2>3, <2>4 DEF TypeOK
  <2>6. RequestsOK'
    BY <2>1, <2>5 DEF RequestsOK
  <2>7. started' \in 0..MaxRequests
    <3>1. started \in 0..MaxRequests /\ started < MaxRequests /\ started' = started + 1
      BY <1>2 DEF Request, TypeOK
    <3>2. MaxRequests \in Nat
      BY IngestAssumption
    <3>3. QED
      BY <3>1, <3>2
  <2>8. QED
    BY <1>2, <2>5, <2>6, <2>7 DEF Request, TypeOK
<1>3. QED
  BY <1>1, <1>2

\* the browser, the clock and the analysis,
LEMMA EnvironmentTyped ==
    ASSUME TypeOK, RequestsOK, NEW f \in Files,
           Browser(f) \/ ExpireUrls(f) \/ Age(f) \/ Pipeline(f)
    PROVE  TypeOK' /\ RequestsOK'
<1> USE DEF dbVars, r2Vars, recVars
<1>1. RequestsOK'
  BY DEF Browser, PutObject, PutParts, ExpireUrls, Age, Pipeline, RequestsOK
<1>2. CASE Browser(f)
  <2>1. object' \in [Files -> ObjectKinds]
    BY <1>2 DEF Browser, PutObject, PutParts, TypeOK, ObjectKinds
  <2>2. upload' \in [UploadIds -> UploadKinds]
    BY ZenonT(60), <1>2 DEF Browser, PutObject, PutParts, TypeOK, UploadKinds
  <2>3. QED
    BY <1>1, <1>2, <2>1, <2>2 DEF Browser, PutObject, PutParts, TypeOK
<1>3. CASE ExpireUrls(f) \/ Age(f)
  BY <1>1, <1>3 DEF ExpireUrls, Age, TypeOK
<1>4. CASE Pipeline(f)
  <2>1. state' \in [Files -> States] /\ fresh' \subseteq Files
    BY <1>4, SetStateEffect DEF Pipeline, TypeOK
  <2>2. QED
    BY <1>1, <1>4, <2>1 DEF Pipeline, TypeOK
<1>5. QED
  BY <1>2, <1>3, <1>4

\* and the two crons.
LEMMA CronTyped ==
    ASSUME TypeOK, RequestsOK, Cron
    PROVE  TypeOK' /\ RequestsOK'
<1> USE DEF dbVars, r2Vars, recVars
<1>1. RequestsOK'
  BY DEF Cron, Sweeper, SweepPage, SweepDie, SweepAbort, SweepDelete, Reconcile,
         SelectFiles, ListBucket, Compare, ReconcileDie, ReconcileDelete, RequestsOK
<1>2. CASE SweepPage
  <2>1. state' \in [Files -> States] /\ fresh' \subseteq Files
    BY <1>2 DEF SweepPage, Stale, TypeOK, States, FS!States
  <2>2. sweep' \in [Files -> {"no", "abort", "delete"}]
    BY <1>2 DEF SweepPage
  <2>3. QED
    BY <1>1, <1>2, <2>1, <2>2 DEF SweepPage, TypeOK
<1>3. CASE SweepDie
  BY <1>1, <1>3 DEF SweepDie, TypeOK
<1>4. ASSUME NEW f \in Files, SweepAbort(f) \/ SweepDelete(f)
      PROVE  TypeOK'
  <2>1. sweep' \in [Files -> {"no", "abort", "delete"}]
    BY <1>4 DEF SweepAbort, SweepDelete, TypeOK
  <2>2. upload' \in [UploadIds -> UploadKinds]
    BY <1>4 DEF SweepAbort, SweepDelete, AbortedUpload, TypeOK, UploadKinds
  <2>3. object' \in [Files -> ObjectKinds]
    BY <1>4 DEF SweepAbort, SweepDelete, TypeOK, ObjectKinds
  <2>4. QED
    BY <1>1, <1>4, <2>1, <2>2, <2>3 DEF SweepAbort, SweepDelete, TypeOK
<1>5. CASE SelectFiles \/ ListBucket
  BY <1>1, <1>5 DEF SelectFiles, ListBucket, TypeOK
<1>6. CASE Compare \/ ReconcileDie
  BY <1>1, <1>6 DEF Compare, ReconcileDie, Unread, OrphanObjects, DeletablePending, TypeOK
<1>7. ASSUME NEW f \in Files, ReconcileDelete(f)
      PROVE  TypeOK'
  BY <1>1, <1>7 DEF ReconcileDelete, TypeOK, ObjectKinds
<1>8. QED
  BY <1>1, <1>2, <1>3, <1>4, <1>5, <1>6, <1>7 DEF Cron, Sweeper, Reconcile

\* The first group of IInv is inductive.
LEMMA TypedInductive == Typed /\ [Next]_vars => Typed'
<1> SUFFICES ASSUME TypeOK, RequestsOK, [Next]_vars
             PROVE  TypeOK' /\ RequestsOK'
  BY DEF Typed
<1>1. CASE UNCHANGED vars
  BY <1>1 DEF vars, dbVars, r2Vars, recVars, TypeOK, RequestsOK
<1>2. CASE Next
  BY <1>2, HandleTyped, CallersTyped, EnvironmentTyped, CronTyped DEF Next
<1>3. QED
  BY <1>1, <1>2

-----------------------------------------------------------------------------
(* How a step changes files.state.                                         *)

\* The moves of the functions the routes call.
RouteMoves == FS!BeginMoves \cup FS!MarkUploadingMoves \cup FS!FinalizeMoves
                \cup FS!FailMoves \cup FS!DeleteMoves

\* A handler leaves the rows alone or moves its own file's row by a route's move,
\* and no handler makes a row "received" without claiming the file.
LEMMA HandlerState ==
    ASSUME TypeOK, RequestsOK, NEW r \in Reqs, Handle(r)
    PROVE  /\ claims \subseteq claims'
           /\ \/ UNCHANGED <<state, fresh>>
              \/ /\ req[r].file \in Files
                 /\ \E to \in States :
                       /\ SetState(req[r].file, RouteMoves, to)
                       /\ to = "received" => req[r].file \in claims'
<1> DEFINE f == req[r].file
           Moved(to) == /\ SetState(f, RouteMoves, to)
                        /\ to = "received" => f \in claims'
<1> USE DEF dbVars
<1>1. req[r].pc # "idle" /\ f \in Files
  BY DEF Handle, IngestBegin, LoadJob, LoadFile, CreateUpload, MarkUploading, SignParts,
         ListParts, Assemble, HeadObject, IngestFinalize, Enqueue, DropObject,
         IngestFail, AbortUpload, UploadDelete, At, RequestsOK
<1>2. CASE IngestBegin(r)
  <2>1. UNCHANGED <<state, fresh>> \/ SetState(f, RouteMoves, "pending")
    BY <1>2 DEF IngestBegin, SetState, RouteMoves
  <2>2. QED
    BY <1>1, <1>2, <2>1 DEF IngestBegin, States, FS!States
<1>3. CASE MarkUploading(r)
  <2>1. UNCHANGED <<state, fresh>> \/ SetState(f, RouteMoves, "uploading")
    BY <1>3 DEF MarkUploading, SetState, RouteMoves
  <2>2. QED
    BY <1>1, <1>3, <2>1 DEF MarkUploading, States, FS!States
<1>4. CASE IngestFinalize(r)
  <2>1. \/ UNCHANGED <<state, fresh, claims>>
        \/ SetState(f, RouteMoves, "received") /\ claims' = claims \cup {f}
    BY <1>4 DEF IngestFinalize, SetState, RouteMoves
  <2>2. QED
    BY <1>1, <2>1 DEF States, FS!States
<1>5. CASE IngestFail(r)
  <2>1. UNCHANGED <<state, fresh>> \/ SetState(f, RouteMoves, "failed")
    BY <1>5 DEF IngestFail, SetState, RouteMoves
  <2>2. QED
    BY <1>1, <1>5, <2>1 DEF IngestFail, States, FS!States
<1>6. CASE UploadDelete(r)
  <2>1. UNCHANGED <<state, fresh>> \/ SetState(f, RouteMoves, "deleted")
    BY <1>6 DEF UploadDelete, SetState, RouteMoves
  <2>2. QED
    BY <1>1, <1>6, <2>1 DEF UploadDelete, States, FS!States
<1>7. CASE \/ LoadJob(r) \/ LoadFile(r) \/ CreateUpload(r) \/ SignParts(r)
           \/ ListParts(r) \/ Assemble(r) \/ HeadObject(r) \/ Enqueue(r)
           \/ DropObject(r) \/ AbortUpload(r)
  BY <1>7 DEF LoadJob, LoadFile, CreateUpload, SignParts, ListParts, Assemble,
              HeadObject, Enqueue, DropObject, AbortUpload
<1>8. QED
  BY <1>2, <1>3, <1>4, <1>5, <1>6, <1>7 DEF Handle

\* The routes leave the crons' own state alone,
LEMMA RoutesFrame ==
    ASSUME NEW r \in Reqs, Handle(r)
    PROVE  UNCHANGED <<sweep, recRows, recObjs, recDel>>
BY DEF Handle, IngestBegin, LoadJob, LoadFile, CreateUpload, MarkUploading, SignParts,
       ListParts, Assemble, HeadObject, IngestFinalize, Enqueue, DropObject,
       IngestFail, AbortUpload, UploadDelete, recVars

\* a request's start and death change that request only,
LEMMA CallersFrame ==
    ASSUME NEW r \in Reqs,
           Die(r) \/ \E op \in AllOps, f \in Files : Request(r, op, f)
    PROVE  UNCHANGED <<dbVars, r2Vars, sent, sweep, recVars>>
BY DEF Die, Request

\* the environment moves a row by the analysis only and never makes a URL,
LEMMA EnvironmentFrame ==
    ASSUME NEW f \in Files, Browser(f) \/ ExpireUrls(f) \/ Age(f) \/ Pipeline(f)
    PROVE  /\ UNCHANGED <<plan, uploadId, claims, sent, req, started, sweep, recVars>>
           /\ \/ UNCHANGED state
              \/ \E to \in States : SetState(f, FS!AnalysisMoves, to)
           /\ putUrls' \subseteq putUrls /\ partUrls' \subseteq partUrls
BY DEF Browser, PutObject, PutParts, ExpireUrls, Age, Pipeline, dbVars, r2Vars

\* and the crons move rows in the sweeper's one statement only.
LEMMA CronFrame ==
    ASSUME Cron
    PROVE  /\ UNCHANGED <<plan, uploadId, claims, putUrls, partUrls, sent, req, started>>
           /\ SweepPage \/ UNCHANGED <<state, fresh>>
BY DEF Cron, Sweeper, SweepPage, SweepDie, SweepAbort, SweepDelete, Reconcile,
       SelectFiles, ListBucket, Compare, ReconcileDie, ReconcileDelete, dbVars, r2Vars

\* Every step moves every row along the table of FileState, or leaves it.
LEMMA RowsMove ==
    ASSUME TypeOK, RequestsOK, [Next]_vars, NEW f \in Files
    PROVE  state'[f] = state[f] \/ <<state[f], state'[f]>> \in FS!Moves
<1>1. ASSUME NEW g \in Files, NEW to \in States, NEW moves, moves \subseteq FS!Moves,
             SetState(g, moves, to)
      PROVE  state'[f] = state[f] \/ <<state[f], state'[f]>> \in FS!Moves
  BY <1>1, SetStateEffect DEF TypeOK
<1>2. RouteMoves \subseteq FS!Moves /\ FS!AnalysisMoves \subseteq FS!Moves
  BY DEF RouteMoves, FS!Moves
<1>3. CASE UNCHANGED vars
  BY <1>3 DEF vars, dbVars
<1>4. ASSUME NEW r \in Reqs, Handle(r)
      PROVE  state'[f] = state[f] \/ <<state[f], state'[f]>> \in FS!Moves
  BY <1>1, <1>2, <1>4, HandlerState
<1>5. ASSUME NEW r \in Reqs, Die(r) \/ \E op \in AllOps, g \in Files : Request(r, op, g)
      PROVE  state'[f] = state[f]
  BY <1>5, CallersFrame DEF dbVars
<1>6. ASSUME NEW g \in Files, Browser(g) \/ ExpireUrls(g) \/ Age(g) \/ Pipeline(g)
      PROVE  state'[f] = state[f] \/ <<state[f], state'[f]>> \in FS!Moves
  BY <1>1, <1>2, <1>6, EnvironmentFrame
<1>7. CASE Cron
  <2>1. CASE SweepPage
    BY <2>1 DEF SweepPage, Stale, FS!Moves, FS!AbandonMoves, InFlight
  <2>2. QED
    BY <1>7, <2>1, CronFrame
<1>8. QED
  BY <1>3, <1>4, <1>5, <1>6, <1>7 DEF Next

-----------------------------------------------------------------------------
(* Dead rows: what the sweeper and the reconcile may erase.                *)

\* No step of the pipeline moves a failed, abandoned or deleted row.
LEMMA DeadRowsStay ==
    ASSUME TypeOK, RequestsOK, [Next]_vars, NEW f \in Files, state[f] \in SafeToAutoDelete
    PROVE  state'[f] = state[f]
<1>1. CASE <<state[f], state'[f]>> \in FS!Moves
  BY <1>1 DEF FS!Moves, SafeToAutoDelete, FS!SafeToAutoDelete, FS!BeginMoves,
     FS!MarkUploadingMoves, FS!FinalizeMoves, FS!FailMoves, FS!AbandonMoves,
     FS!AnalysisMoves, FS!AnalysisBeginMoves, FS!PersistMoves,
     FS!AnalysisFailMoves, FS!RequeueMoves, FS!DeleteMoves, FS!InFlight
<1>2. QED
  BY <1>1, RowsMove

\* The second group: the sweeper marks before it owes R2 a delete, the reconcile
\* decides on a snapshot whose dead rows are dead still.
LEMMA DeadInductive == Typed /\ DeadInv /\ [Next]_vars => DeadInv'
<1> SUFFICES ASSUME TypeOK, RequestsOK, SweepOnlyDead, SnapshotStillDead,
                    ReconcileOnlyDead, [Next]_vars
             PROVE  SweepOnlyDead' /\ SnapshotStillDead' /\ ReconcileOnlyDead'
  BY DEF Typed, DeadInv
<1>1. \A f \in Files : state[f] \in SafeToAutoDelete => state'[f] = state[f]
  BY DeadRowsStay
<1>2. recDel \subseteq Files
  BY DEF TypeOK
<1>3. CASE UNCHANGED <<sweep, recVars>>
  <2>1. SweepOnlyDead'
    BY <1>1, <1>3 DEF SweepOnlyDead, SafeToAutoDelete, FS!SafeToAutoDelete
  <2>2. SnapshotStillDead' /\ ReconcileOnlyDead'
    BY <1>1, <1>2, <1>3 DEF SnapshotStillDead, ReconcileOnlyDead, recVars
  <2>3. QED
    BY <2>1, <2>2
<1>4. CASE Sweeper
  <2>1. UNCHANGED recVars
    BY <1>4 DEF Sweeper, SweepPage, SweepDie, SweepAbort, SweepDelete
  <2>2. SnapshotStillDead' /\ ReconcileOnlyDead'
    BY <1>1, <1>2, <2>1 DEF SnapshotStillDead, ReconcileOnlyDead, recVars
  <2>3. CASE SweepPage
    BY <2>2, <2>3 DEF SweepPage, SweepOnlyDead
  <2>4. CASE SweepDie
    BY <2>2, <2>4 DEF SweepDie, SweepOnlyDead
  <2>5. ASSUME NEW f \in Files, SweepAbort(f) \/ SweepDelete(f)
        PROVE  SweepOnlyDead'
    <3>1. \A g \in Files : sweep'[g] # "no" => sweep[g] # "no"
      BY <2>5 DEF SweepAbort, SweepDelete, TypeOK
    <3>2. QED
      BY <1>1, <3>1 DEF SweepOnlyDead, SafeToAutoDelete, FS!SafeToAutoDelete
  <2>6. QED
    BY <1>4, <2>2, <2>3, <2>4, <2>5 DEF Sweeper
<1>5. CASE Reconcile
  <2>1. UNCHANGED <<state, sweep>>
    BY <1>5 DEF Reconcile, SelectFiles, ListBucket, Compare, ReconcileDie,
                ReconcileDelete, dbVars
  <2>2. SweepOnlyDead'
    BY <2>1 DEF SweepOnlyDead
  <2>3. SnapshotStillDead'
    <3>1. "unread" \notin SafeToAutoDelete
      BY DEF SafeToAutoDelete, FS!SafeToAutoDelete
    <3>2. recRows' \in {recRows, state, Unread}
      BY <1>5 DEF Reconcile, SelectFiles, ListBucket, Compare, ReconcileDie,
                  ReconcileDelete
    <3>3. QED
      BY <2>1, <3>1, <3>2 DEF SnapshotStillDead, Unread
  <2>4. ReconcileOnlyDead'
    <3>1. CASE Compare
      BY <2>1, <3>1 DEF Compare, DeletablePending, SnapshotStillDead, ReconcileOnlyDead
    <3>2. recDel' \subseteq recDel \/ Compare
      BY <1>5 DEF Reconcile, SelectFiles, ListBucket, Compare, ReconcileDie,
                  ReconcileDelete
    <3>3. QED
      BY <2>1, <3>1, <3>2 DEF ReconcileOnlyDead
  <2>5. QED
    BY <2>2, <2>3, <2>4
<1>6. QED
  <2>1. CASE UNCHANGED vars
    BY <1>3, <2>1 DEF vars
  <2>2. CASE Next
    <3>1. UNCHANGED <<sweep, recVars>> \/ Cron
      BY <2>2, RoutesFrame, CallersFrame, EnvironmentFrame DEF Next, recVars
    <3>2. QED
      BY <1>3, <1>4, <1>5, <3>1 DEF Cron
  <2>3. QED
    BY <2>1, <2>2

-----------------------------------------------------------------------------
(* Where a handler leaves its request.                                     *)

\* Only ingest_finalize, or a row found "received", leads to the enqueue; only a
\* row marked uploading in the same step leads to the signing of part URLs.
LEMMA HandlerRequest ==
    ASSUME TypeOK, RequestsOK, NEW r \in Reqs, Handle(r)
    PROVE  /\ req[r].file \in Files
           /\ \A q \in Reqs \ {r} : req'[q] = req[q]
           /\ req'[r].pc = "idle" \/ (req'[r].file = req[r].file /\ req'[r].op = req[r].op)
           /\ req'[r].pc = "enqueue" =>
                 req[r].file \in claims' \/ state[req[r].file] = "received"
           /\ req'[r].pc = "sign" =>
                 req[r].file \in fresh' /\ state'[req[r].file] = "uploading"
<1> DEFINE f == req[r].file
<1>0. req \in [Reqs -> Requests] /\ f \in Files
  BY DEF Handle, IngestBegin, LoadJob, LoadFile, CreateUpload, MarkUploading, SignParts,
         ListParts, Assemble, HeadObject, IngestFinalize, Enqueue, DropObject,
         IngestFail, AbortUpload, UploadDelete, At, RequestsOK, TypeOK
<1> DEFINE Plain == \/ \E pc \in Pcs \ {"enqueue", "sign"} : Goto(r, pc)
                    \/ \E o \in Replies : Respond(r, o)
<1>1. CASE Plain
  BY <1>0, <1>1, GotoEffect, RespondEffect
<1>2. CASE IngestFinalize(r)
  <2>1. (f \in claims' /\ Goto(r, "enqueue")) \/ Plain
    BY <1>2 DEF IngestFinalize, Replies
  <2>2. QED
    BY <1>0, <1>1, <2>1, GotoEffect DEF Pcs
<1>3. CASE LoadFile(r)
  <2>1. (state[f] = "received" /\ Goto(r, "enqueue")) \/ Plain
    BY <1>3 DEF LoadFile, Pcs, Replies
  <2>2. QED
    BY <1>0, <1>1, <2>1, GotoEffect DEF Pcs
<1>4. CASE MarkUploading(r)
  <2>1. (SetState(f, FS!MarkUploadingMoves, "uploading") /\ Goto(r, "sign")) \/ Plain
    BY <1>4 DEF MarkUploading, Replies
  <2>2. SetState(f, FS!MarkUploadingMoves, "uploading")
           => f \in fresh' /\ state'[f] = "uploading"
    BY <1>0 DEF SetState, TypeOK
  <2>3. QED
    BY <1>0, <1>1, <2>1, <2>2, GotoEffect DEF Pcs
<1>5. CASE LoadJob(r)
  <2>1. CASE state[f] = "none"
    BY <1>1, <1>5, <2>1 DEF LoadJob, Replies
  <2>2. CASE state[f] # "none"
    <3> DEFINE up == uploadId[f]
    <3>1. req' = [req EXCEPT ![r].pc = "file", ![r].up = up]
      BY <1>5, <2>2 DEF LoadJob
    <3> HIDE DEF up
    <3>2. /\ \A q \in Reqs \ {r} : req'[q] = req[q]
          /\ req'[r].pc = "file" /\ req'[r].file = f /\ req'[r].op = req[r].op
      BY <1>0, <3>1 DEF Requests
    <3>3. QED
      BY <1>0, <3>2
  <2>3. QED
    BY <2>1, <2>2
<1>6. CASE CreateUpload(r)
  <2>1. CASE \E u \in UploadIds : req' = [req EXCEPT ![r].pc = "mark", ![r].up = u]
    <3>1. /\ \A q \in Reqs \ {r} : req'[q] = req[q]
          /\ req'[r].pc = "mark" /\ req'[r].file = f /\ req'[r].op = req[r].op
      BY <1>0, <2>1 DEF Requests
    <3>2. QED
      BY <1>0, <3>1
  <2>2. QED
    BY <1>1, <1>6, <2>1 DEF CreateUpload, Replies
<1>7. CASE IngestBegin(r)
  BY <1>1, <1>7 DEF IngestBegin, Pcs, Replies
<1>8. CASE \/ SignParts(r) \/ ListParts(r) \/ Assemble(r) \/ HeadObject(r) \/ Enqueue(r)
           \/ DropObject(r) \/ IngestFail(r) \/ AbortUpload(r) \/ UploadDelete(r)
  <2>1. Plain
    BY <1>8 DEF SignParts, ListParts, Assemble, HeadObject, Enqueue, DropObject,
                IngestFail, AbortUpload, UploadDelete, Pcs, Replies
  <2>2. QED
    BY <1>1, <2>1
<1>9. QED
  BY <1>2, <1>3, <1>4, <1>5, <1>6, <1>7, <1>8 DEF Handle

\* A request that starts or dies is nowhere near an enqueue or a signature.
LEMMA CallerRequest ==
    ASSUME TypeOK, NEW r \in Reqs,
           Die(r) \/ \E op \in AllOps, f \in Files : Request(r, op, f)
    PROVE  /\ \A q \in Reqs \ {r} : req'[q] = req[q]
           /\ req'[r].pc \notin {"enqueue", "sign"}
<1>0. req \in [Reqs -> Requests]
  BY DEF TypeOK
<1>1. CASE Die(r)
  BY <1>0, <1>1, RespondEffect DEF Die, Replies
<1>2. ASSUME NEW op \in AllOps, NEW f \in Files, Request(r, op, f)
      PROVE  /\ \A q \in Reqs \ {r} : req'[q] = req[q]
             /\ req'[r].pc \notin {"enqueue", "sign"}
  <2>1. FirstPc(op) \notin {"enqueue", "sign"}
    BY DEF FirstPc
  <2>2. QED
    BY <1>0, <1>2, <2>1 DEF Request
<1>3. QED
  BY <1>1, <1>2

-----------------------------------------------------------------------------
(* Claims.                                                                 *)

\* A row comes to hold bytes, or becomes a tombstone, by finalize or from a row
\* that held bytes already.
LEMMA LiveSources ==
    ASSUME NEW from, NEW to, <<from, to>> \in FS!Moves,
           to \in HoldingBytes \cup {"deleted"}
    PROVE  \/ from \in HoldingBytes
           \/ to = "received" /\ <<from, to>> \notin FS!AnalysisMoves
BY DEF HoldingBytes, FS!HoldingBytes, FS!Moves, FS!BeginMoves, FS!MarkUploadingMoves,
       FS!FinalizeMoves, FS!FailMoves, FS!AbandonMoves, FS!AnalysisMoves,
       FS!AnalysisBeginMoves, FS!PersistMoves, FS!AnalysisFailMoves, FS!RequeueMoves,
       FS!DeleteMoves, FS!InFlight

\* The third group.
LEMMA ClaimInductive == Typed /\ ClaimInv /\ [Next]_vars => ClaimInv'
<1> SUFFICES ASSUME TypeOK, RequestsOK, LiveWasClaimed, EnqueueIsClaimed,
                    SentAfterFinalize, [Next]_vars
             PROVE  LiveWasClaimed' /\ EnqueueIsClaimed' /\ SentAfterFinalize'
  BY DEF Typed, ClaimInv
<1>1. ASSUME NEW r \in Reqs, Handle(r)
      PROVE  LiveWasClaimed' /\ EnqueueIsClaimed' /\ SentAfterFinalize'
  <2> DEFINE f == req[r].file
  <2>1. claims \subseteq claims'
    BY <1>1, HandlerState
  <2>2. LiveWasClaimed'
    <3> SUFFICES ASSUME NEW g \in Files, state'[g] \in HoldingBytes \cup {"deleted"}
                 PROVE  g \in claims'
      BY DEF LiveWasClaimed
    <3>1. CASE state'[g] = state[g]
      BY <2>1, <3>1 DEF LiveWasClaimed
    <3>2. CASE state'[g] # state[g]
      <4>1. PICK to \in States : /\ SetState(f, RouteMoves, to)
                                 /\ to = "received" => f \in claims'
        BY <1>1, <3>2, HandlerState
      <4>2. f \in Files
        BY <1>1, HandlerRequest
      <4>3. g = f /\ state'[g] = to
        BY ZenonT(60), <3>2, <4>1, <4>2, SetStateEffect DEF TypeOK
      <4>4. state[g] \in HoldingBytes \/ to = "received"
        BY <3>2, <4>3, RowsMove, LiveSources
      <4>5. QED
        BY <2>1, <4>1, <4>3, <4>4 DEF LiveWasClaimed
    <3>3. QED
      BY <3>1, <3>2
  <2>3. EnqueueIsClaimed'
    <3>1. ASSUME NEW q \in Reqs, req'[q].pc = "enqueue"
          PROVE  req'[q].file \in claims'
      <4>1. CASE q # r
        BY <1>1, <2>1, <3>1, <4>1, HandlerRequest DEF EnqueueIsClaimed
      <4>2. CASE q = r
        <5>1. req'[r].file = f /\ f \in Files
                /\ (f \in claims' \/ state[f] = "received")
          BY <1>1, <3>1, <4>2, HandlerRequest
        <5>2. QED
          BY <2>1, <4>2, <5>1 DEF LiveWasClaimed, HoldingBytes, FS!HoldingBytes
      <4>3. QED
        BY <4>1, <4>2
    <3>2. QED
      BY <3>1 DEF EnqueueIsClaimed
  <2>4. SentAfterFinalize'
    <3>1. CASE Enqueue(r)
      BY <2>1, <3>1 DEF Enqueue, At, EnqueueIsClaimed, SentAfterFinalize
    <3>2. sent' = sent \/ Enqueue(r)
      BY <1>1 DEF Handle, IngestBegin, LoadJob, LoadFile, CreateUpload, MarkUploading,
         SignParts, ListParts, Assemble, HeadObject, IngestFinalize, DropObject,
         IngestFail, AbortUpload, UploadDelete
    <3>3. QED
      BY <2>1, <3>1, <3>2 DEF SentAfterFinalize
  <2>5. QED
    BY <2>2, <2>3, <2>4
<1>2. ASSUME NEW r \in Reqs, Die(r) \/ \E op \in AllOps, g \in Files : Request(r, op, g)
      PROVE  LiveWasClaimed' /\ EnqueueIsClaimed' /\ SentAfterFinalize'
  <2>1. UNCHANGED <<state, claims, sent>>
    BY <1>2, CallersFrame DEF dbVars
  <2>2. QED
    BY <1>2, <2>1, CallerRequest DEF LiveWasClaimed, EnqueueIsClaimed, SentAfterFinalize
<1>3. ASSUME NEW g \in Files, Browser(g) \/ ExpireUrls(g) \/ Age(g) \/ Pipeline(g)
      PROVE  LiveWasClaimed' /\ EnqueueIsClaimed' /\ SentAfterFinalize'
  <2>1. UNCHANGED <<claims, sent, req>>
    BY <1>3, EnvironmentFrame
  <2>2. LiveWasClaimed'
    <3> SUFFICES ASSUME NEW h \in Files, state'[h] \in HoldingBytes \cup {"deleted"},
                        state'[h] # state[h]
                 PROVE  h \in claims
      BY <2>1 DEF LiveWasClaimed
    <3>1. PICK to \in States : SetState(g, FS!AnalysisMoves, to)
      BY <1>3, EnvironmentFrame
    <3>2. h = g /\ <<state[h], state'[h]>> \in FS!AnalysisMoves
      <4>1. /\ <<state[g], to>> \in FS!AnalysisMoves
            /\ state'[g] = to
            /\ \A k \in Files \ {g} : state'[k] = state[k]
        BY <3>1, SetStateEffect DEF TypeOK
      <4>2. QED
        BY <4>1
    <3>3. state[h] \in HoldingBytes
      BY <3>2, RowsMove, LiveSources
    <3>4. QED
      BY <3>3 DEF LiveWasClaimed
  <2>3. QED
    BY <2>1, <2>2 DEF EnqueueIsClaimed, SentAfterFinalize
<1>4. CASE Cron
  <2>1. UNCHANGED <<claims, sent, req>>
    BY <1>4, CronFrame
  <2>2. \A g \in Files : state'[g] \in {state[g], "abandoned"}
    BY <1>4, CronFrame DEF SweepPage
  <2>3. QED
    BY <2>1, <2>2 DEF LiveWasClaimed, EnqueueIsClaimed, SentAfterFinalize,
                      HoldingBytes, FS!HoldingBytes
<1>5. CASE UNCHANGED vars
  BY <1>5 DEF vars, dbVars, LiveWasClaimed, EnqueueIsClaimed, SentAfterFinalize
<1>6. QED
  BY <1>1, <1>2, <1>3, <1>4, <1>5 DEF Next

-----------------------------------------------------------------------------
(* URLs.                                                                   *)

\* The sweeper alone abandons a row, and only one whose clock has run out.
LEMMA OnlySweeperAbandons ==
    ASSUME TypeOK, RequestsOK, [Next]_vars, NEW f \in Files,
           state[f] # "abandoned", state'[f] = "abandoned"
    PROVE  SweepPage /\ f \notin fresh
<1>1. \A to, moves :
         moves \subseteq RouteMoves \cup FS!AnalysisMoves /\ <<state[f], to>> \in moves
            => to # "abandoned"
  BY DEF RouteMoves, FS!BeginMoves, FS!MarkUploadingMoves, FS!FinalizeMoves,
         FS!FailMoves, FS!AnalysisMoves, FS!AnalysisBeginMoves, FS!PersistMoves,
         FS!AnalysisFailMoves, FS!RequeueMoves, FS!DeleteMoves
<1>2. ASSUME NEW g \in Files, NEW to \in States, NEW moves,
             moves \subseteq RouteMoves \cup FS!AnalysisMoves, SetState(g, moves, to)
      PROVE  FALSE
  <2>1. /\ <<state[g], to>> \in moves
        /\ state'[g] = to
        /\ \A k \in Files \ {g} : state'[k] = state[k]
    BY <1>2, SetStateEffect DEF TypeOK
  <2>2. QED
    BY <1>1, <1>2, <2>1
<1>3. ASSUME NEW r \in Reqs, Handle(r)
      PROVE  FALSE
  BY <1>2, <1>3, HandlerState
<1>4. ASSUME NEW r \in Reqs, Die(r) \/ \E op \in AllOps, g \in Files : Request(r, op, g)
      PROVE  FALSE
  BY <1>4, CallersFrame DEF dbVars
<1>5. ASSUME NEW g \in Files, Browser(g) \/ ExpireUrls(g) \/ Age(g) \/ Pipeline(g)
      PROVE  FALSE
  BY <1>2, <1>5, EnvironmentFrame
<1>6. Cron
  BY <1>3, <1>4, <1>5 DEF Next, vars, dbVars
<1>7. SweepPage
  BY <1>6, CronFrame
<1>8. QED
  BY <1>7 DEF SweepPage, Stale

\* A row's clock runs out only while nobody holds a URL of it or works on it.
LEMMA FreshLoss ==
    ASSUME TypeOK, RequestsOK, [Next]_vars, NEW f \in Files, f \in fresh, f \notin fresh'
    PROVE  /\ UNCHANGED <<putUrls, partUrls, req>>
           /\ f \notin putUrls
           /\ \A u \in UploadIds : <<f, u>> \notin partUrls
           /\ \A r \in Reqs : req[r].file # f
<1>1. ASSUME NEW g, NEW to, NEW moves, SetState(g, moves, to)
      PROVE  FALSE
  BY <1>1 DEF SetState
<1>2. ASSUME NEW r \in Reqs, Handle(r)
      PROVE  FALSE
  BY <1>1, <1>2, HandlerState
<1>3. ASSUME NEW r \in Reqs, Die(r) \/ \E op \in AllOps, g \in Files : Request(r, op, g)
      PROVE  FALSE
  BY <1>3, CallersFrame DEF dbVars
<1>4. ASSUME Cron
      PROVE  FALSE
  BY <1>4, CronFrame DEF SweepPage
<1>5. ASSUME NEW g \in Files, Browser(g) \/ ExpireUrls(g) \/ Pipeline(g)
      PROVE  FALSE
  BY <1>1, <1>5 DEF Browser, PutObject, PutParts, ExpireUrls, Pipeline, dbVars
<1>6. PICK g \in Files : Age(g)
  BY <1>2, <1>3, <1>4, <1>5 DEF Next, vars, dbVars
<1>7. g = f
  BY <1>6 DEF Age
<1>8. QED
  BY <1>6, <1>7 DEF Age, r2Vars

\* A new URL belongs to a row marked uploading in the same step, or to the request
\* that has marked it.
LEMMA NewUrls ==
    ASSUME TypeOK, RequestsOK, [Next]_vars
    PROVE  /\ \A f \in putUrls' \ putUrls : f \in fresh' /\ state'[f] = "uploading"
           /\ \A f \in Files, u \in UploadIds : <<f, u>> \in partUrls' \ partUrls =>
                 /\ UNCHANGED <<state, fresh>>
                 /\ \E r \in Reqs : req[r].pc = "sign" /\ req[r].file = f
<1>1. ASSUME NEW r \in Reqs, MarkUploading(r)
      PROVE  /\ \A f \in putUrls' \ putUrls : f \in fresh' /\ state'[f] = "uploading"
             /\ partUrls' = partUrls
  <2>1. req[r].file \in Files
    BY <1>1 DEF MarkUploading, At, RequestsOK
  <2>2. QED
    BY <1>1, <2>1 DEF MarkUploading, SetState, TypeOK
<1>2. ASSUME NEW r \in Reqs, SignParts(r)
      PROVE  /\ UNCHANGED <<state, fresh, putUrls>>
             /\ req[r].pc = "sign"
             /\ \A p \in partUrls' \ partUrls : p[1] = req[r].file
  BY <1>2 DEF SignParts, At, dbVars
<1>3. ASSUME NEW r \in Reqs, Handle(r), ~MarkUploading(r), ~SignParts(r)
      PROVE  UNCHANGED <<putUrls, partUrls>>
  BY <1>3 DEF Handle, IngestBegin, LoadJob, LoadFile, CreateUpload, ListParts, Assemble,
       HeadObject, IngestFinalize, Enqueue, DropObject, IngestFail, AbortUpload,
       UploadDelete, r2Vars
<1>4. ASSUME NEW r \in Reqs, Die(r) \/ \E op \in AllOps, g \in Files : Request(r, op, g)
      PROVE  UNCHANGED <<putUrls, partUrls>>
  BY <1>4, CallersFrame DEF r2Vars
<1>5. \/ putUrls' \subseteq putUrls /\ partUrls' \subseteq partUrls
      \/ \E r \in Reqs : MarkUploading(r) \/ SignParts(r)
  BY <1>3, <1>4, EnvironmentFrame, CronFrame DEF Next, vars, r2Vars
<1>6. QED
  BY <1>1, <1>2, <1>5

\* The fourth group.
LEMMA UrlInductive == Typed /\ UrlInv /\ [Next]_vars => UrlInv'
<1> SUFFICES ASSUME TypeOK, RequestsOK, AbandonedHasNoUrls, UrlsAreFresh,
                    SignersAreFresh, [Next]_vars
             PROVE  AbandonedHasNoUrls' /\ UrlsAreFresh' /\ SignersAreFresh'
  BY DEF Typed, UrlInv
<1>0. putUrls' \subseteq Files /\ putUrls \subseteq Files
  <2>1. TypeOK'
    BY TypedInductive DEF Typed
  <2>2. QED
    BY <2>1 DEF TypeOK
<1>1. ASSUME NEW f \in putUrls'
      PROVE  f \in fresh' /\ state'[f] # "abandoned"
  <2>1. CASE f \in putUrls
    BY <1>0, <1>1, <2>1, FreshLoss, OnlySweeperAbandons
       DEF UrlsAreFresh, AbandonedHasNoUrls
  <2>2. QED
    BY <1>1, <2>1, NewUrls
<1>2. ASSUME NEW f \in Files, NEW u \in UploadIds, <<f, u>> \in partUrls'
      PROVE  f \in fresh' /\ state'[f] # "abandoned"
  <2>1. CASE <<f, u>> \in partUrls
    BY <1>2, <2>1, FreshLoss, OnlySweeperAbandons
       DEF UrlsAreFresh, AbandonedHasNoUrls
  <2>2. CASE <<f, u>> \notin partUrls
    BY <1>2, <2>2, NewUrls DEF SignersAreFresh
  <2>3. QED
    BY <2>1, <2>2
<1>3. SignersAreFresh'
  <2> SUFFICES ASSUME NEW q \in Reqs, req'[q].pc = "sign"
               PROVE  req'[q].file \in fresh' /\ state'[req'[q].file] # "abandoned"
    BY DEF SignersAreFresh
  <2>1. CASE req'[q] = req[q]
    <3>1. req[q].file \in Files
      BY <2>1 DEF RequestsOK
    <3>2. QED
      BY <2>1, <3>1, FreshLoss, OnlySweeperAbandons DEF SignersAreFresh
  <2>2. CASE req'[q] # req[q]
    <3>1. Handle(q)
      BY <2>2, HandlerRequest, CallerRequest, EnvironmentFrame, CronFrame DEF Next, vars
    <3>2. QED
      BY <3>1, HandlerRequest
  <2>3. QED
    BY <2>1, <2>2
<1>4. QED
  BY <1>1, <1>2, <1>3 DEF AbandonedHasNoUrls, UrlsAreFresh

-----------------------------------------------------------------------------
(* The theorems.                                                           *)

\* The invariant holds in every reachable state, whatever the number of files,
\* requests, upload ids, tabs calling the routes, and crons.
THEOREM IngestInvariant == Spec => []IInv
<1>1. Init => IInv
  <2> SUFFICES ASSUME Init
               PROVE  IInv
    OBVIOUS
  <2>1. TypeOK
    <3>1. Idle \in Requests
      BY DEF Idle, Requests, Pcs, Replies
    <3>2. started \in 0..MaxRequests
      BY IngestAssumption DEF Init
    <3>3. QED
      BY <3>1, <3>2 DEF Init, TypeOK, States, FS!States, Plans, ObjectKinds,
         UploadKinds, Unread
  <2>2. \A r \in Reqs : req[r].pc = "idle"
    BY DEF Init, Idle
  <2>3. QED
    BY <2>1, <2>2 DEF Init, Unread, IInv, Typed, RequestsOK, DeadInv, SweepOnlyDead,
       SnapshotStillDead, ReconcileOnlyDead, ClaimInv, LiveWasClaimed,
       EnqueueIsClaimed, SentAfterFinalize, UrlInv, AbandonedHasNoUrls, UrlsAreFresh,
       SignersAreFresh, HoldingBytes, FS!HoldingBytes, SafeToAutoDelete,
       FS!SafeToAutoDelete
<1>2. IInv /\ [Next]_vars => IInv'
  BY TypedInductive, DeadInductive, ClaimInductive, UrlInductive DEF IInv
<1>3. QED
  BY <1>1, <1>2, PTL DEF Spec

\* Every variable stays in its type.
THEOREM IngestTypeOK == Spec => []TypeOK
<1>1. IInv => TypeOK
  BY DEF IInv, Typed
<1>2. QED
  BY <1>1, IngestInvariant, PTL

\* The sweeper never holds an R2 delete for a row that is anything but abandoned.
THEOREM SweeperErasesOnlyDead == Spec => []SweepOnlyDead
<1>1. IInv => SweepOnlyDead
  BY DEF IInv, DeadInv
<1>2. QED
  BY <1>1, IngestInvariant, PTL

\* With the orphan flag off, the reconcile never erases a live row's object.
THEOREM ReconcileErasesOnlyDead == Spec => []ReconcileOnlyDead
<1>1. IInv => ReconcileOnlyDead
  BY DEF IInv, DeadInv
<1>2. QED
  BY <1>1, IngestInvariant, PTL

\* Verified bytes are always credited to their uploader.
THEOREM VerifiedBytesAreClaimed == Spec => []LiveWasClaimed
<1>1. IInv => LiveWasClaimed
  BY DEF IInv, ClaimInv
<1>2. QED
  BY <1>1, IngestInvariant, PTL

\* No analysis message goes out ahead of ingest_finalize.
THEOREM MessageFollowsFinalize == Spec => []SentAfterFinalize
<1>1. IInv => SentAfterFinalize
  BY DEF IInv, ClaimInv
<1>2. QED
  BY <1>1, IngestInvariant, PTL

\* No URL survives the abandoning of its row.
THEOREM AbandonedIsUnwritable == Spec => []AbandonedHasNoUrls
<1>1. IInv => AbandonedHasNoUrls
  BY DEF IInv, UrlInv
<1>2. QED
  BY <1>1, IngestInvariant, PTL

\* The upload pipeline implements the state machine of files.state.
THEOREM IngestRefinesFileState == Spec => ImplementsFileState
<1>1. Init => FS!Init
  BY DEF Init, FS!Init
<1>2. IInv /\ IInv' /\ [Next]_vars => [FS!Next]_state
  <2> SUFFICES ASSUME TypeOK, RequestsOK, TypeOK', [Next]_vars
               PROVE  FS!Next
    BY DEF IInv, Typed
  <2>1. state' \in [Files -> FS!States]
    BY DEF TypeOK, States
  <2>2. QED
    BY <2>1, RowsMove DEF FS!Next
<1>3. QED
  BY <1>1, <1>2, IngestInvariant, PTL DEF Spec, ImplementsFileState, FS!Spec

-----------------------------------------------------------------------------
(* Upload is a restriction of Ingest.                                      *)

\* A tab's step is a call of a route, a PUT, or nothing the server sees.
LEMMA TabIsIngestStep ==
    ASSUME NEW s \in Sessions, Tab(s)
    PROVE  [Next]_vars
<1>0. FileOf[s] \in Files
  BY UploadAssumption
<1>1. ASSUME NEW op \in AllOps, NEW pc, Call(s, op, pc)
      PROVE  [Next]_vars
  BY <1>0, <1>1 DEF Call, Next
<1>2. CASE \/ Presign(s) \/ Represign(s) \/ AskParts(s) \/ Complete(s) \/ Discard(s)
  BY <1>1, <1>2 DEF Presign, Represign, AskParts, Complete, Discard, AllOps
<1>3. CASE Put(s) \/ SendParts(s)
  BY <1>0, <1>3 DEF Put, SendParts, Next, Browser
<1>4. CASE \/ Resume(s) \/ Interrupt(s) \/ FailTransfer(s) \/ Answer(s)
           \/ LoseReply(s) \/ Reopen(s) \/ Retry(s)
  BY <1>4 DEF Resume, Interrupt, FailTransfer, Answer, LoseReply, Reopen, Retry
<1>5. QED
  BY <1>2, <1>3, <1>4 DEF Tab

\* The same of every step: the rest of UNext is Ingest's own.
LEMMA StepIsIngestStep == [UNext]_uvars => [Next]_vars
<1> SUFFICES ASSUME [UNext]_uvars
             PROVE  [Next]_vars
  OBVIOUS
<1>1. ASSUME NEW f \in Files, DeleteTrack(f)
      PROVE  Next
  BY <1>1 DEF DeleteTrack, Next, AllOps
<1>2. QED
  BY <1>1, TabIsIngestStep DEF UNext, uvars, Next, Throw

\* Every behaviour of the closed system is one of Ingest.
THEOREM UploadRefinesIngest == USpec => Spec
<1>1. UInit => Init
  BY DEF UInit
<1>2. QED
  BY <1>1, StepIsIngestStep, PTL DEF USpec, Spec

-----------------------------------------------------------------------------
(* The invariant of the tabs.                                              *)

\* Which route a request can be running when it is about to mark or sign.
RoutesOK ==
    \A r \in Reqs : /\ req[r].pc = "create" => req[r].op = "presign"
                    /\ req[r].pc = "mark" => req[r].op \in {"presign", "parts"}
                    /\ req[r].pc = "sign" => req[r].op = "parts"

\* No two tabs wait for one request.
OneWaiter ==
    \A s, t \in Sessions : session[s].slot = session[t].slot /\ s # t
                              => session[s].slot = NoReq

\* While it runs, the request a tab waits for is the one it made.
AwaitsOwn ==
    \A s \in Sessions : session[s].pc \in Waits =>
        LET q == req[session[s].slot] IN
        q.pc # "idle" => /\ q.file = FileOf[s]
                         /\ session[s].pc = "completing" => q.op = "complete"

\* Once it has answered, the answers that end an upload are true.
AnswersTrue ==
    \A s \in Sessions :
        LET q == req[session[s].slot] IN
        /\ session[s].pc = "completing" /\ q.pc = "idle" /\ q.reply = "ok"
              => FileOf[s] \in claims
        /\ session[s].pc = "presigning" /\ q.pc = "idle" /\ q.reply = "already"
              => FileOf[s] \in claims

\* The inductive invariant of the closed system, beside Ingest's IInv.
TabInv == /\ UploadTypeOK
          /\ RoutesOK
          /\ OneWaiter
          /\ AwaitsOwn
          /\ AnswersTrue
          /\ DoneIsFinalized

-----------------------------------------------------------------------------
(* What uploadFile does with an answer.                                    *)

\* After an answer a tab waits no more, and only two answers end an upload.
LEMMA AfterAnswer ==
    ASSUME NEW pc \in Waits, NEW reply, NEW f
    PROVE  /\ After(pc, reply, f) \in (Resting \cup Steps) \ Waits
           /\ After(pc, reply, f) = "done" =>
                 \/ pc = "presigning" /\ reply = "already"
                 \/ pc = "completing" /\ reply = "ok"
BY DEF After, Waits, Resting, Steps

\* Moving on releases the request the tab awaited and touches no other tab.
LEMMA MoveEffect ==
    ASSUME UploadTypeOK, NEW s \in Sessions, NEW pc \in (Resting \cup Steps) \ Waits,
           Move(s, pc)
    PROVE  /\ session' \in [Sessions -> [pc : Waits \cup Resting \cup Steps,
                                         slot : Reqs \cup {NoReq}]]
           /\ session'[s].pc = pc
           /\ session'[s].slot = NoReq
           /\ \A t \in Sessions \ {s} : session'[t] = session[t]
BY DEF UploadTypeOK, Move

-----------------------------------------------------------------------------
(* What the answers of the routes say.                                     *)

\* "already" is said of a row found received, and complete says "ok" only after
\* the enqueue, that is, after ingest_finalize.
LEMMA HandlerReply ==
    ASSUME TypeOK, RequestsOK, RoutesOK, NEW r \in Reqs, Handle(r)
    PROVE  /\ req'[r].pc = "idle" /\ req'[r].reply = "already"
                 => state[req[r].file] = "received"
           /\ req'[r].pc = "idle" /\ req'[r].reply = "ok" /\ req[r].op = "complete"
                 => req[r].pc = "enqueue"
           /\ RoutesOK'
<1>0. req \in [Reqs -> Requests]
  BY DEF TypeOK
<1> DEFINE Plain == \/ \E pc \in Pcs \ {"idle", "create", "mark", "sign"} : Goto(r, pc)
                    \/ Respond(r, "error")
<1>1. CASE Plain
  BY <1>0, <1>1, GotoEffect, RespondEffect DEF RoutesOK, Replies
<1>2. CASE IngestBegin(r)
  <2>1. \/ Plain
        \/ Respond(r, "dead")
        \/ state[req[r].file] = "received" /\ Respond(r, "already")
    BY <1>2 DEF IngestBegin, Pcs
  <2>2. QED
    BY <1>0, <1>1, <2>1, RespondEffect DEF RoutesOK, Replies
<1>3. CASE LoadJob(r)
  <2>1. CASE state[req[r].file] = "none"
    BY <1>1, <1>3, <2>1 DEF LoadJob
  <2>2. CASE state[req[r].file] # "none"
    <3> DEFINE up == uploadId[req[r].file]
    <3>1. req' = [req EXCEPT ![r].pc = "file", ![r].up = up]
      BY <1>3, <2>2 DEF LoadJob
    <3> HIDE DEF up
    <3>2. /\ \A q \in Reqs \ {r} : req'[q] = req[q]
          /\ req'[r].pc = "file"
      BY <1>0, <3>1 DEF Requests
    <3>3. QED
      BY <1>0, <3>2 DEF RoutesOK
  <2>3. QED
    BY <2>1, <2>2
<1>4. CASE LoadFile(r)
  <2>1. \/ Plain
        \/ req[r].op = "presign" /\ Goto(r, "create")
        \/ req[r].op \in {"presign", "parts"} /\ Goto(r, "mark")
    BY <1>4 DEF LoadFile, Pcs
  <2>2. QED
    BY <1>0, <1>1, <2>1, GotoEffect DEF RoutesOK, Pcs
<1>5. CASE CreateUpload(r)
  <2>1. CASE \E u \in UploadIds : req' = [req EXCEPT ![r].pc = "mark", ![r].up = u]
    <3>1. /\ \A q \in Reqs \ {r} : req'[q] = req[q]
          /\ req'[r].pc = "mark" /\ req'[r].op = req[r].op
      BY <1>0, <2>1 DEF Requests
    <3>2. QED
      BY <1>0, <1>5, <3>1 DEF CreateUpload, At, RoutesOK
  <2>2. QED
    BY <1>1, <1>5, <2>1 DEF CreateUpload
<1>6. CASE MarkUploading(r)
  <2>1. \/ Respond(r, "error")
        \/ req[r].op = "presign" /\ Respond(r, "ok")
        \/ req[r].op = "parts" /\ Goto(r, "sign")
    BY <1>6 DEF MarkUploading, At, RoutesOK
  <2>2. QED
    BY <1>0, <2>1, GotoEffect, RespondEffect DEF RoutesOK, Replies, Pcs
<1>7. CASE SignParts(r)
  <2>1. req[r].op = "parts" /\ Respond(r, "ok")
    BY <1>7 DEF SignParts, At, RoutesOK
  <2>2. QED
    BY <1>0, <2>1, RespondEffect DEF RoutesOK, Replies
<1>8. CASE Enqueue(r)
  BY <1>0, <1>8, RespondEffect DEF Enqueue, At, RoutesOK, Replies
<1>9. CASE DropObject(r)
  <2>1. Plain \/ (req[r].op = "delete" /\ Respond(r, "ok"))
    BY <1>9 DEF DropObject, Pcs
  <2>2. QED
    BY <1>0, <1>1, <2>1, RespondEffect DEF RoutesOK, Replies
<1>10. CASE IngestFail(r)
  <2>1. Plain \/ (req[r].op = "abort" /\ Respond(r, "ok"))
    BY <1>10 DEF IngestFail
  <2>2. QED
    BY <1>0, <1>1, <2>1, RespondEffect DEF RoutesOK, Replies
<1>11. CASE \/ ListParts(r) \/ Assemble(r) \/ HeadObject(r) \/ IngestFinalize(r)
            \/ AbortUpload(r) \/ UploadDelete(r)
  <2>1. Plain
    BY <1>11 DEF ListParts, Assemble, HeadObject, IngestFinalize, AbortUpload,
                 UploadDelete, Pcs
  <2>2. QED
    BY <1>1, <2>1
<1>12. QED
  BY <1>2, <1>3, <1>4, <1>5, <1>6, <1>7, <1>8, <1>9, <1>10, <1>11 DEF Handle

\* A request that dies, or is started, says nothing that ends an upload.
LEMMA CallerReply ==
    ASSUME TypeOK, RoutesOK, NEW r \in Reqs,
           Die(r) \/ \E op \in AllOps, f \in Files : Request(r, op, f)
    PROVE  /\ RoutesOK'
           /\ Die(r) => req'[r].pc = "idle" /\ req'[r].reply = "error"
<1>0. req \in [Reqs -> Requests]
  BY DEF TypeOK
<1>1. CASE Die(r)
  BY <1>0, <1>1, RespondEffect DEF Die, RoutesOK, Replies
<1>2. ASSUME NEW op \in AllOps, NEW f \in Files, Request(r, op, f)
      PROVE  RoutesOK' /\ ~Die(r)
  <2>1. FirstPc(op) \notin {"idle", "create", "mark", "sign"}
    BY DEF FirstPc
  <2>2. /\ req'[r].pc = FirstPc(op)
        /\ \A q \in Reqs \ {r} : req'[q] = req[q]
        /\ req[r].pc = "idle"
    BY <1>0, <1>2 DEF Request, At
  <2>3. QED
    BY <2>1, <2>2 DEF RoutesOK, Die, At
<1>3. QED
  BY <1>1, <1>2

-----------------------------------------------------------------------------
(* The tabs, step by step.                                                 *)

\* A file once claimed stays claimed.
LEMMA ClaimsGrow ==
    ASSUME TypeOK, RequestsOK, [Next]_vars
    PROVE  claims \subseteq claims'
<1>1. ASSUME NEW r \in Reqs, Handle(r)
      PROVE  claims \subseteq claims'
  BY <1>1, HandlerState
<1>2. ASSUME NEW r \in Reqs, Die(r) \/ \E op \in AllOps, f \in Files : Request(r, op, f)
      PROVE  claims \subseteq claims'
  BY <1>2, CallersFrame DEF dbVars
<1>3. QED
  BY <1>1, <1>2, EnvironmentFrame, CronFrame DEF Next, vars, dbVars

\* A tab that moves on without a request, while the routes stand still.
LEMMA MoveKeepsTabs ==
    ASSUME TabInv, NEW s \in Sessions, NEW pc \in (Resting \cup Steps) \ Waits,
           Move(s, pc), pc = "done" => FileOf[s] \in claims,
           UNCHANGED <<req, claims>>, TypeOK'
    PROVE  TabInv'
<1>1. /\ session' \in [Sessions -> [pc : Waits \cup Resting \cup Steps,
                                    slot : Reqs \cup {NoReq}]]
      /\ session'[s].pc = pc /\ session'[s].slot = NoReq
      /\ \A t \in Sessions \ {s} : session'[t] = session[t]
  BY MoveEffect DEF TabInv
<1>2. pc \notin {"completing", "presigning"}
  BY DEF Waits
<1>3. UploadTypeOK'
  BY <1>1 DEF TabInv, UploadTypeOK
<1>4. RoutesOK' /\ OneWaiter'
  BY <1>1 DEF TabInv, RoutesOK, OneWaiter
<1>5. AwaitsOwn' /\ AnswersTrue'
  BY <1>1, <1>2 DEF TabInv, AwaitsOwn, AnswersTrue
<1>6. DoneIsFinalized'
  BY <1>1 DEF TabInv, DoneIsFinalized
<1>7. QED
  BY <1>3, <1>4, <1>5, <1>6 DEF TabInv

\* A tab that calls a route, in a slot nobody waits for.
LEMMA CallKeepsTabs ==
    ASSUME TabInv, NEW s \in Sessions, NEW op \in AllOps, NEW pc \in Waits,
           Call(s, op, pc), pc = "completing" => op = "complete", TypeOK'
    PROVE  TabInv'
<1>0. req \in [Reqs -> Requests] /\ FileOf[s] \in Files
  BY UploadAssumption DEF TabInv, UploadTypeOK, TypeOK
<1>1. PICK r \in Reqs : /\ ~Awaited(r)
                        /\ Request(r, op, FileOf[s])
                        /\ session' = [session EXCEPT ![s] = [pc |-> pc, slot |-> r]]
  BY DEF Call
<1>2. /\ session' \in [Sessions -> [pc : Waits \cup Resting \cup Steps,
                                    slot : Reqs \cup {NoReq}]]
      /\ session'[s].pc = pc /\ session'[s].slot = r
      /\ \A t \in Sessions \ {s} : session'[t] = session[t]
  BY <1>1 DEF TabInv, UploadTypeOK
<1>3. /\ \A q \in Reqs \ {r} : req'[q] = req[q]
      /\ req'[r].op = op /\ req'[r].file = FileOf[s] /\ req'[r].pc = FirstPc(op)
      /\ claims' = claims
  BY <1>0, <1>1 DEF Request, dbVars
<1>4. FirstPc(op) # "idle"
  BY DEF FirstPc
<1>5. \A t \in Sessions : session[t].slot # r
  BY <1>1 DEF Awaited
<1>6. r # NoReq /\ pc # "done"
  BY UploadAssumption DEF Waits
<1>7. UploadTypeOK'
  BY <1>2, <1>6 DEF TabInv, UploadTypeOK
<1>8. RoutesOK'
  BY <1>0, <1>1, CallerReply DEF TabInv, UploadTypeOK
<1>9. OneWaiter'
  BY <1>2, <1>5 DEF TabInv, OneWaiter
<1>10. AwaitsOwn' /\ AnswersTrue'
  <2>1. \A t \in Sessions \ {s} : session[t].pc \in Waits
            => session[t].slot \in Reqs \ {r}
    BY <1>5 DEF TabInv, UploadTypeOK
  <2>2. AwaitsOwn'
    BY <1>2, <1>3, <2>1 DEF TabInv, AwaitsOwn
  <2>3. AnswersTrue'
    BY <1>2, <1>3, <1>4, <2>1 DEF TabInv, AnswersTrue, Waits
  <2>4. QED
    BY <2>2, <2>3
<1>11. DoneIsFinalized'
  BY <1>2, <1>3, <1>6 DEF TabInv, DoneIsFinalized
<1>12. QED
  BY <1>7, <1>8, <1>9, <1>10, <1>11 DEF TabInv

\* Every step of a tab keeps the invariant of all of them.
LEMMA TabKeepsTabs ==
    ASSUME TabInv, NEW s \in Sessions, Tab(s), TypeOK'
    PROVE  TabInv'
<1>1. CASE \/ Presign(s) \/ Represign(s) \/ AskParts(s) \/ Complete(s) \/ Discard(s)
  BY <1>1, CallKeepsTabs
     DEF Presign, Represign, AskParts, Complete, Discard, AllOps, Waits
<1>2. ASSUME NEW pc \in ((Resting \cup Steps) \ Waits) \ {"done"}, Move(s, pc),
             UNCHANGED <<req, claims>>
      PROVE  TabInv'
  BY <1>2, MoveKeepsTabs
<1>3. CASE Put(s) \/ SendParts(s)
  <2>1. Move(s, "transferred") /\ UNCHANGED <<req, claims>>
    BY <1>3 DEF Put, SendParts, PutObject, PutParts, vars, dbVars
  <2>2. QED
    BY <1>2, <2>1 DEF Resting, Steps, Waits
<1>4. CASE \/ Resume(s) \/ Interrupt(s) \/ FailTransfer(s) \/ Reopen(s) \/ Retry(s)
  <2>1. UNCHANGED <<req, claims>>
    BY <1>4 DEF Resume, Interrupt, FailTransfer, Reopen, Retry, vars, dbVars
  <2>2. \E pc \in {"ready", "paused", "discarding", "transferred", "askParts"} :
           Move(s, pc)
    BY <1>4 DEF Resume, Interrupt, FailTransfer, Reopen, Retry
  <2>3. QED
    BY <1>2, <2>1, <2>2 DEF Resting, Steps, Waits
<1>5. CASE LoseReply(s)
  <2>1. session[s].pc \in Waits /\ UNCHANGED <<req, claims>>
    BY <1>5 DEF LoseReply, In, vars, dbVars
  <2>2. PICK pc \in {"paused", After(session[s].pc, "error", FileOf[s])} : Move(s, pc)
    BY <1>5 DEF LoseReply
  <2>3. pc \in ((Resting \cup Steps) \ Waits) \ {"done"}
    BY <2>1, <2>2, AfterAnswer DEF Resting, Steps, Waits
  <2>4. QED
    BY <1>2, <2>1, <2>2, <2>3
<1>6. CASE Answer(s)
  <2> DEFINE q  == req[session[s].slot]
             pc == After(session[s].pc, q.reply, FileOf[s])
  <2>1. /\ session[s].pc \in Waits /\ q.pc = "idle"
        /\ Move(s, pc) /\ UNCHANGED <<req, claims>>
    BY <1>6 DEF Answer, In, At, vars, dbVars
  <2>2. pc \in (Resting \cup Steps) \ Waits
    BY <2>1, AfterAnswer
  <2>3. pc = "done" => FileOf[s] \in claims
    BY <2>1, AfterAnswer DEF TabInv, AnswersTrue
  <2> HIDE DEF pc
  <2>4. QED
    BY <2>1, <2>2, <2>3, MoveKeepsTabs
<1>7. QED
  BY <1>1, <1>3, <1>4, <1>5, <1>6 DEF Tab

\* A route's step, while every tab waits.
LEMMA RouteKeepsTabs ==
    ASSUME TabInv, IInv, NEW r \in Reqs, Handle(r) \/ Die(r), UNCHANGED session, TypeOK'
    PROVE  TabInv'
<1>1. TypeOK /\ RequestsOK /\ LiveWasClaimed /\ EnqueueIsClaimed
  BY DEF IInv, Typed, ClaimInv
<1>2. /\ UploadTypeOK' /\ OneWaiter'
  BY DEF TabInv, UploadTypeOK, OneWaiter
<1>3. claims \subseteq claims'
  BY <1>1, HandlerState, CallersFrame DEF dbVars
<1>4. DoneIsFinalized'
  BY <1>3 DEF TabInv, DoneIsFinalized
<1>5. /\ RoutesOK'
      /\ \A q \in Reqs \ {r} : req'[q] = req[q]
  BY <1>1, HandlerRequest, HandlerReply, CallerRequest, CallerReply DEF TabInv
<1>6. \/ req'[r].pc = "idle"
      \/ req'[r].file = req[r].file /\ req'[r].op = req[r].op /\ req[r].pc # "idle"
  <2>1. Handle(r) => req[r].pc # "idle"
    BY DEF Handle, IngestBegin, LoadJob, LoadFile, CreateUpload, MarkUploading, SignParts,
       ListParts, Assemble, HeadObject, IngestFinalize, Enqueue, DropObject,
       IngestFail, AbortUpload, UploadDelete, At
  <2>2. QED
    BY <1>1, <2>1, HandlerRequest, CallerReply DEF TabInv
<1>7. ASSUME NEW s \in Sessions, session[s].pc \in Waits, session[s].slot = r,
             req'[r].pc = "idle"
      PROVE  /\ session[s].pc = "completing" /\ req'[r].reply = "ok"
                   => FileOf[s] \in claims'
             /\ session[s].pc = "presigning" /\ req'[r].reply = "already"
                   => FileOf[s] \in claims'
  <2>1. CASE Die(r)
    BY <1>1, <2>1, CallerReply DEF TabInv
  <2>2. CASE Handle(r)
    <3>1. req[r].pc # "idle"
      BY <2>2 DEF Handle, IngestBegin, LoadJob, LoadFile, CreateUpload, MarkUploading,
         SignParts, ListParts, Assemble, HeadObject, IngestFinalize, Enqueue, DropObject,
         IngestFail, AbortUpload, UploadDelete, At
    <3>2. /\ req[r].file = FileOf[s] /\ FileOf[s] \in Files
          /\ session[s].pc = "completing" => req[r].op = "complete"
      BY <1>7, <3>1, UploadAssumption DEF TabInv, AwaitsOwn
    <3>3. session[s].pc = "completing" /\ req'[r].reply = "ok" => FileOf[s] \in claims'
      BY <1>1, <1>3, <1>7, <2>2, <3>2, HandlerReply DEF TabInv, EnqueueIsClaimed
    <3>4. session[s].pc = "presigning" /\ req'[r].reply = "already"
             => FileOf[s] \in claims'
      BY <1>1, <1>3, <1>7, <2>2, <3>2, HandlerReply
         DEF TabInv, LiveWasClaimed, HoldingBytes, FS!HoldingBytes
    <3>5. QED
      BY <3>3, <3>4
  <2>3. QED
    BY <2>1, <2>2
<1>8. \A s \in Sessions : session[s].pc \in Waits => session[s].slot \in Reqs
  BY DEF TabInv, UploadTypeOK
<1>9. AwaitsOwn'
  BY <1>5, <1>6, <1>8 DEF TabInv, AwaitsOwn
<1>10. AnswersTrue'
  <2> SUFFICES ASSUME NEW s \in Sessions, session[s].pc \in {"completing", "presigning"}
               PROVE  LET q == req'[session[s].slot] IN
                      /\ session[s].pc = "completing" /\ q.pc = "idle" /\ q.reply = "ok"
                            => FileOf[s] \in claims'
                      /\ session[s].pc = "presigning" /\ q.pc = "idle"
                            /\ q.reply = "already" => FileOf[s] \in claims'
    BY DEF AnswersTrue
  <2>1. session[s].pc \in Waits
    BY DEF Waits
  <2>2. CASE session[s].slot = r
    BY <1>7, <2>1, <2>2
  <2>3. CASE session[s].slot # r
    BY <1>3, <1>5, <1>8, <2>1, <2>3 DEF TabInv, AnswersTrue
  <2>4. QED
    BY <2>2, <2>3
<1>11. QED
  BY <1>2, <1>4, <1>5, <1>9, <1>10 DEF TabInv

\* TabInv is inductive relative to IInv.
LEMMA TabsInductive == TabInv /\ IInv /\ IInv' /\ [UNext]_uvars => TabInv'
<1> SUFFICES ASSUME TabInv, IInv, TypeOK', [UNext]_uvars
             PROVE  TabInv'
  BY DEF IInv, Typed
<1>0. TypeOK /\ req \in [Reqs -> Requests]
  BY DEF IInv, Typed, TypeOK
<1>1. ASSUME NEW s \in Sessions, Tab(s)
      PROVE  TabInv'
  BY <1>1, TabKeepsTabs
<1>2. ASSUME NEW f \in Files, DeleteTrack(f)
      PROVE  TabInv'
  <2>1. PICK r \in Reqs : ~Awaited(r) /\ Request(r, "delete", f)
    BY <1>2 DEF DeleteTrack
  <2>2. /\ UNCHANGED <<session, claims>>
        /\ \A q \in Reqs \ {r} : req'[q] = req[q]
        /\ RoutesOK'
    BY <1>0, <1>2, <2>1, CallerRequest, CallerReply DEF DeleteTrack, Request, dbVars,
       TabInv, AllOps
  <2>3. \A s \in Sessions : session[s].pc \in Waits => session[s].slot \in Reqs \ {r}
    BY <2>1 DEF Awaited, TabInv, UploadTypeOK
  <2>4. UploadTypeOK' /\ OneWaiter' /\ DoneIsFinalized'
    BY <2>2 DEF TabInv, UploadTypeOK, OneWaiter, DoneIsFinalized
  <2>5. AwaitsOwn' /\ AnswersTrue'
    BY <2>2, <2>3 DEF TabInv, AwaitsOwn, AnswersTrue, Waits
  <2>6. QED
    BY <2>2, <2>4, <2>5 DEF TabInv
<1>3. ASSUME NEW r \in Reqs, Handle(r) \/ Die(r), UNCHANGED session
      PROVE  TabInv'
  BY <1>3, RouteKeepsTabs
<1>4. CASE UNCHANGED <<session, req, claims>>
  BY <1>4 DEF TabInv, UploadTypeOK, RoutesOK, OneWaiter, AwaitsOwn, AnswersTrue,
     DoneIsFinalized
<1>5. CASE \/ \E f \in Files : Browser(f) \/ ExpireUrls(f) \/ Age(f) \/ Pipeline(f)
           \/ Cron
  BY <1>4, <1>5, <1>1, <1>2, <1>3, EnvironmentFrame, CronFrame
     DEF UNext, uvars, vars, dbVars, Throw
<1>6. QED
  BY <1>1, <1>2, <1>3, <1>4, <1>5 DEF UNext, uvars, vars, dbVars, Throw

-----------------------------------------------------------------------------
(* The theorems of the closed system.                                      *)

\* The invariant of the tabs holds in every reachable state of the closed system.
THEOREM UploadInvariant == USpec => []TabInv
<1>1. UInit /\ IInv => TabInv
  BY DEF UInit, Init, Idle, TabInv, UploadTypeOK, RoutesOK, OneWaiter, AwaitsOwn,
     AnswersTrue, DoneIsFinalized, Waits, Steps, IInv, Typed
<1>2. USpec => []IInv
  BY UploadRefinesIngest, IngestInvariant, PTL
<1>3. TabInv /\ IInv /\ IInv' /\ [UNext]_uvars => TabInv'
  BY TabsInductive
<1>4. QED
  BY <1>1, <1>2, <1>3, PTL DEF USpec

\* Every variable of the closed system stays in its type.
THEOREM UploadTypeCorrect == USpec => []UploadTypeOK
<1>1. TabInv => UploadTypeOK
  BY DEF TabInv
<1>2. QED
  BY <1>1, UploadInvariant, PTL

\* A tab that says "done" has a claimed file, however many answers were lost.
THEOREM DoneMeansFinalized == USpec => []DoneIsFinalized
<1>1. TabInv => DoneIsFinalized
  BY DEF TabInv
<1>2. QED
  BY <1>1, UploadInvariant, PTL

-----------------------------------------------------------------------------
(* Live rows and their bytes.  A live row's object can be lost, as the run   *)
(* MCUploadAbort shows: a tab that missed the answer to its complete calls   *)
(* abort, whose route drops the object before the database refuses to fail   *)
(* the row.  The theorem at the end says that, of a file only one tab sends, *)
(* a lost answer is the only way (with the orphan deletes of the reconcile   *)
(* off, as they are deployed).                                               *)

\* No two tabs work on one file: the engine mints an id per row, and only the same
\* file picked again in a second tab finds a remembered one.
OneTabPerFile == \A s, t \in Sessions : FileOf[s] = FileOf[t] => s = t

\* What a request's place in its route says about the route, and about the row when
\* it is the delete that has tombstoned it.
RouteAt ==
    \A r \in Reqs : req[r].pc # "idle" =>
        /\ req[r].pc \in {"list", "assemble", "head", "finalize", "enqueue"}
              => req[r].op = "complete"
        /\ req[r].op = "delete" =>
              /\ req[r].pc \in {"tombstone", "drop"}
              /\ req[r].pc = "drop" => state[req[r].file] = "deleted"

\* A running route is the one its file's tab waits for; nobody waits for a delete.
Served ==
    \A r \in Reqs : req[r].pc # "idle" /\ req[r].op # "delete" =>
        \E s \in Sessions :
            /\ session[s].slot = r
            /\ session[s].pc \in Waits
            /\ req[r].file = FileOf[s]
            /\ req[r].op = "complete" => session[s].pc = "completing"

\* The tab's complete is past ingest_finalize, or has answered that it was.
Finalized(s) ==
    /\ session[s].pc = "completing"
    /\ \/ req[session[s].slot].pc = "enqueue"
       \/ req[session[s].slot].pc = "idle" /\ req[session[s].slot].reply = "ok"

\* Once a row is live its tab is done, or about to be.
LiveIsDone ==
    \A s \in Sessions :
        state[FileOf[s]] \in HoldingBytes => session[s].pc = "done" \/ Finalized(s)

\* Between the HEAD and ingest_finalize nobody drops the object, unless the row can
\* no longer be finalized.
Verified ==
    \A r \in Reqs : req[r].pc = "finalize" /\ state[req[r].file] = "uploading"
        => object[req[r].file] # "none"

\* The inductive invariant of uploads whose answers all arrive.
Serial == RouteAt /\ Served /\ LiveIsDone /\ Verified /\ LiveRowHasBytes

\* A row that may still be finalized, or that is live.
Wanted == HoldingBytes \cup {"uploading"}

\* Steps between which no route runs: rows only leave the wanted states, and an
\* object goes only when its row is not, or no longer, in one of them.
Harmless ==
    /\ \A f \in Files : state'[f] \in HoldingBytes => state[f] \in HoldingBytes
    /\ \A f \in Files : state'[f] = "uploading" => state[f] = "uploading"
    /\ \A f \in Files : state[f] = "deleted" => state'[f] = "deleted"
    /\ \A f \in Files : object'[f] = "none" /\ state'[f] \in Wanted => object[f] = "none"

\* A harmless step keeps the whole invariant.
LEMMA HarmlessKeeps ==
    ASSUME Serial, TypeOK, RequestsOK, UNCHANGED <<req, session>>, Harmless
    PROVE  Serial'
<1>0. \A s \in Sessions : FileOf[s] \in Files
  BY UploadAssumption
<1>1. RouteAt'
  BY DEF Serial, RouteAt, RequestsOK, Harmless
<1>2. Served'
  BY DEF Serial, Served
<1>3. LiveIsDone'
  BY <1>0 DEF Serial, LiveIsDone, Finalized, Harmless
<1>4. Verified'
  BY DEF Serial, Verified, RequestsOK, Harmless, Wanted
<1>5. LiveRowHasBytes'
  BY DEF Serial, LiveRowHasBytes, Harmless, Wanted
<1>6. QED
  BY <1>1, <1>2, <1>3, <1>4, <1>5 DEF Serial

\* R2, the pipeline and the crons are harmless: what the crons delete is dead.
LEMMA EnvironmentHarmless ==
    ASSUME IInv, ~DeleteOrphans, [Next]_vars,
           \/ \E f \in Files : Browser(f) \/ ExpireUrls(f) \/ Age(f) \/ Pipeline(f)
           \/ Cron
    PROVE  Harmless
<1>0. TypeOK /\ RequestsOK
  BY DEF IInv, Typed
<1>1. \A f \in Files : state[f] = "deleted" => state'[f] = "deleted"
  BY <1>0, DeadRowsStay DEF SafeToAutoDelete, FS!SafeToAutoDelete
<1>2. ASSUME NEW g \in Files, NEW to \in States, SetState(g, FS!AnalysisMoves, to)
      PROVE  \A f \in Files :
                /\ state'[f] \in HoldingBytes => state[f] \in HoldingBytes
                /\ state'[f] = "uploading" => state[f] = "uploading"
  <2>1. /\ <<state[g], to>> \in FS!AnalysisMoves
        /\ state'[g] = to
        /\ \A f \in Files \ {g} : state'[f] = state[f]
    BY <1>0, <1>2, SetStateEffect DEF TypeOK
  <2>2. /\ to # "uploading"
        /\ to \in HoldingBytes => state[g] \in HoldingBytes
    BY <2>1 DEF FS!AnalysisMoves, FS!AnalysisBeginMoves, FS!PersistMoves,
       FS!AnalysisFailMoves, FS!RequeueMoves, HoldingBytes, FS!HoldingBytes
  <2>3. QED
    BY <2>1, <2>2
<1>3. ASSUME NEW g \in Files, Browser(g) \/ ExpireUrls(g) \/ Age(g) \/ Pipeline(g)
      PROVE  Harmless
  <2>1. \A f \in Files : /\ state'[f] \in HoldingBytes => state[f] \in HoldingBytes
                         /\ state'[f] = "uploading" => state[f] = "uploading"
    BY <1>2, <1>3, EnvironmentFrame
  <2>2. \A f \in Files : object'[f] = "none" => object[f] = "none"
    BY <1>0, <1>3 DEF Browser, PutObject, PutParts, ExpireUrls, Age, Pipeline, r2Vars,
       TypeOK
  <2>3. QED
    BY <1>1, <2>1, <2>2 DEF Harmless
<1>4. CASE Cron
  <2>1. \A f \in Files : /\ state'[f] \in HoldingBytes => state[f] \in HoldingBytes
                         /\ state'[f] = "uploading" => state[f] = "uploading"
    BY <1>4, CronFrame DEF SweepPage, HoldingBytes, FS!HoldingBytes
  <2>2. \A f \in Files :
            object'[f] = "none" => \/ object[f] = "none"
                                   \/ sweep[f] = "delete" \/ f \in recDel
    BY <1>0, <1>4 DEF Cron, Sweeper, SweepPage, SweepDie, SweepAbort, SweepDelete,
       Reconcile, SelectFiles, ListBucket, Compare, ReconcileDie, ReconcileDelete,
       r2Vars, TypeOK
  <2>3. \A f \in Files : sweep[f] = "delete" \/ f \in recDel
                            => state[f] \in SafeToAutoDelete
    BY DEF IInv, DeadInv, SweepOnlyDead, ReconcileOnlyDead, SafeToAutoDelete,
       FS!SafeToAutoDelete
  <2>4. \A f \in Files : sweep[f] = "delete" \/ f \in recDel => state'[f] \notin Wanted
    BY <1>0, <2>3, DeadRowsStay
       DEF SafeToAutoDelete, FS!SafeToAutoDelete, Wanted, HoldingBytes, FS!HoldingBytes
  <2>5. QED
    BY <1>1, <2>1, <2>2, <2>4 DEF Harmless
<1>5. QED
  BY <1>3, <1>4

-----------------------------------------------------------------------------
(* What one await of a route does to the row, the object and the request.  *)

\* Where the await leaves the request, by route.
LEMMA HandlerRoute ==
    ASSUME TypeOK, RequestsOK, RouteAt, NEW r \in Reqs, Handle(r), req'[r].pc # "idle"
    PROVE  /\ req'[r].pc \in {"list", "assemble", "head", "finalize", "enqueue"}
                 => req[r].op = "complete"
           /\ req[r].op = "delete" =>
                 req'[r].pc = "drop" /\ state'[req[r].file] = "deleted"
           /\ req'[r].pc = "finalize" =>
                 object'[req[r].file] # "none" /\ state'[req[r].file] = state[req[r].file]
<1>0. req \in [Reqs -> Requests]
  BY DEF TypeOK
<1>1. ASSUME NEW pc \in Pcs, Goto(r, pc)
      PROVE  req'[r].pc = pc
  BY <1>0, <1>1, GotoEffect
<1>2. ASSUME NEW o \in Replies, Respond(r, o)
      PROVE  FALSE
  BY <1>0, <1>2, RespondEffect
<1>3. CASE IngestBegin(r)
  <2>1. req[r].pc = "begin" /\ Goto(r, "job")
    BY <1>2, <1>3 DEF IngestBegin, At, Replies
  <2>2. QED
    BY <1>1, <2>1 DEF RouteAt, Pcs
<1>4. CASE LoadJob(r)
  <2>1. CASE state[req[r].file] = "none"
    BY <1>2, <1>4, <2>1 DEF LoadJob, Replies
  <2>2. CASE state[req[r].file] # "none"
    <3> DEFINE up == uploadId[req[r].file]
    <3>1. req' = [req EXCEPT ![r].pc = "file", ![r].up = up]
      BY <1>4, <2>2 DEF LoadJob
    <3> HIDE DEF up
    <3>2. req'[r].pc = "file"
      BY <1>0, <3>1 DEF Requests
    <3>3. QED
      BY <1>4, <3>2 DEF LoadJob, At, RouteAt
  <2>3. QED
    BY <2>1, <2>2
<1>5. CASE LoadFile(r)
  <2>1. /\ req[r].pc = "file"
        /\ \/ \E pc \in {"create", "mark", "abortUpload", "drop"} : Goto(r, pc)
           \/ req[r].op = "complete"
                /\ \E pc \in {"enqueue", "head", "list", "assemble"} : Goto(r, pc)
    BY <1>2, <1>5 DEF LoadFile, At, Replies
  <2>2. QED
    BY <1>1, <2>1 DEF RouteAt, Pcs
<1>6. CASE CreateUpload(r)
  <2>1. CASE \E u \in UploadIds : req' = [req EXCEPT ![r].pc = "mark", ![r].up = u]
    <3>1. req'[r].pc = "mark"
      BY <1>0, <2>1 DEF Requests
    <3>2. QED
      BY <1>6, <3>1 DEF CreateUpload, At, RouteAt
  <2>2. QED
    BY <1>2, <1>6, <2>1 DEF CreateUpload, Replies
<1>7. CASE MarkUploading(r)
  <2>1. req[r].pc = "mark" /\ Goto(r, "sign")
    BY <1>2, <1>7 DEF MarkUploading, At, Replies
  <2>2. QED
    BY <1>1, <2>1 DEF RouteAt, Pcs
<1>8. CASE SignParts(r) \/ Enqueue(r)
  BY <1>2, <1>8 DEF SignParts, Enqueue, Replies
<1>9. CASE ListParts(r) \/ Assemble(r)
  <2>1. /\ req[r].pc \in {"list", "assemble"}
        /\ \E pc \in {"assemble", "head"} : Goto(r, pc)
    BY <1>2, <1>9 DEF ListParts, Assemble, At, Replies
  <2>2. QED
    BY <1>1, <2>1 DEF RouteAt, Pcs
<1>10. CASE HeadObject(r)
  <2>1. /\ req[r].pc = "head" /\ UNCHANGED <<state, object>>
        /\ \/ Goto(r, "drop")
           \/ Goto(r, "finalize") /\ object[req[r].file] = "right"
    BY <1>10 DEF HeadObject, At, dbVars, r2Vars
  <2>2. QED
    BY <1>1, <2>1 DEF RouteAt, Pcs
<1>11. CASE IngestFinalize(r)
  <2>1. req[r].pc = "finalize" /\ Goto(r, "enqueue")
    BY <1>2, <1>11 DEF IngestFinalize, At, Replies
  <2>2. QED
    BY <1>1, <2>1 DEF RouteAt, Pcs
<1>12. CASE DropObject(r)
  <2>1. req[r].pc = "drop" /\ req[r].op # "delete" /\ Goto(r, "fail")
    BY <1>2, <1>12 DEF DropObject, At, Replies
  <2>2. QED
    BY <1>1, <2>1 DEF Pcs
<1>13. CASE IngestFail(r)
  BY <1>2, <1>13 DEF IngestFail, Replies
<1>14. CASE AbortUpload(r)
  <2>1. req[r].pc = "abortUpload" /\ Goto(r, "drop")
    BY <1>14 DEF AbortUpload, At
  <2>2. QED
    BY <1>1, <2>1 DEF RouteAt, Pcs
<1>15. CASE UploadDelete(r)
  <2>1. /\ req[r].pc = "tombstone" /\ Goto(r, "drop")
        /\ SetState(req[r].file, FS!DeleteMoves, "deleted")
    BY <1>2, <1>15 DEF UploadDelete, At, Replies
  <2>2. state'[req[r].file] = "deleted"
    BY <2>1 DEF SetState, TypeOK, RequestsOK
  <2>3. QED
    BY <1>1, <2>1, <2>2 DEF Pcs
<1>16. QED
  BY <1>3, <1>4, <1>5, <1>6, <1>7, <1>8, <1>9, <1>10, <1>11, <1>12, <1>13, <1>14, <1>15
     DEF Handle

\* Past ingest_finalize the route answers "ok".
LEMMA EnqueueAnswers ==
    ASSUME TypeOK, NEW r \in Reqs, Handle(r), req[r].pc = "enqueue"
    PROVE  req'[r].pc = "idle" /\ req'[r].reply = "ok"
<1>1. Enqueue(r)
  BY DEF Handle, IngestBegin, LoadJob, LoadFile, CreateUpload, MarkUploading, SignParts,
     ListParts, Assemble, HeadObject, IngestFinalize, Enqueue, DropObject,
     IngestFail, AbortUpload, UploadDelete, At
<1>2. QED
  BY <1>1, RespondEffect DEF Enqueue, TypeOK, Replies

\* Only ingest_finalize makes a row live, only marking makes it uploading, and only
\* the drop takes an object away; none of the three touches another file.
LEMMA HandlerBytes ==
    ASSUME TypeOK, RequestsOK, NEW r \in Reqs, Handle(r)
    PROVE  /\ \A f \in Files : f # req[r].file =>
                 state'[f] = state[f] /\ object'[f] = object[f]
           /\ state'[req[r].file] \in HoldingBytes =>
                 \/ state[req[r].file] \in HoldingBytes
                 \/ /\ req[r].pc = "finalize" /\ state[req[r].file] = "uploading"
                    /\ req'[r].pc = "enqueue" /\ object' = object
           /\ state'[req[r].file] = "uploading" =>
                 state[req[r].file] = "uploading" \/ req[r].pc = "mark"
           /\ object'[req[r].file] = "none" =>
                 object[req[r].file] = "none" \/ req[r].pc = "drop"
<1> DEFINE f == req[r].file
<1>0. /\ req \in [Reqs -> Requests] /\ state \in [Files -> States]
      /\ fresh \subseteq Files /\ object \in [Files -> ObjectKinds]
  BY DEF TypeOK
<1>1. f \in Files
  BY DEF Handle, IngestBegin, LoadJob, LoadFile, CreateUpload, MarkUploading, SignParts,
         ListParts, Assemble, HeadObject, IngestFinalize, Enqueue, DropObject,
         IngestFail, AbortUpload, UploadDelete, At, RequestsOK
<1> DEFINE Moved(to) == /\ state'[f] = to
                        /\ \A g \in Files \ {f} : state'[g] = state[g]
<1>2. ASSUME NEW to \in States, NEW moves, SetState(f, moves, to)
      PROVE  Moved(to) /\ <<state[f], to>> \in moves
  BY <1>0, <1>1, <1>2, SetStateEffect
<1>3. CASE IngestBegin(r)
  <2>1. (state' = state \/ Moved("pending")) /\ object' = object
    BY <1>2, <1>3 DEF IngestBegin, r2Vars, States, FS!States
  <2>2. QED
    BY <1>1, <2>1 DEF HoldingBytes, FS!HoldingBytes
<1>4. CASE MarkUploading(r)
  <2>1. /\ state' = state \/ Moved("uploading")
        /\ object' = object /\ req[r].pc = "mark"
    BY <1>2, <1>4 DEF MarkUploading, At, States, FS!States
  <2>2. QED
    BY <1>1, <2>1 DEF HoldingBytes, FS!HoldingBytes
<1>5. CASE IngestFinalize(r)
  <2>1. object' = object /\ req[r].pc = "finalize"
    BY <1>5 DEF IngestFinalize, At, r2Vars
  <2>2. CASE SetState(f, FS!FinalizeMoves, "received") /\ Goto(r, "enqueue")
    <3>1. Moved("received") /\ state[f] \in {"uploading", "received"}
      BY <1>2, <2>2 DEF States, FS!States, FS!FinalizeMoves
    <3>2. req'[r].pc = "enqueue"
      BY <1>0, <2>2, GotoEffect DEF Pcs
    <3>3. QED
      BY <1>1, <2>1, <3>1, <3>2 DEF HoldingBytes, FS!HoldingBytes
  <2>3. CASE state' = state
    BY <2>1, <2>3
  <2>4. QED
    BY <1>5, <2>2, <2>3 DEF IngestFinalize
<1>6. CASE IngestFail(r)
  <2>1. (state' = state \/ Moved("failed")) /\ object' = object
    BY <1>2, <1>6 DEF IngestFail, r2Vars, States, FS!States
  <2>2. QED
    BY <1>1, <2>1 DEF HoldingBytes, FS!HoldingBytes
<1>7. CASE UploadDelete(r)
  <2>1. (state' = state \/ Moved("deleted")) /\ object' = object
    BY <1>2, <1>7 DEF UploadDelete, r2Vars, States, FS!States
  <2>2. QED
    BY <1>1, <2>1 DEF HoldingBytes, FS!HoldingBytes
<1>8. CASE DropObject(r)
  <2>1. state' = state /\ req[r].pc = "drop"
    BY <1>8 DEF DropObject, At, dbVars
  <2>2. \A g \in Files : g # f => object'[g] = object[g]
    BY <1>0, <1>8 DEF DropObject
  <2>3. QED
    BY <2>1, <2>2
<1>9. CASE Assemble(r)
  <2>1. state' = state
    BY <1>9 DEF Assemble, dbVars
  <2>2. /\ \A g \in Files : g # f => object'[g] = object[g]
        /\ object'[f] = "none" => object[f] = "none"
    BY <1>0, <1>1, <1>9 DEF Assemble
  <2>3. QED
    BY <2>1, <2>2
<1>10. CASE \/ LoadJob(r) \/ LoadFile(r) \/ CreateUpload(r) \/ SignParts(r)
            \/ ListParts(r) \/ HeadObject(r) \/ Enqueue(r) \/ AbortUpload(r)
  <2>1. UNCHANGED <<state, object>>
    BY <1>10 DEF LoadJob, LoadFile, CreateUpload, SignParts, ListParts, HeadObject,
       Enqueue, AbortUpload, dbVars, r2Vars
  <2>2. QED
    BY <2>1
<1>11. QED
  BY <1>3, <1>4, <1>5, <1>6, <1>7, <1>8, <1>9, <1>10 DEF Handle

-----------------------------------------------------------------------------
(* Serial is inductive when answers are not lost.                          *)

\* A request some tab other than s waits for is not the one s waits for.
LEMMA SlotsDiffer ==
    ASSUME UploadTypeOK, OneWaiter, NEW s \in Sessions, NEW t \in Sessions, s # t,
           session[t].pc \in Waits
    PROVE  session[s].slot # session[t].slot
BY DEF UploadTypeOK, OneWaiter

\* An await of a route keeps the invariant.
LEMMA HandleKeepsSerial ==
    ASSUME OneTabPerFile, Serial, TypeOK, RequestsOK, TabInv, [Next]_vars,
           NEW r \in Reqs, Handle(r), UNCHANGED session
    PROVE  Serial'
<1> DEFINE f == req[r].file
<1>0. req[r].pc # "idle" /\ \A s \in Sessions : FileOf[s] \in Files
  BY UploadAssumption DEF Handle, IngestBegin, LoadJob, LoadFile, CreateUpload,
     MarkUploading, SignParts, ListParts, Assemble, HeadObject, IngestFinalize, Enqueue,
     DropObject, IngestFail, AbortUpload, UploadDelete, At
<1>1. /\ f \in Files
      /\ \A q \in Reqs \ {r} : req'[q] = req[q]
      /\ req'[r].pc = "idle" \/ (req'[r].file = f /\ req'[r].op = req[r].op)
  BY HandlerRequest
<1>2. /\ RouteAt /\ Served /\ LiveIsDone /\ Verified /\ LiveRowHasBytes
      /\ UploadTypeOK /\ OneWaiter
  BY DEF Serial, TabInv
<1>3. \A q \in Reqs : req[q].pc # "idle" => req[q].file \in Files
  BY DEF RequestsOK
<1>4. \A g \in Files : state[g] = "deleted" => state'[g] = "deleted"
  BY DeadRowsStay DEF SafeToAutoDelete, FS!SafeToAutoDelete
<1>5. \A s \in Sessions : session[s].pc \in Waits => session[s].slot \in Reqs
  BY <1>2 DEF UploadTypeOK
\* If r is not a delete, its tab waits for it and for nothing else.
<1>6. ASSUME req[r].op # "delete", NEW s \in Sessions, FileOf[s] = f
      PROVE  /\ session[s].slot = r /\ session[s].pc \in Waits
             /\ req[r].op = "complete" => session[s].pc = "completing"
  BY <1>0, <1>2, <1>6 DEF Served, OneTabPerFile
<1>7. RouteAt'
  BY <1>1, <1>2, <1>3, <1>4, HandlerRoute DEF RouteAt
<1>8. Served'
  BY <1>0, <1>1, <1>2 DEF Served
<1>9. LiveIsDone'
  <2> SUFFICES ASSUME NEW s \in Sessions, state'[FileOf[s]] \in HoldingBytes
               PROVE  session[s].pc = "done" \/ Finalized(s)'
    BY DEF LiveIsDone
  <2>1. CASE state[FileOf[s]] \in HoldingBytes
    <3>1. session[s].pc = "done" \/ Finalized(s)
      BY <1>2, <2>1 DEF LiveIsDone
    <3>2. CASE Finalized(s)
      <4>1. session[s].pc = "completing" /\ session[s].slot \in Reqs
        BY <1>5, <3>2 DEF Finalized, Waits
      <4>2. CASE session[s].slot = r
        BY <1>0, <3>2, <4>1, <4>2, EnqueueAnswers DEF Finalized
      <4>3. CASE session[s].slot # r
        BY <1>1, <3>2, <4>1, <4>3 DEF Finalized
      <4>4. QED
        BY <4>2, <4>3
    <3>3. QED
      BY <3>1, <3>2
  <2>2. CASE state[FileOf[s]] \notin HoldingBytes
    <3>1. FileOf[s] = f /\ req[r].pc = "finalize" /\ req'[r].pc = "enqueue"
      BY <1>0, <2>2, HandlerBytes
    <3>2. req[r].op = "complete"
      BY <1>0, <1>2, <3>1 DEF RouteAt
    <3>3. QED
      BY <1>6, <3>1, <3>2 DEF Finalized
  <2>3. QED
    BY <2>1, <2>2
<1>10. Verified'
  <2> SUFFICES ASSUME NEW q \in Reqs, req'[q].pc = "finalize",
                      state'[req'[q].file] = "uploading"
               PROVE  object'[req'[q].file] # "none"
    BY DEF Verified
  <2>1. CASE q = r
    BY <1>1, <1>2, <2>1, HandlerRoute
  <2>2. CASE q # r
    <3> DEFINE g == req[q].file
    <3>1. req'[q] = req[q] /\ g \in Files /\ req[q].op = "complete"
      BY <1>1, <1>2, <1>3, <2>2 DEF RouteAt
    <3>2. CASE g # f
      BY <1>1, <1>2, <3>1, <3>2, HandlerBytes DEF Verified
    <3>3. CASE g = f
      <4>1. req[r].op = "delete"
        BY <1>2, <1>6, <2>2, <3>1, <3>3 DEF Served
      <4>2. CASE req[r].pc = "drop"
        BY <1>0, <1>2, <1>4, <1>1, <3>1, <3>3, <4>1, <4>2 DEF RouteAt
      <4>3. CASE req[r].pc = "tombstone"
        BY <1>2, <3>1, <3>3, <4>3, HandlerBytes DEF Verified
      <4>4. QED
        BY <1>0, <1>2, <4>1, <4>2, <4>3 DEF RouteAt
    <3>4. QED
      BY <3>2, <3>3
  <2>3. QED
    BY <2>1, <2>2
<1>11. LiveRowHasBytes'
  <2> SUFFICES ASSUME NEW g \in Files, state'[g] \in HoldingBytes, object'[g] = "none"
               PROVE  FALSE
    BY DEF LiveRowHasBytes
  <2>1. CASE state[g] \in HoldingBytes
    <3>1. object[g] # "none"
      BY <1>2, <2>1 DEF LiveRowHasBytes
    <3>2. g = f /\ req[r].pc = "drop"
      BY <3>1, HandlerBytes
    <3>3. req[r].op # "delete"
      BY <1>0, <1>2, <2>1, <3>2 DEF RouteAt, HoldingBytes, FS!HoldingBytes
    <3>4. PICK s \in Sessions : session[s].slot = r /\ session[s].pc \in Waits
                                /\ f = FileOf[s]
      BY <1>0, <1>2, <3>3 DEF Served
    <3>5. Finalized(s)
      BY <1>2, <2>1, <3>2, <3>4 DEF LiveIsDone, Waits
    <3>6. QED
      BY <3>2, <3>4, <3>5 DEF Finalized
  <2>2. CASE state[g] \notin HoldingBytes
    <3>1. /\ g = f /\ req[r].pc = "finalize" /\ state[f] = "uploading"
          /\ object' = object
      BY <2>2, HandlerBytes
    <3>2. QED
      BY <1>2, <3>1 DEF Verified
  <2>3. QED
    BY <2>1, <2>2
<1>12. QED
  BY <1>7, <1>8, <1>9, <1>10, <1>11 DEF Serial

\* So does an await that throws: the two that could hurt never do.
LEMMA ThrowKeepsSerial ==
    ASSUME Serial, TypeOK, RequestsOK, TabInv, NEW r \in Reqs, Throw(r),
           UNCHANGED session
    PROVE  Serial'
<1>1. /\ UNCHANGED <<state, object>>
      /\ \A q \in Reqs \ {r} : req'[q] = req[q]
      /\ req[r].pc \notin {"idle", "enqueue"} /\ req'[r].pc = "idle"
  BY CallersFrame, CallerRequest, CallerReply
     DEF Throw, Die, At, dbVars, r2Vars, TabInv
<1>2. \A s \in Sessions : session[s].pc \in Waits => session[s].slot \in Reqs
  BY DEF TabInv, UploadTypeOK
<1>3. RouteAt' /\ Served' /\ Verified' /\ LiveRowHasBytes'
  BY <1>1 DEF Serial, RouteAt, Served, Verified, LiveRowHasBytes
<1>4. LiveIsDone'
  BY <1>1, <1>2 DEF Serial, LiveIsDone, Finalized, Waits
<1>5. QED
  BY <1>3, <1>4 DEF Serial

\* A request that starts in a slot nobody waits for, called by a tab that waits for
\* none, or a delete.
LEMMA RequestKeepsSerial ==
    ASSUME Serial, TypeOK, RequestsOK, UploadTypeOK, NEW r \in Reqs, NEW op \in AllOps,
           NEW f \in Files, ~Awaited(r), Request(r, op, f),
           \/ op = "delete" /\ UNCHANGED session
           \/ /\ op # "delete"
              /\ \E s \in Sessions, pc \in Waits :
                    /\ f = FileOf[s]
                    /\ session[s].pc \in Steps
                    /\ session' = [session EXCEPT ![s] = [pc |-> pc, slot |-> r]]
                    /\ op = "complete" => pc = "completing"
    PROVE  Serial'
<1>1. /\ UNCHANGED <<state, object>>
      /\ \A q \in Reqs \ {r} : req'[q] = req[q]
      /\ req'[r].op = op /\ req'[r].file = f /\ req'[r].pc = FirstPc(op)
      /\ req[r].pc = "idle"
  BY DEF Request, At, dbVars, r2Vars, TypeOK
<1>2. /\ FirstPc(op) \in {"begin", "job", "tombstone"}
      /\ op = "delete" => FirstPc(op) = "tombstone"
  BY DEF FirstPc
<1>3. \A s \in Sessions : session[s].pc \in Waits => session[s].slot \in Reqs \ {r}
  BY DEF UploadTypeOK, Awaited
<1>4. RouteAt' /\ Verified' /\ LiveRowHasBytes'
  BY <1>1, <1>2 DEF Serial, RouteAt, Verified, LiveRowHasBytes
<1>5. CASE op = "delete" /\ UNCHANGED session
  <2>1. Served'
    BY <1>1, <1>5 DEF Serial, Served
  <2>2. LiveIsDone'
    BY <1>1, <1>3, <1>5 DEF Serial, LiveIsDone, Finalized, Waits
  <2>3. QED
    BY <1>4, <2>1, <2>2 DEF Serial
<1>6. ASSUME NEW s \in Sessions, NEW pc \in Waits,
             f = FileOf[s], session[s].pc \in Steps,
             session' = [session EXCEPT ![s] = [pc |-> pc, slot |-> r]],
             op = "complete" => pc = "completing"
      PROVE  Serial'
  <2>1. /\ session'[s].pc = pc /\ session'[s].slot = r
        /\ \A t \in Sessions \ {s} : session'[t] = session[t]
        /\ session[s].pc \notin Waits \cup {"done"}
    BY <1>6 DEF UploadTypeOK, Steps, Waits
  <2>2. Served'
    BY <1>1, <1>6, <2>1 DEF Serial, Served
  <2>3. LiveIsDone'
    BY <1>1, <1>3, <2>1 DEF Serial, LiveIsDone, Finalized, Waits
  <2>4. QED
    BY <1>4, <2>2, <2>3 DEF Serial
<1>7. QED
  BY <1>5, <1>6

\* A tab that moves on alone: it waited for nothing, or had its answer, and a
\* finalized upload moves on to done.
LEMMA MoveKeepsSerial ==
    ASSUME Serial, TypeOK, RequestsOK, UploadTypeOK, NEW s \in Sessions,
           NEW pc \in (Resting \cup Steps) \ Waits, Move(s, pc), UNCHANGED <<req, state>>,
           session[s].pc \in Waits => req[session[s].slot].pc = "idle",
           session[s].pc = "done" \/ Finalized(s) => pc = "done",
           \A f \in Files : object'[f] = "none" => object[f] = "none"
    PROVE  Serial'
<1>1. /\ session'[s].pc = pc /\ session'[s].slot = NoReq
      /\ \A t \in Sessions \ {s} : session'[t] = session[t]
  BY MoveEffect
<1>2. RouteAt' /\ Verified' /\ LiveRowHasBytes'
  BY DEF Serial, RouteAt, Verified, LiveRowHasBytes, RequestsOK
<1>3. Served'
  BY <1>1 DEF Serial, Served
<1>4. LiveIsDone'
  BY <1>1 DEF Serial, LiveIsDone, Finalized
<1>5. QED
  BY <1>2, <1>3, <1>4 DEF Serial

\* Every step of a tab keeps the invariant, when no answer is lost.
LEMMA TabKeepsSerial ==
    ASSUME ~LoseReplies, Serial, TypeOK, RequestsOK, UploadTypeOK,
           NEW s \in Sessions, Tab(s)
    PROVE  Serial'
<1>0. FileOf[s] \in Files /\ object \in [Files -> ObjectKinds]
  BY UploadAssumption DEF TypeOK
<1>1. ASSUME NEW op \in AllOps \ {"delete"}, NEW pc \in Waits, Call(s, op, pc),
             session[s].pc \in Steps, op = "complete" => pc = "completing"
      PROVE  Serial'
  BY <1>0, <1>1, RequestKeepsSerial DEF Call
<1>2. CASE \/ Presign(s) \/ Represign(s) \/ AskParts(s) \/ Complete(s) \/ Discard(s)
  BY <1>1, <1>2 DEF Presign, Represign, AskParts, Complete, Discard, AllOps, Waits,
     Steps, In
<1>3. ASSUME NEW pc \in (Resting \cup Steps) \ Waits, Move(s, pc),
             UNCHANGED <<req, state>>, session[s].pc \notin Waits \cup {"done"},
             \A f \in Files : object'[f] = "none" => object[f] = "none"
      PROVE  Serial'
  BY <1>3, MoveKeepsSerial DEF Finalized, Waits
<1>4. CASE \/ Resume(s) \/ Interrupt(s) \/ FailTransfer(s) \/ Reopen(s) \/ Retry(s)
  <2>1. UNCHANGED <<req, state, object>>
    BY <1>4 DEF Resume, Interrupt, FailTransfer, Reopen, Retry, vars, dbVars, r2Vars
  <2>2. \E pc \in {"ready", "paused", "discarding", "transferred", "askParts"} :
           Move(s, pc)
    BY <1>4 DEF Resume, Interrupt, FailTransfer, Reopen, Retry
  <2>3. session[s].pc \notin Waits \cup {"done"}
    BY <1>4 DEF Resume, Interrupt, FailTransfer, Reopen, Retry, In, Steps, Waits
  <2>4. QED
    BY <1>3, <2>1, <2>2, <2>3 DEF Resting, Steps, Waits
<1>5. CASE Put(s) \/ SendParts(s)
  <2>1. /\ Move(s, "transferred") /\ UNCHANGED <<req, state>>
        /\ session[s].pc \notin Waits \cup {"done"}
    BY <1>5 DEF Put, SendParts, PutObject, PutParts, vars, dbVars, In, Waits
  <2>2. \A f \in Files : object'[f] = "none" => object[f] = "none"
    BY <1>0, <1>5 DEF Put, SendParts, PutObject, PutParts, vars, r2Vars
  <2>3. QED
    BY <1>3, <2>1, <2>2 DEF Resting, Steps, Waits
<1>6. CASE Answer(s)
  <2> DEFINE q  == req[session[s].slot]
             pc == After(session[s].pc, q.reply, FileOf[s])
  <2>1. /\ session[s].pc \in Waits /\ q.pc = "idle"
        /\ Move(s, pc) /\ UNCHANGED <<req, state, object>>
    BY <1>6 DEF Answer, In, At, vars, dbVars, r2Vars
  <2>2. pc \in (Resting \cup Steps) \ Waits
    BY <2>1, AfterAnswer
  <2>3. session[s].pc = "done" \/ Finalized(s) => pc = "done"
    BY <2>1 DEF Finalized, After, Waits
  <2> HIDE DEF pc
  <2>4. QED
    BY <2>1, <2>2, <2>3, MoveKeepsSerial
<1>7. ~LoseReply(s)
  BY DEF LoseReply
<1>8. QED
  BY <1>2, <1>4, <1>5, <1>6, <1>7 DEF Tab

\* Serial is inductive relative to the invariants of the routes and of the tabs.
LEMMA SerialInductive ==
    ASSUME ~LoseReplies, ~DeleteOrphans, OneTabPerFile
    PROVE  Serial /\ IInv /\ TabInv /\ [UNext]_uvars => Serial'
<1> SUFFICES ASSUME Serial, IInv, TabInv, [UNext]_uvars
             PROVE  Serial'
  OBVIOUS
<1>0. TypeOK /\ RequestsOK /\ UploadTypeOK /\ [Next]_vars
  BY StepIsIngestStep DEF IInv, Typed, TabInv
<1>1. ASSUME NEW s \in Sessions, Tab(s)
      PROVE  Serial'
  BY <1>0, <1>1, TabKeepsSerial
<1>2. ASSUME NEW f \in Files, DeleteTrack(f)
      PROVE  Serial'
  BY <1>0, <1>2, RequestKeepsSerial DEF DeleteTrack, AllOps
<1>3. ASSUME NEW r \in Reqs, Handle(r), UNCHANGED session
      PROVE  Serial'
  BY <1>0, <1>3, HandleKeepsSerial
<1>4. ASSUME NEW r \in Reqs, Throw(r), UNCHANGED session
      PROVE  Serial'
  BY <1>0, <1>4, ThrowKeepsSerial
<1>5. CASE /\ \/ \E f \in Files : Browser(f) \/ ExpireUrls(f) \/ Age(f) \/ Pipeline(f)
              \/ Cron
           /\ UNCHANGED session
  <2>1. UNCHANGED req
    BY <1>5, EnvironmentFrame, CronFrame
  <2>2. QED
    BY <1>0, <1>5, <2>1, EnvironmentHarmless, HarmlessKeeps
<1>6. CASE UNCHANGED uvars
  <2>1. Harmless /\ UNCHANGED <<req, session>>
    BY <1>6 DEF uvars, vars, dbVars, r2Vars, Harmless
  <2>2. QED
    BY <1>0, <2>1, HarmlessKeeps
<1>7. QED
  BY <1>1, <1>2, <1>3, <1>4, <1>5, <1>6 DEF UNext

\* A live row has its object in R2, for any number of tabs, requests and files: with
\* the orphan deletes off and a tab per file, only an answer the browser never saw
\* can cost the pool a verified track (delete.ts, on its order of operations).
THEOREM LiveRowsHaveBytes ==
    ASSUME ~LoseReplies, ~DeleteOrphans, OneTabPerFile
    PROVE  USpec => []LiveRowHasBytes
<1>1. UInit => Serial
  BY UploadAssumption
     DEF UInit, Init, Idle, Serial, RouteAt, Served, LiveIsDone, Verified,
         LiveRowHasBytes, HoldingBytes, FS!HoldingBytes
<1>2. USpec => []IInv
  BY UploadRefinesIngest, IngestInvariant, PTL
<1>3. Serial /\ IInv /\ TabInv /\ [UNext]_uvars => Serial'
  BY SerialInductive
<1>4. Serial => LiveRowHasBytes
  BY DEF Serial
<1>5. QED
  BY <1>1, <1>2, <1>3, <1>4, UploadInvariant, PTL DEF USpec

=============================================================================
