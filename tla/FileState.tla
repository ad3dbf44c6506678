------------------------------ MODULE FileState ------------------------------
(***************************************************************************)
(* The life of one row of public.files, as the set of moves the database   *)
(* functions can make.  Every function that changes files.state does it    *)
(* with one conditional UPDATE ("... where state = any (p_from)"), so a    *)
(* move is atomic and the table below is the whole state machine.          *)
(*                                                                         *)
(* This is the specification the concrete modules implement: Ingest (the   *)
(* upload routes and the cron) and Analysis (the queue consumer) each show *)
(* that their steps are moves of this machine.                             *)
(***************************************************************************)
EXTENDS Naturals, FiniteSets

CONSTANT Files          \* file ids; the browser mints them, ingest_begin rows them

VARIABLE state          \* files.state per file id; "none" before ingest_begin

\* The values files_state_check allows, and "none" for "no row".
States == {"none", "pending", "uploading", "received", "analysing", "stored",
           "needs_review", "rejected_duration", "rejected_redundant",
           "quarantined", "failed", "abandoned", "deleted"}

\* ingest_mark_uploading, ingest_abandon_stale and ingest_fail all start here.
InFlight == {"pending", "uploading"}

\* states_holding_bytes(), and reconcile.ts's copy of it.
HoldingBytes == {"received", "analysing", "stored", "needs_review"}

\* reconcile.ts: the states whose surviving object the cron may erase.
SafeToAutoDelete == {"failed", "abandoned", "deleted"}

-----------------------------------------------------------------------------
\* Mutant: finalize takes back a row the sweeper has abandoned.
FinalizeMovesFromDead == {"uploading", "received", "abandoned"} \X {"received"}

\* One set of moves per database function: <<from, to>> for each accepted source.

BeginMoves         == {<<"none", "pending">>}
MarkUploadingMoves == InFlight \X {"uploading"}
FinalizeMoves      == {"uploading", "received"} \X {"received"}
FailMoves          == {"pending", "uploading", "failed"} \X {"failed"}
AbandonMoves       == InFlight \X {"abandoned"}
AnalysisBeginMoves == {"received", "analysing"} \X {"analysing"}
PersistMoves       == {"received", "analysing", "stored"} \X {"stored"}
AnalysisFailMoves  == {"received", "analysing", "failed"} \X {"failed"}
RequeueMoves       == {<<"stored", "received">>}
DeleteMoves        == {<<"stored", "deleted">>}

AnalysisMoves == AnalysisBeginMoves \cup PersistMoves \cup AnalysisFailMoves
                   \cup RequeueMoves

Moves == BeginMoves \cup MarkUploadingMoves \cup FinalizeMoves \cup FailMoves
           \cup AbandonMoves \cup AnalysisMoves \cup DeleteMoves

-----------------------------------------------------------------------------
Init == state = [f \in Files |-> "none"]

\* The sweeper moves a whole page of rows in one statement, so a step may move
\* several files, each by a legal move.
Next ==
    /\ state' \in [Files -> States]
    /\ \A f \in Files : state'[f] = state[f] \/ <<state[f], state'[f]>> \in Moves

Spec == Init /\ [][Next]_state

TypeOK == state \in [Files -> States]

-----------------------------------------------------------------------------
\* A row in failed, abandoned or deleted stays there: nothing revives it, which
\* is what makes it safe for the sweeper and the reconcile to erase its object
\* (sweep() in workers/maintenance/src/index.ts, STATES_SAFE_TO_AUTO_DELETE).
DeadStaysDead ==
    [][\A f \in Files : state[f] \in SafeToAutoDelete => state'[f] = state[f]]_state

\* A row starts to hold bytes only by ingest_finalize, from uploading: no other
\* function can make an unverified upload visible to the pool.
LiveOnlyByFinalize ==
    [][\A f \in Files :
          state[f] \notin HoldingBytes /\ state'[f] \in HoldingBytes
             => <<state[f], state'[f]>> \in FinalizeMoves]_state
=============================================================================
