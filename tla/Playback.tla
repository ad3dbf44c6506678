------------------------------ MODULE Playback ------------------------------
(***************************************************************************)
(* The player of one page (src/scripts/site.ts): one reducer, one rendered *)
(* queue, one audio element and the requests in flight between them.       *)
(*                                                                         *)
(* Every handler of the page runs to its end before another starts; what   *)
(* interleaves are the answers of the requests it sent (tail candidates,   *)
(* track sources, a refreshed source, the next track fetched ahead, the    *)
(* resumed track), the events of the audio element, the member's clicks    *)
(* and the page's reloads.  Each request in flight is a variable here, and *)
(* its answer an action that sees the state as it is THEN.                 *)
(***************************************************************************)
EXTENDS QueueEngine

CONSTANTS
    Methods,     \* the auto methods a member may choose, "off" among them
    Lists,       \* what a page plays or adds: a row alone, a list, a crate
    MaxEvents,   \* bound: clicks, audio failures and reloads of a behaviour
    MaxFlight    \* bound: requests of one kind in flight for one file

VARIABLES
    st,          \* the queue state (queue-store.ts)
    rendered,    \* renderedQueue: the queue the drawer shows
    regenSeq,    \* the ticket of the newest regeneration
    tickets,     \* regenerations in flight: their ticket and the state they read
    deferred,    \* queueNeedsHydration
    claimed,     \* currentFileId: the file the transport answers for
    audio,       \* the audio element: the file in its src, and whether it plays
    starts,      \* startCurrent's requests in flight, per file
    refresh,     \* refreshSource's request in flight: its file, its caller
                 \* and whether it plays when it lands
    lookahead,   \* lookaheadId, and whether lookaheadSource is there
    prefetches,  \* files whose source is being fetched ahead
    resuming,    \* restorePlayer under way: its file, and whether the answer has
                 \* come and only its body is awaited
    queueMem,    \* localStorage: the queue
    playerMem,   \* localStorage: the file of the player
    events,      \* events so far (bound)
    overtaken,   \* history: a resume replaced a state a regeneration had read,
                 \* and neither an event nor another answer has made up for it
    crossed      \* history: since the last start that landed, one failed or a
                 \* refreshed source of another file was put in its place

vars == <<st, rendered, regenSeq, tickets, deferred, claimed, audio, starts,
          refresh, lookahead, prefetches, resuming, queueMem, playerMem,
          events, overtaken, crossed>>
tailVars   == <<regenSeq, tickets, deferred, overtaken>>
queueVars  == <<st, rendered, tailVars, queueMem>>
sourceVars == <<claimed, audio, starts, refresh, crossed>>
aheadVars  == <<lookahead, prefetches>>
memVars    == <<resuming, playerMem>>

\* What localStorage may hold of the queue, or the page.
States == [current : Entries \cup {Nothing}, intent : Seq(Entries), method : Methods,
           history : Seq(Tokens), failed : Seq(Tokens), suppressed : Seq(Tokens)]

ASSUME PlaybackAssumption ==
    "off" \in Methods /\ Lists \subseteq Seq(Files) /\ Nothing \notin States

NoAhead == [file |-> Nothing, ready |-> FALSE]
NoRefresh == [file |-> Nothing, by |-> "nobody", play |-> FALSE]
NoResume == [file |-> Nothing, body |-> FALSE]

Init ==
    /\ st = EmptyState /\ rendered = <<>>
    /\ regenSeq = 0 /\ tickets = {} /\ deferred = FALSE
    /\ claimed = Nothing /\ audio = [src |-> Nothing, on |-> FALSE]
    /\ starts = [f \in Files |-> 0]
    /\ refresh = NoRefresh
    /\ lookahead = NoAhead /\ prefetches = {}
    /\ resuming = NoResume /\ queueMem = Nothing /\ playerMem = Nothing
    /\ events = 0 /\ overtaken = FALSE /\ crossed = FALSE

Event == events < MaxEvents /\ events' = events + 1

\* savePlayerMemory: what is remembered once it has run.
SavePlayerMemory == IF claimed = Nothing THEN playerMem ELSE claimed

(***************************************************************************)
(* The queue: apply, hydrateTail.                                          *)
(***************************************************************************)

\* setRenderedQueue forgets a track fetched ahead that is no longer next.
KeptAhead(queue) ==
    IF Len(queue) > 1 /\ queue[2].file = lookahead.file THEN lookahead ELSE NoAhead

\* A regeneration with no tail to compute answers before any other task.
Settled(s) == s.method = "off" \/ Need(s) = 0

\* hydrateTail, of the state s and the queue shown so far.
Hydrate(s, queue) ==
    /\ regenSeq' = regenSeq + 1
    /\ IF Settled(s)
       THEN tickets' = tickets /\ rendered' = AssembleQueue(s, <<>>)
       ELSE tickets' = tickets \cup {[seq |-> regenSeq', st |-> s]} /\ rendered' = queue

\* Mutant: the queue is saved before the event is reduced.
ApplySavesFirst(e) ==
    /\ st' = Reduce(st, e)
    /\ queueMem' = Serialized(st)
    /\ Hydrate(st', AssembleQueue(st', AutoTail(rendered)))
    /\ overtaken' = FALSE

\* apply: reduce, save, re-assemble, and regenerate.
Apply(e) ==
    /\ st' = Reduce(st, e)
    /\ queueMem' = Serialized(st')
    /\ Hydrate(st', AssembleQueue(st', AutoTail(rendered)))
    /\ overtaken' = FALSE

\* The lookahead once apply has shown both its queues.
AheadAfter == IF KeptAhead(AssembleQueue(st', AutoTail(rendered))) = lookahead
              THEN KeptAhead(rendered') ELSE NoAhead

\* startCurrent: the source fetched ahead when it is still there, else a request.
StartCurrent(file, element, cross) ==
    LET shown == KeptAhead(AssembleQueue(st', AutoTail(rendered)))
    IN  IF shown.file = file /\ shown.ready
        THEN /\ audio' = [src |-> file, on |-> TRUE]
             /\ lookahead' = NoAhead /\ crossed' = FALSE
             /\ playerMem' = claimed' /\ UNCHANGED starts
        ELSE /\ starts' = [starts EXCEPT ![file] = @ + 1]
             /\ starts'[file] <= MaxFlight
             /\ lookahead' = AheadAfter
             /\ audio' = element /\ crossed' = cross
             /\ UNCHANGED playerMem

\* handleAdvance: apply, then stop, stay, or claim and start what is current.
\* `element` and `cross` are what the handler left of audio and crossed.
HandleAdvance(e, element, cross) ==
    /\ Apply(e)
    /\ IF st'.current = Nothing
       THEN /\ claimed' = Nothing /\ lookahead' = NoAhead /\ playerMem' = Nothing
            /\ audio' = element /\ crossed' = cross /\ UNCHANGED starts
       ELSE IF st.current # Nothing /\ st.current.file = st'.current.file
       THEN /\ lookahead' = AheadAfter
            /\ audio' = element /\ crossed' = cross
            /\ UNCHANGED <<claimed, starts, playerMem>>
       ELSE claimed' = st'.current.file /\ StartCurrent(claimed', element, cross)
    /\ UNCHANGED <<deferred, prefetches, resuming>>

\* An event that leaves the transport alone.
JustApply(e) ==
    /\ Apply(e)
    /\ lookahead' = AheadAfter
    /\ UNCHANGED <<deferred, sourceVars, prefetches, memVars>>

\* Mutant: a superseded answer is shown.
HydrationLandsAnyway(t) ==
    /\ tickets' = tickets \ {t}
    /\ \E answered \in BOOLEAN : rendered' \in Regenerated(t.st, answered)
    /\ lookahead' = KeptAhead(rendered')
    /\ UNCHANGED <<st, regenSeq, deferred, overtaken, queueMem, sourceVars,
                   prefetches, memVars, events>>

\* A regeneration answers; a superseded answer is discarded.
HydrationLands(t) ==
    /\ tickets' = tickets \ {t}
    /\ IF t.seq # regenSeq
       THEN UNCHANGED <<rendered, lookahead, overtaken>>
       ELSE /\ \E answered \in BOOLEAN : rendered' \in Regenerated(t.st, answered)
            /\ lookahead' = KeptAhead(rendered')
            /\ overtaken' = (overtaken /\ t.st # st)
    /\ UNCHANGED <<st, regenSeq, deferred, queueMem, sourceVars,
                   prefetches, memVars, events>>

(***************************************************************************)
(* What the member does.                                                   *)
(***************************************************************************)

Entered(list, origin) == [i \in DOMAIN list |-> QueueEntry(list[i], origin)]

\* Playing a row or a crate replaces the queue (the member confirms first
\* when there are pins), claims the file and starts it.
Play(e) ==
    /\ Event
    /\ Apply(e)
    /\ claimed' = IF st'.current = Nothing THEN claimed ELSE st'.current.file
    /\ StartCurrent(claimed', audio, crossed)
    /\ UNCHANGED <<deferred, refresh, prefetches, resuming>>

PlayRow(list, file) ==
    Play([type |-> "PLAY_TRACK", file |-> file, list |-> Entered(list, "pin")])

\* An empty crate plays nothing.
PlayCrate(list) ==
    list # <<>> /\ Play([type |-> "PLAY_CRATE", list |-> Entered(list, "pin")])

\* A row's or a crate's ADD; a crate's tracks are fetched before apply runs.
Add(list) ==
    Event /\ JustApply([type |-> "ADD_TO_QUEUE", list |-> Entered(list, "pin")])

Skip ==
    /\ Event /\ st.current # Nothing
    /\ HandleAdvance([type |-> "SKIP", queue |-> rendered], audio, crossed)
    /\ UNCHANGED refresh

\* The rows of the drawer carry positions of the queue it shows; the row
\* that plays is disabled and has no control of its own.
Rows == {i \in 0 .. Len(rendered) - 1 : i >= FirstAddressable(st)}

Select(i) ==
    /\ Event
    /\ HandleAdvance([type |-> "SELECT_QUEUE_ENTRY", index |-> i, queue |-> rendered],
                     audio, crossed)
    /\ UNCHANGED refresh

RemoveRow(i) ==
    Event /\ JustApply([type |-> "REMOVE_QUEUE_ENTRY", index |-> i, queue |-> rendered])

\* A grip dragged, or moved with an arrow key: pinned rows only.
Move(i, to) ==
    /\ Event
    /\ rendered[i + 1].file \in FilesOf(st.intent)
    /\ JustApply([type |-> "MOVE_QUEUE_ENTRY", index |-> i, to |-> to, queue |-> rendered])

SetMethod(m) == Event /\ JustApply([type |-> "SET_METHOD", method |-> m])

Clear == Event /\ JustApply([type |-> "CLEAR_QUEUE"])

\* hydrateIfDeferred: the first of the drawer opening and playback starting.
HydrateIfDeferred ==
    IF deferred
    THEN /\ deferred' = FALSE /\ Hydrate(st, rendered)
         /\ lookahead' = KeptAhead(rendered')
         /\ overtaken' = (overtaken /\ ~Settled(st))
    ELSE UNCHANGED <<tailVars, rendered, lookahead>>

OpenDrawer ==
    /\ deferred /\ HydrateIfDeferred
    /\ UNCHANGED <<st, queueMem, sourceVars, prefetches, memVars, events>>

(***************************************************************************)
(* Sources and the audio element.                                          *)
(***************************************************************************)

\* Mutant: the claim is not looked at again after the request.
StartLandsAnyway(f, found) ==
    /\ starts[f] > 0
    /\ starts' = [starts EXCEPT ![f] = @ - 1]
    /\ IF found
       THEN /\ audio' = [src |-> f, on |-> TRUE]
            /\ crossed' = FALSE /\ playerMem' = claimed
            /\ HydrateIfDeferred
       ELSE /\ crossed' = (crossed \/ claimed = f)
            /\ UNCHANGED <<audio, playerMem, tailVars, rendered, lookahead>>
    /\ UNCHANGED <<st, queueMem, claimed, refresh, prefetches, resuming, events>>

\* startCurrent after its request: an answer for a file claimed no longer is
\* dropped; a source found is played, remembered, and lets the tail hydrate.
StartLands(f, found) ==
    /\ starts[f] > 0
    /\ starts' = [starts EXCEPT ![f] = @ - 1]
    /\ IF found /\ claimed = f
       THEN /\ audio' = [src |-> f, on |-> TRUE]
            /\ crossed' = FALSE /\ playerMem' = f
            /\ HydrateIfDeferred
       ELSE /\ crossed' = (crossed \/ claimed = f)
            /\ UNCHANGED <<audio, playerMem, tailVars, rendered, lookahead>>
    /\ UNCHANGED <<st, queueMem, claimed, refresh, prefetches, resuming, events>>

\* The play button: pause, or play what the element holds.
Toggle ==
    /\ Event
    /\ audio.src # Nothing
    /\ audio' = [audio EXCEPT !.on = ~@]
    /\ IF audio.on
       THEN /\ playerMem' = SavePlayerMemory
            /\ UNCHANGED <<tailVars, rendered, lookahead>>
       ELSE HydrateIfDeferred /\ UNCHANGED playerMem
    /\ UNCHANGED <<st, queueMem, claimed, starts, refresh, crossed, prefetches, resuming>>

\* The element fails (its URL expired, the network dropped) by itself or as
\* the member presses play: refreshSource asks for the claimed file again.
SourceFails(by) ==
    /\ Event
    /\ claimed # Nothing /\ refresh = NoRefresh
    /\ audio.src # Nothing /\ (by = "toggle" => ~audio.on)
    /\ refresh' = [file |-> claimed, by |-> by, play |-> audio.on \/ by = "toggle"]
    /\ audio' = [audio EXCEPT !.on = FALSE]
    /\ UNCHANGED <<queueVars, claimed, starts, crossed, aheadVars, memVars>>

\* The answer to refreshSource.  A source is put in the element whatever is
\* claimed by then; none, or one that will not play, after an error of the
\* element marks the file claimed BY THEN as failed and moves the queue on.
RefreshLands(outcome) ==
    LET element == IF outcome \in {"ok", "rejected"}
                   THEN [src |-> refresh.file, on |-> refresh.play /\ outcome = "ok"]
                   ELSE audio
        cross   == crossed \/ (element # audio /\ refresh.file # claimed)
    IN  /\ refresh # NoRefresh
        /\ outcome = "rejected" => refresh.play
        /\ refresh' = NoRefresh
        /\ IF outcome \in {"rejected", "failed"} /\ refresh.by = "error" /\ claimed # Nothing
           THEN HandleAdvance([type |-> "TRACK_FAILED", file |-> claimed, queue |-> rendered],
                              element, cross)
           ELSE /\ audio' = element /\ crossed' = cross
                /\ IF element.on /\ ~audio.on THEN HydrateIfDeferred
                   ELSE UNCHANGED <<tailVars, rendered, lookahead>>
                /\ UNCHANGED <<st, queueMem, claimed, starts, prefetches, memVars>>
        /\ UNCHANGED events

\* The end of a track.  The element has paused, and its last timeupdate has
\* remembered the player.
Ended ==
    /\ Event
    /\ audio.on
    /\ claimed # Nothing => playerMem = claimed
    /\ IF st.current = Nothing
       THEN /\ audio' = [audio EXCEPT !.on = FALSE] /\ playerMem' = Nothing
            /\ UNCHANGED <<queueVars, claimed, starts, crossed, aheadVars, resuming>>
       ELSE HandleAdvance([type |-> "TRACK_ENDED", queue |-> rendered],
                          [audio EXCEPT !.on = FALSE], crossed)
    /\ UNCHANGED refresh

\* timeupdate: remember the player and, near the end, fetch the next source.
Tick(nearEnd) ==
    /\ audio.on
    /\ playerMem' = SavePlayerMemory
    /\ IF nearEnd /\ Len(rendered) > 1 /\ rendered[2].file # lookahead.file
       THEN /\ lookahead' = [file |-> rendered[2].file, ready |-> FALSE]
            /\ prefetches' = prefetches \cup {rendered[2].file}
       ELSE UNCHANGED aheadVars
    /\ UNCHANGED <<queueVars, sourceVars, resuming, events>>

\* Mutant: an answer is kept for whichever file is next by then.
PrefetchLandsAnyway(f, found) ==
    /\ f \in prefetches
    /\ prefetches' = prefetches \ {f}
    /\ lookahead' = [lookahead EXCEPT !.ready = found]
    /\ UNCHANGED <<queueVars, sourceVars, memVars, events>>

PrefetchLands(f, found) ==
    /\ f \in prefetches
    /\ prefetches' = prefetches \ {f}
    /\ lookahead' = IF lookahead.file = f THEN [lookahead EXCEPT !.ready = found]
                    ELSE lookahead
    /\ UNCHANGED <<queueVars, sourceVars, memVars, events>>

(***************************************************************************)
(* The page's life: a reload loses what is in flight and restores both     *)
(* memories, unless a fortnight has passed since they were written.        *)
(***************************************************************************)

\* parseState: what was saved is not believed but capped and clipped again.
ParseState(entry) ==
    [current |-> entry.current, intent |-> TruncateIntent(entry.intent, Slots(entry)),
     method |-> entry.method, history |-> FirstN(entry.history, HistoryMax),
     failed |-> <<>>, suppressed |-> <<>>]

\* restoredState: nothing saved, too old, or the state that was left.
RestoredState(entry, stale) ==
    IF entry = Nothing \/ stale THEN EmptyState ELSE ParseState(entry)

\* restoreQueue, then restorePlayer up to its request; what is stale is removed.
Reload(unloads, aged) ==
    LET player   == IF unloads THEN SavePlayerMemory ELSE playerMem
        restored == RestoredState(queueMem, "queue" \in aged)
    IN  /\ Event
        /\ queueMem' = IF "queue" \in aged THEN Nothing ELSE queueMem
        /\ IF restored.current = Nothing /\ restored.intent = <<>>
           THEN st' = EmptyState /\ rendered' = <<>> /\ deferred' = FALSE
           ELSE /\ st' = restored /\ rendered' = AssembleQueue(restored, <<>>)
                /\ deferred' = (restored.method # "off")
        /\ playerMem' = IF "player" \in aged THEN Nothing ELSE player
        /\ resuming' = [file |-> playerMem', body |-> FALSE]
        /\ regenSeq' = 0 /\ tickets' = {} /\ overtaken' = FALSE
        /\ claimed' = Nothing /\ audio' = [src |-> Nothing, on |-> FALSE]
        /\ starts' = [f \in Files |-> 0]
        /\ refresh' = NoRefresh
        /\ lookahead' = NoAhead /\ prefetches' = {} /\ crossed' = FALSE

\* restorePlayer, when its request is answered: a track played meanwhile wins;
\* an answer of the login page clears the memory; else the body is awaited.
ResumeAnswers(json) ==
    /\ resuming.file # Nothing /\ ~resuming.body
    /\ resuming' = IF claimed = Nothing /\ json THEN [resuming EXCEPT !.body = TRUE]
                   ELSE NoResume
    /\ playerMem' = IF claimed = Nothing /\ ~json THEN Nothing ELSE playerMem
    /\ UNCHANGED <<queueVars, sourceVars, aheadVars, events>>

\* restorePlayer, when the body has come: whatever is claimed by now, the
\* remembered file is claimed, loaded paused, and told to the queue without a
\* regeneration; or forgotten, when it cannot be played any more.
ResumeLands(found) ==
    /\ resuming.body
    /\ resuming' = NoResume
    /\ IF ~found
       THEN playerMem' = Nothing /\ UNCHANGED <<queueVars, claimed, audio, crossed, lookahead>>
       ELSE /\ claimed' = resuming.file
            /\ audio' = [src |-> resuming.file, on |-> FALSE]
            /\ crossed' = FALSE
            /\ st' = Reduce(st, [type |-> "RESTORE_CURRENT",
                                 entry |-> ResumedEntry(resuming.file)])
            /\ queueMem' = Serialized(st')
            /\ rendered' = AssembleQueue(st', AutoTail(rendered))
            /\ lookahead' = KeptAhead(rendered')
            /\ overtaken' = (st' # st /\ \E t \in tickets : t.seq = regenSeq)
            /\ UNCHANGED <<regenSeq, tickets, deferred, playerMem>>
    /\ UNCHANGED <<starts, refresh, prefetches, events>>

Next ==
    \/ \E t \in tickets : HydrationLands(t)
    \/ \E list \in Lists : PlayCrate(list) \/ Add(list)
    \/ \E list \in Lists : \E f \in Range(list) : PlayRow(list, f)
    \/ Skip
    \/ \E i \in Rows : Select(i) \/ RemoveRow(i)
    \/ \E i \in Rows, to \in 0 .. Len(rendered) - 1 : Move(i, to)
    \/ \E m \in Methods : SetMethod(m)
    \/ Clear
    \/ OpenDrawer
    \/ \E f \in Files, found \in BOOLEAN : StartLands(f, found)
    \/ Toggle
    \/ \E by \in {"error", "toggle"} : SourceFails(by)
    \/ \E outcome \in {"ok", "rejected", "failed", "expired"} : RefreshLands(outcome)
    \/ Ended
    \/ \E nearEnd \in BOOLEAN : Tick(nearEnd)
    \/ \E f \in Files, found \in BOOLEAN : PrefetchLands(f, found)
    \/ \E unloads \in BOOLEAN, aged \in SUBSET {"queue", "player"} : Reload(unloads, aged)
    \/ \E json \in BOOLEAN : ResumeAnswers(json)
    \/ \E found \in BOOLEAN : ResumeLands(found)

Spec == Init /\ [][Next]_vars

(***************************************************************************)
(* Properties.                                                             *)
(***************************************************************************)

QueueEntries == UNION {[1 .. n -> Entries] : n \in 0 .. QueueMax}

\* Every variable keeps the shape its readers in site.ts count on.
TypeOK ==
    /\ st.current \in Entries \cup {Nothing}
    /\ st.intent \in QueueEntries /\ rendered \in QueueEntries
    /\ st.method \in Methods
    /\ \A h \in {st.history, st.failed, st.suppressed} : Len(h) <= HistoryMax
    /\ claimed \in Files \cup {Nothing} /\ audio.src \in Files \cup {Nothing}
    /\ \A t \in tickets : t.seq \in 1 .. regenSeq
    /\ lookahead.file = Nothing => ~lookahead.ready
    /\ resuming.body => resuming.file # Nothing

\* No file is twice in the queue, neither in the state nor on the screen,
\* and the pins leave room for the current track (QUEUE_MAX).
OneOfEach ==
    LET whole == (IF st.current = Nothing THEN <<>> ELSE <<st.current>>) \o st.intent
    IN  /\ Len(whole) <= QueueMax
        /\ Cardinality(FilesOf(whole)) = Len(whole)
        /\ Cardinality(FilesOf(rendered)) = Len(rendered)

\* The file the transport answers for is the queue's current track, through
\* every advance, resume, failure and reload (claimCurrent).
ClaimIsCurrent ==
    claimed # Nothing => st.current # Nothing /\ st.current.file = claimed

\* The queue on the screen is the state's: its current track, its pins and a
\* tail of nothing it excludes.  Every answer, late or superseded, keeps it
\* so, except the answer to a regeneration that a resume has overtaken.
RenderedDescribesState ==
    ~overtaken => rendered = AssembleQueue(st, AutoTail(rendered))

\* Once every request has landed, the element holds the claimed file, unless
\* its start failed or a refreshed source of another file came after it.
SourceFollowsClaim ==
    (claimed # Nothing /\ (\A f \in Files : starts[f] = 0) /\ ~crossed)
        => audio.src = claimed

\* When a track ends or is skipped, the first pin plays next and no pin is
\* lost (TRACK_ENDED and SKIP read a position of the rendered queue).
AdvanceTakesFirstPin ==
    [][(Ended \/ Skip) /\ st.current # Nothing /\ ~overtaken /\ st.intent # <<>>
         => st'.current = AsCurrent(Head(st.intent)) /\ st'.intent = Tail(st.intent)]_vars

\* A reload within a fortnight gives the member the queue they left: the
\* current track, the pins, the method and what was heard.
ReloadKeepsQueue ==
    [][(\E unloads \in BOOLEAN, aged \in SUBSET {"player"} : Reload(unloads, aged))
         /\ (st.current # Nothing \/ st.intent # <<>>)
         => /\ st'.current = st.current /\ st'.intent = st.intent
            /\ st'.method = st.method /\ st'.history = st.history]_vars
=============================================================================
