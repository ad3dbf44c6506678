----------------------------- MODULE QueueEngine -----------------------------
(***************************************************************************)
(* The play queue as a pure reducer: queue-model.ts and queue-engine.ts.   *)
(*                                                                         *)
(* A queue has two layers.  Layer 1, the state, holds what the member      *)
(* asked for: the current track, the pinned tracks, what was heard, what   *)
(* failed and what was thrown out of the tail.  Layer 2, the tail, is      *)
(* computed by a strategy and lives only in the assembled queue the drawer *)
(* shows.  Every event of the page goes through Reduce, and events name    *)
(* positions in the assembled queue.                                       *)
(*                                                                         *)
(* Abstractions: an entry keeps its file, the recording the page knows for *)
(* it and whether it came from the tail; titles, keys, tempos and labels   *)
(* are left out, so which candidates a strategy prefers is a choice.       *)
(***************************************************************************)
EXTENDS Integers, Sequences, FiniteSets, SequencesExt, Subsequences

CONSTANTS
    Files,       \* the files a page or the pool can show
    RecordingOf, \* [Files -> recordings \cup {NoRec}]: the track a file plays
    NoRec,       \* a file no track was matched for, or an entry that forgot it
    Nothing,     \* no entry
    Prefer(_, _),\* preferredCopy: of two copies of a recording, the one to play
    QueueMax,    \* 25 in the code
    HistoryMax   \* 200 in the code

ASSUME SizesAssumption ==
    QueueMax \in Nat \ {0} /\ HistoryMax \in Nat \ {0} /\ IsFiniteSet(Files)

(***************************************************************************)
(* Entries and identity.                                                   *)
(***************************************************************************)

Origins == {"current", "pin", "auto"}

Entries == [file : Files,
            rec : {RecordingOf[f] : f \in Files} \cup {NoRec},
            origin : Origins]

\* What the history and the exclusions are lists of.
Tokens == Files \cup {RecordingOf[f] : f \in Files} \cup {NoRec}

ASSUME NothingAssumption == Nothing \notin Files /\ Nothing \notin Entries

\* An entry scraped from a row or read from the pool.
QueueEntry(f, origin) == [file |-> f, rec |-> RecordingOf[f], origin |-> origin]

\* The entry of a resumed player: its memory does not say which recording.
ResumedEntry(f) == [file |-> f, rec |-> NoRec, origin |-> "current"]

AsCurrent(e) == [e EXCEPT !.origin = "current"]

IdentityTokens(e) == IF e.rec = NoRec THEN <<e.file>> ELSE <<e.file, e.rec>>

IsTaken(taken, e) == Range(IdentityTokens(e)) \cap taken # {}

\* The tokens of a queue's entries, one entry after the other.
TokensOf(queue) ==
    LET all == [k \in 1 .. 2 * Len(queue) |->
                   IF k % 2 = 1 THEN queue[(k + 1) \div 2].file ELSE queue[k \div 2].rec]
    IN  Only(all, {k \in DOMAIN all : all[k] # NoRec})

\* A list without the entries of one file.
Without(queue, file) == Only(queue, {i \in DOMAIN queue : queue[i].file # file})

FilesOf(queue) == {queue[i].file : i \in DOMAIN queue}

\* The first element under every key, in order.
FirstOfEach(s, keys) ==
    Only(s, {i \in DOMAIN s : \A j \in 1 .. i - 1 : keys[j] # keys[i]})

DedupeByFile(s) == FirstOfEach(s, [i \in DOMAIN s |-> s[i].file])

FirstN(s, n) == SubSeq(s, 1, IF n < Len(s) THEN n ELSE Len(s))

PushFront(list, ids) == FirstN(FirstOfEach(ids \o list, ids \o list), HistoryMax)

(***************************************************************************)
(* The state, its exclusions and its cap.                                  *)
(***************************************************************************)

EmptyState ==
    [current |-> Nothing, intent |-> <<>>, method |-> "off",
     history |-> <<>>, failed |-> <<>>, suppressed |-> <<>>]

ExcludedKeys(s) ==
    UNION {Range(IdentityTokens(e)) : e \in Range(s.intent) \cup ({s.current} \ {Nothing})}
        \cup Range(s.history) \cup Range(s.failed) \cup Range(s.suppressed)

Slots(s) == QueueMax - (IF s.current = Nothing THEN 0 ELSE 1)

Need(s) == LET free == Slots(s) - Len(s.intent) IN IF free > 0 THEN free ELSE 0

TruncateIntent(entries, slots) == FirstN(entries, IF slots > 0 THEN slots ELSE 0)

\* An entry goes into the tail when there is room left, and nothing of the
\* state and no entry before it that went in has one of its tokens.
Admits(s, auto, in, n) ==
    LET before == {i \in in : i < n}
    IN  /\ Cardinality(before) < Need(s)
        /\ ~IsTaken(ExcludedKeys(s), auto[n])
        /\ \A i \in before : ~IsTaken(Range(IdentityTokens(auto[i])), auto[n])

Admitted(s, auto) ==
    CHOOSE in \in SUBSET DOMAIN auto : \A n \in DOMAIN auto : n \in in <=> Admits(s, auto, in, n)

FreshTail(s, auto) == Only(auto, Admitted(s, auto))

AssembleQueue(s, auto) ==
    LET head == IF s.current = Nothing THEN <<>> ELSE <<s.current>>
    IN  FirstN(head \o FirstN(s.intent, Slots(s)) \o FreshTail(s, auto), QueueMax)

AutoTail(queue) == Only(queue, {i \in DOMAIN queue : queue[i].origin = "auto"})

(***************************************************************************)
(* The reducer.                                                            *)
(***************************************************************************)

\* The state s with another current track, other pins and another history.
Playing(s, current, intent, history) ==
    [current |-> current, intent |-> intent, method |-> s.method,
     history |-> history, failed |-> s.failed, suppressed |-> s.suppressed]

\* A replacing play: the chosen row becomes current, the rows after it pins.
ReplaceWith(s, list, at) ==
    LET chosen == AsCurrent(list[at])
        rest   == Only(list, {i \in at + 1 .. Len(list) : list[i].file # chosen.file})
    IN  Playing(s, chosen, TruncateIntent(DedupeByFile(rest), QueueMax - 1),
                IF s.current = Nothing THEN s.history
                ELSE PushFront(s.history, IdentityTokens(s.current)))

\* Mutant: the entry that becomes current is also kept as a pin.
AdvanceToOffByOne(s, queue, index) ==
    Playing(s, IF index < Len(queue) THEN AsCurrent(queue[index + 1]) ELSE Nothing,
            Only(queue, {i \in index + 1 .. Len(queue) : queue[i].file \in FilesOf(s.intent)}),
            PushFront(s.history, TokensOf(FirstN(queue, index))))

\* Everything before the entry at `index` (counted from 0) is consumed.
AdvanceTo(s, queue, index) ==
    Playing(s, IF index < Len(queue) THEN AsCurrent(queue[index + 1]) ELSE Nothing,
            Only(queue, {i \in index + 2 .. Len(queue) : queue[i].file \in FilesOf(s.intent)}),
            PushFront(s.history, TokensOf(FirstN(queue, index))))

FirstAddressable(s) == IF s.current = Nothing THEN 0 ELSE 1

Addressable(s, queue, index) == index >= FirstAddressable(s) /\ index < Len(queue)

AddToQueue(s, entries) ==
    LET taken == FilesOf(s.intent) \cup (IF s.current = Nothing THEN {} ELSE {s.current.file})
        fresh == DedupeByFile(Only(entries, {i \in DOMAIN entries : entries[i].file \notin taken}))
    IN  [s EXCEPT !.intent = @ \o TruncateIntent(fresh, Slots(s) - Len(@))]

RemoveEntry(s, queue, index) ==
    LET target == queue[index + 1]
    IN  IF target.file \in FilesOf(s.intent)
        THEN [s EXCEPT !.intent = Without(@, target.file)]
        ELSE [s EXCEPT !.suppressed = PushFront(@, IdentityTokens(target))]

\* reorder.ts: out of `from`, in at `to`, clamped to the list (both from 0).
MoveItem(list, from, to) ==
    LET last == Len(list) - 1
        dest == IF to < 0 THEN 0 ELSE IF to > last THEN last ELSE to
    IN  InsertAt(RemoveAt(list, from + 1), dest + 1, list[from + 1])

MoveEntry(s, queue, index, to) ==
    LET file == queue[index + 1].file
        at   == CHOOSE i \in DOMAIN s.intent : s.intent[i].file = file
    IN  IF file \in FilesOf(s.intent)
        THEN [s EXCEPT !.intent = MoveItem(@, at - 1, to - FirstAddressable(s))]
        ELSE s

FailTrack(s, queue, file) ==
    LET marked == [s EXCEPT !.failed = PushFront(@, <<file>>)]
    IN  IF s.current = Nothing THEN marked ELSE AdvanceTo(marked, queue, 1)

\* Mutant: the resumed file is left among the pins.
RestoreCurrentStillPinned(s, entry) ==
    IF s.current # Nothing /\ s.current.file = entry.file THEN s
    ELSE Playing(s, AsCurrent(entry), TruncateIntent(s.intent, QueueMax - 1), s.history)

\* Mutant: a queue that has a current track keeps it.
RestoreCurrentKeepsQueue(s, entry) ==
    IF s.current # Nothing THEN s
    ELSE Playing(s, AsCurrent(entry), Without(s.intent, entry.file), s.history)

\* A resume names the file it plays: it stays or becomes current, unpinned.
RestoreCurrent(s, entry) ==
    IF s.current # Nothing /\ s.current.file = entry.file THEN s
    ELSE Playing(s, AsCurrent(entry),
                 TruncateIntent(Without(s.intent, entry.file), QueueMax - 1),
                 s.history)

Reduce(s, e) ==
    CASE e.type = "PLAY_TRACK" ->
             IF \E i \in DOMAIN e.list : e.list[i].file = e.file
             THEN ReplaceWith(s, e.list,
                              CHOOSE i \in DOMAIN e.list : e.list[i].file = e.file)
             ELSE s
      [] e.type = "PLAY_CRATE" ->
             IF e.list = <<>> THEN s ELSE ReplaceWith(s, e.list, 1)
      [] e.type = "ADD_TO_QUEUE" -> AddToQueue(s, e.list)
      [] e.type = "SELECT_QUEUE_ENTRY" ->
             IF Addressable(s, e.queue, e.index) THEN AdvanceTo(s, e.queue, e.index) ELSE s
      [] e.type \in {"SKIP", "TRACK_ENDED"} ->
             IF s.current = Nothing THEN s ELSE AdvanceTo(s, e.queue, 1)
      [] e.type = "REMOVE_QUEUE_ENTRY" ->
             IF Addressable(s, e.queue, e.index) THEN RemoveEntry(s, e.queue, e.index) ELSE s
      [] e.type = "MOVE_QUEUE_ENTRY" ->
             IF Addressable(s, e.queue, e.index) THEN MoveEntry(s, e.queue, e.index, e.to) ELSE s
      [] e.type = "TRACK_FAILED" -> FailTrack(s, e.queue, e.file)
      [] e.type = "SET_METHOD" -> [s EXCEPT !.method = e.method]
      [] e.type = "CLEAR_QUEUE" -> [s EXCEPT !.intent = <<>>]
      [] e.type = "RESTORE_CURRENT" -> RestoreCurrent(s, e.entry)

(***************************************************************************)
(* Layer 2.                                                                *)
(***************************************************************************)

\* Among the files of one recording the pool offers, the copy to play.
CollapseByRecording(candidates) ==
    {f \in candidates :
        \/ RecordingOf[f] = NoRec
        \/ \A g \in candidates \ {f} : RecordingOf[g] = RecordingOf[f] => Prefer(f, g)}

\* The queues regenerate may resolve with: no tail when the pool did not
\* answer, else as many of the fresh candidates as there is room for, in an
\* order only the strategy knows.
Regenerated(s, answered) ==
    LET fresh == CollapseByRecording(
                     {f \in Files : ~IsTaken(ExcludedKeys(s), QueueEntry(f, "auto"))})
        size  == IF Need(s) < Cardinality(fresh) THEN Need(s) ELSE Cardinality(fresh)
        picks == {t \in [1 .. size -> fresh] : IsInjective(t)}
    IN  IF s.method = "off" \/ Need(s) = 0 \/ ~answered
        THEN {AssembleQueue(s, <<>>)}
        ELSE {AssembleQueue(s, [i \in 1 .. size |-> QueueEntry(t[i], "auto")]) : t \in picks}

\* What localStorage keeps of the state: the tail, the failures and the
\* removals of this page's life are not written.
Serialized(s) ==
    [current |-> s.current, intent |-> TruncateIntent(s.intent, Slots(s)), method |-> s.method,
     history |-> s.history, failed |-> <<>>, suppressed |-> <<>>]
=============================================================================
