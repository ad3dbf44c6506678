-------------------------------- MODULE Crates --------------------------------
(***************************************************************************)
(* One member's crate: the crate_* functions of migration 27 behind the    *)
(* routes of pages/api/crate, and the crate page that drags rows (site.ts).*)
(*                                                                         *)
(* The functions run under READ COMMITTED: each statement has its own      *)
(* snapshot, so other calls commit between two statements of one.  A write *)
(* locks its rows until its call commits, and `update crates` at the end   *)
(* of every call makes commits take turns.  Calls that lock the same rows  *)
(* in other orders deadlock, and the database aborts one of them.  The     *)
(* unique (crate, position) constraint is deferred: a call that would      *)
(* break it is refused when it commits.                                    *)
(*                                                                         *)
(* Abstractions: one crate and its owner's calls, and one page of it.  A   *)
(* reorder's check and its first update are one step: a file removed       *)
(* between them stays, here, to be removed behind the reorder.  A removal  *)
(* is one step, and one that a delete aborts changes nothing: left out, as *)
(* are deadlocks of three.                                                 *)
(***************************************************************************)
EXTENDS Integers, Sequences, FiniteSets, Functions, SequencesExt

CONSTANTS
    Tunes,       \* the files of the pool
    NoTune,
    MaxCalls     \* bound: calls and changes of the pool in a behaviour

ASSUME CratesAssumption ==
    /\ IsFiniteSet(Tunes) /\ NoTune \notin Tunes
    /\ MaxCalls \in Nat

VARIABLES
    items,       \* crate_items: a file's position, for the files in the crate
    shown,       \* the files in pool_visible_states()
    kept,        \* the crate's row exists
    calls,       \* calls that have not committed
    made,        \* count of calls (bound)
    page,        \* the rows of the crate page, in the order it shows
    said         \* the last answer to an add: its file, the answer, whether the file
                 \* was in the crate and whether no other call committed meanwhile

cratesVars == <<items, shown, kept, calls, made, page, said>>

NothingSaid == [file |-> NoTune, answer |-> "nothing", held |-> FALSE, alone |-> TRUE]

CratesInit ==
    /\ \E n \in 0 .. Cardinality(Tunes) : items = AntiFunction(SubSeq(SetToSeq(Tunes), 1, n))
    /\ shown = Tunes /\ kept = TRUE
    /\ calls = {} /\ made = 0 /\ page = <<>> /\ said = NothingSaid

InCrate == DOMAIN items

\* crate_get: the visible files, by position.
ByPosition(files) ==
    CHOOSE rows \in [1 .. Cardinality(files) -> files] :
        \A i, j \in DOMAIN rows : i < j => items[rows[i]] < items[rows[j]]
CrateGet == ByPosition(InCrate \cap shown)

Locked(f) == \E c \in calls : c.step = "moved" /\ f \in ToSet(c.order)

\* A commit: the other calls in flight are no longer alone, but for a drag of
\* the page after the drag that commits.
Behind(c, call) == c.page /\ call.page /\ call.id < c.id
Committed(call) ==
    calls' = {[c EXCEPT !.alone = @ /\ Behind(c, call)] : c \in calls \ {call}}

\* A page that loads again takes no more answers to what it asked before.
Forgotten(asked) == {[c EXCEPT !.page = FALSE] : c \in asked}

(***************************************************************************)
(* crate_add, in two statements: the position is read, then inserted.      *)
(***************************************************************************)

\* Mutant: the next position is the count of the items.
NextPositionByCount == 1 + Cardinality(InCrate)

NextPosition ==
    IF InCrate = {} THEN 1
    ELSE 1 + (CHOOSE p \in Range(items) : \A q \in Range(items) : q <= p)

Begin(call) == made < MaxCalls /\ made' = made + 1 /\ calls' = calls \cup {call}

AddReads(f) ==
    /\ kept /\ f \in shown
    /\ Begin([op |-> "add", id |-> made, file |-> f, at |-> NextPosition, order |-> <<>>,
              step |-> "read", page |-> FALSE, alone |-> TRUE])
    /\ UNCHANGED <<items, shown, kept, page, said>>

\* The primary key and the deferred constraint raise one code, 23505, which
\* add.ts answers "already in crate".
AddLands(call) ==
    LET taken == call.file \in InCrate \/ call.at \in Range(items)
    IN  /\ call.op = "add"
        /\ said' = [file |-> call.file, alone |-> call.alone, held |-> call.file \in InCrate,
                    answer |-> IF ~kept THEN "gone" ELSE IF taken THEN "already" ELSE "added"]
        /\ IF kept /\ ~taken
           THEN /\ items' = [f \in InCrate \cup {call.file} |->
                                IF f = call.file THEN call.at ELSE items[f]]
                /\ Committed(call)
           ELSE calls' = calls \ {call} /\ UNCHANGED items
        /\ UNCHANGED <<shown, kept, made, page>>

\* crate_remove: the rest keep their positions.
RemoveFrom(f) ==
    /\ kept /\ f \in InCrate /\ ~Locked(f)
    /\ made < MaxCalls /\ made' = made + 1
    /\ items' = [g \in InCrate \ {f} |-> items[g]]
    /\ calls' = {[c EXCEPT !.alone = FALSE] : c \in calls}
    /\ UNCHANGED <<shown, kept, page, said>>

\* crate_delete: the items go with the crate, behind a reorder's locks.
DeleteBegins ==
    /\ kept
    /\ Begin([op |-> "delete", id |-> made, file |-> NoTune, at |-> 0, order |-> <<>>,
              step |-> "asked", page |-> FALSE, alone |-> TRUE])
    /\ UNCHANGED <<items, shown, kept, page, said>>

DeleteLands(call) ==
    /\ call.op = "delete" /\ ~\E c \in calls : c.step = "moved"
    /\ kept' = FALSE /\ items' = <<>>
    /\ IF kept THEN Committed(call) ELSE calls' = calls \ {call}
    /\ UNCHANGED <<shown, made, page, said>>

(***************************************************************************)
(* crate_reorder, in three statements, from the page or from /move.        *)
(***************************************************************************)

Reorder(order, fromPage) ==
    Begin([op |-> "reorder", id |-> made, file |-> NoTune, at |-> 0, order |-> order,
           step |-> "asked", page |-> fromPage, alone |-> TRUE])

Swapped(order, i, j) ==
    [k \in DOMAIN order |-> IF k = i THEN order[j] ELSE IF k = j THEN order[i] ELSE order[k]]

\* /move: crate_get, then a reorder of what it answered.
Move(f, down) ==
    LET order == CrateGet
    IN  /\ kept /\ made < MaxCalls
        /\ \E i, j \in DOMAIN order :
              /\ order[i] = f /\ j = (IF down THEN i + 1 ELSE i - 1)
              /\ Reorder(Swapped(order, i, j), FALSE)
        /\ UNCHANGED <<items, shown, kept, page, said>>

\* wireCrateDrag: the rows have moved when submitCrateOrder sends them, once
\* per drop, whatever the page has sent before and not been told of.
Drag(from, to) ==
    /\ from \in DOMAIN page /\ to \in DOMAIN page /\ from # to
    /\ page' = InsertAt(RemoveAt(page, from), to, page[from])
    /\ Reorder(page', TRUE)
    /\ UNCHANGED <<items, shown, kept, said>>

LoadPage ==
    /\ kept
    /\ page' = CrateGet
    /\ calls' = Forgotten(calls)
    /\ UNCHANGED <<items, shown, kept, made, said>>

\* Mutant: a page whose order is refused does not reload.
RefusedNoReload(call) == calls' = calls \ {call} /\ UNCHANGED <<items, page>>

\* A reorder is refused, and the page that asked for it reloads.
Refused(call) ==
    /\ calls' = IF call.page THEN Forgotten(calls \ {call}) ELSE calls \ {call}
    /\ page' = IF call.page THEN CrateGet ELSE page
    /\ UNCHANGED items

\* The order must name the visible items, each once (22023 otherwise).
Permutes(order) == kept /\ ToSet(order) = InCrate \cap shown /\ IsInjective(order)

\* The check and the first update, which waits for another reorder's locks;
\* and of a crate deleted since the check, it updates nothing and says well.
ReorderMoves(call) ==
    /\ call.op = "reorder" /\ call.step = "asked"
    /\ UNCHANGED <<shown, kept, made, said>>
    /\ \/ ~Permutes(call.order) /\ Refused(call)
       \/ /\ Permutes(call.order) /\ ~\E f \in ToSet(call.order) : Locked(f)
          /\ calls' = (calls \ {call}) \cup {[call EXCEPT !.step = "moved"]}
          /\ UNCHANGED <<items, page>>
       \/ /\ ~kept /\ ~call.alone
          /\ calls' = calls \ {call} /\ UNCHANGED <<items, page>>

\* Mutant: the second update is missing.
RenumberedNamedOnly(order) ==
    [f \in InCrate |->
        IF f \in ToSet(order) THEN CHOOSE i \in DOMAIN order : order[i] = f ELSE items[f]]

\* Positions after a reorder: the order's own places, and behind them what it
\* does not name, as it stood.
Renumbered(order) ==
    LET rest == ByPosition(InCrate \ ToSet(order))
    IN  [f \in InCrate |->
            IF f \in ToSet(order) THEN CHOOSE i \in DOMAIN order : order[i] = f
            ELSE Len(order) + CHOOSE i \in DOMAIN rest : rest[i] = f]

\* The second update and the commit, which the constraint may refuse.  It
\* waits for another reorder that has rows.
ReorderLands(call) ==
    /\ call.step = "moved" /\ \A c \in calls : c.step = "moved" => c = call
    /\ UNCHANGED <<shown, kept, made, said>>
    /\ LET new == Renumbered(call.order)
       IN  IF IsInjective(new)
           THEN items' = new /\ Committed(call) /\ UNCHANGED page
           ELSE Refused(call)

\* The rows a call locks before its last statement, the crate's own (NoTune)
\* among them when it deletes.
Rows(c) == IF c.op = "delete" THEN InCrate \cup {NoTune} ELSE ToSet(c.order)

\* A reorder and another call may each hold what the other waits for: in their
\* first updates, two rows locked in turn; in the second update, or at `update
\* crates`, what a call that waits for the reorder's rows has already; and at
\* the commit of an add, the position both have taken.
Waits(reorder, d) ==
    /\ reorder.op = "reorder" /\ d # reorder
    /\ LET both == Rows(reorder) \cap Rows(d)
       IN  \/ reorder.step = "asked" /\ d.step = "asked" /\ Cardinality(both) > 1
           \/ /\ reorder.step = "moved" /\ d.step = "asked"
              /\ both # {} /\ Rows(d) \ Rows(reorder) # {}
           \/ reorder.step = "moved" /\ d.step = "moved"
           \/ /\ reorder.step = "moved" /\ d.op = "add"
              /\ d.at \in Range(Renumbered(reorder.order))
Crosses(c, d) == Waits(c, d) \/ Waits(d, c)

\* The database aborts either call of a deadlock (40P01); an add or a delete
\* then just fails.
Deadlocked(call) ==
    /\ \E d \in calls : Crosses(call, d)
    /\ IF call.op = "reorder" THEN Refused(call)
       ELSE calls' = calls \ {call} /\ UNCHANGED <<items, page>>
    /\ UNCHANGED <<shown, kept, made, said>>

\* A file leaves the pool or comes back: ingest, analysis, a tombstone.
PoolChanges(f) ==
    /\ shown' = IF f \in shown THEN shown \ {f} ELSE shown \cup {f}
    /\ made < MaxCalls /\ made' = made + 1
    /\ calls' = {[c EXCEPT !.alone = FALSE] : c \in calls}
    /\ UNCHANGED <<items, kept, page, said>>

CratesNext ==
    \/ \E f \in Tunes : AddReads(f) \/ RemoveFrom(f) \/ PoolChanges(f)
    \/ \E f \in Tunes, down \in BOOLEAN : Move(f, down)
    \/ \E from, to \in 1 .. Cardinality(Tunes) : Drag(from, to)
    \/ \E c \in calls : AddLands(c) \/ ReorderMoves(c) \/ ReorderLands(c)
    \/ DeleteBegins
    \/ \E c \in calls : DeleteLands(c) \/ Deadlocked(c)
    \/ LoadPage

CratesSpec == CratesInit /\ [][CratesNext]_cratesVars

Answered(c) == \A d \in calls' : d.id # c.id

(***************************************************************************)
(* Properties.                                                             *)
(***************************************************************************)

\* Shape of the crate; positions are unique at every commit.
CratesTypeOK ==
    /\ InCrate \subseteq Tunes /\ IsInjective(items) /\ Range(items) \subseteq Nat
    /\ \A c \in calls : c.step \in {"read", "asked", "moved"}
    /\ ~kept => items = <<>>

\* A member is told "already in crate" only of a file that is in the crate.
\* Calls that overlap may be told so falsely: two adds that read the same
\* position (add.ts answers any 23505 so).
SaidInCrate == said.answer = "already" /\ said.alone => said.held

\* A reorder that has begun to write puts what it names first, in the order
\* asked, and everything else, hidden or just added, behind it in the order it
\* had.  Only a deadlock with another call refuses it, and then it changes
\* nothing: its positions never break the constraint.
PutsFirst(order) ==
    \A f, g \in DOMAIN items' :
       LET place(h) == IF h \in ToSet(order) THEN CHOOSE i \in DOMAIN order : order[i] = h
                       ELSE Len(order) + items[h]
       IN  place(f) < place(g) => items'[f] < items'[g]
HiddenStayBehind ==
    [][\A c \in calls : c.step = "moved" /\ Answered(c) =>
          PutsFirst(c.order) \/ (items' = items /\ \E d \in calls : Crosses(c, d))]_cratesVars

\* When the last drag that a page waits for is answered, the page shows the
\* order the database holds: its own or, when one was refused, the one that
\* was committed.  Only calls that commit while the drag is in flight are set
\* aside, and not the drags sent before it when they commit before it.
PageShowsCommitted ==
    [][\A c \in calls :
          c.page /\ c.alone /\ Answered(c) /\ (\A d \in calls' : ~d.page)
            => page' = CrateGet']_cratesVars
=============================================================================
