----------------------------- MODULE PageControls -----------------------------
(***************************************************************************)
(* Four controls of a page (scripts/site.ts) that show server state they   *)
(* change or ask for over the network: the add-to-crate picker, the like   *)
(* buttons, the tag editor and the pool search.  An answer to a search     *)
(* replaces the table, and with it the like buttons and the pickers of its *)
(* rows, as they were when the search was served.                          *)
(*                                                                         *)
(* A request is served in one step and its answer lands in another: other  *)
(* requests and the member's moves come between.  An answer can be lost.   *)
(* Every search finds all of Songs; a navigation brings, to the pickers,   *)
(* another page (SwapPage), and to the like buttons what a search brings.  *)
(***************************************************************************)
EXTENDS Integers, Sequences, FiniteSets, SequencesExt, Subsequences

CONSTANTS
    Songs,           \* the files of the page
    NoSong,
    Tags,            \* tag_keys
    TagCap,          \* TAG_CAP
    Queries,         \* what a member types into the search
    MaxMoves         \* bound: moves of the member in a behaviour

ASSUME ControlsAssumption == TagCap \in Nat

VARIABLES
    moves,           \* count of them
    \* the picker; a list of crates is how many it holds, in the order made
    crates,          \* the member's crates on the server
    lists,           \* the requests for the list
    listCache,       \* crateListPromise: an index into lists, 0 for null
    menu,            \* what the menus show: a list, Bare or NoList
    modal,           \* the create modal: "shut", "sent", "made", "adding"
    dueCrates,       \* crates there were when the cache was last nulled
    overtaken,       \* a request was in flight at that time
    \* the like buttons: one in each row, and the bar's
    liked,           \* toggle_like's rows: the songs the member likes
    heart,           \* button -> [song, shows, disabled]
    likeCalls,       \* toggles in flight
    barAsk,          \* the answer of /source on its way to the bar
    muddled,         \* songs whose buttons may show what the server does not hold
    \* the tag editor
    tags,            \* file_tags of the track
    chips,           \* the chips on the page
    tagCalls,        \* edits in flight
    crossed,         \* tags with two edits at once, or a lost answer
    \* the search
    typed,           \* the field
    debounced,       \* poolRun's timer is set
    url,             \* the query in the address bar
    inflight,        \* searches in flight: [query, aborted, at], the likes in the rows
                     \* it was served, and the songs toggled since (stale)
    table,           \* the query whose rows are shown
    unavailable      \* the status line says so

pickVars == <<crates, lists, listCache, menu, modal, dueCrates, overtaken>>
likeVars == <<liked, heart, likeCalls, barAsk, muddled>>
tagVars == <<tags, chips, tagCalls, crossed>>
fieldVars == <<typed, debounced, url, table, unavailable>>
searchVars == <<fieldVars, inflight>>
controlsVars == <<moves, pickVars, likeVars, tagVars, searchVars>>

Moves == moves < MaxMoves /\ moves' = moves + 1

Bare == -2           \* a menu without data-populated
NoList == -1         \* "No crates yet", after a request that failed

ControlsInit ==
    /\ moves = 0
    /\ crates = 1 /\ lists = <<>> /\ listCache = 0 /\ menu = Bare /\ modal = "shut"
    /\ dueCrates = 1 /\ overtaken = FALSE
    /\ liked = {}
    /\ heart = [b \in Songs \cup {"bar"} |->
                   IF b = "bar" THEN [song |-> NoSong, shows |-> FALSE, disabled |-> TRUE]
                   ELSE [song |-> b, shows |-> FALSE, disabled |-> FALSE]]
    /\ likeCalls = {} /\ barAsk = <<>> /\ muddled = {}
    /\ tags = {} /\ chips = <<>> /\ tagCalls = {} /\ crossed = {}
    /\ typed = (CHOOSE q \in Queries : TRUE) /\ debounced = FALSE /\ url = typed /\ inflight = {}
    /\ table = typed /\ unavailable = FALSE

(***************************************************************************)
(* The picker.                                                             *)
(***************************************************************************)

Populated(n) == IF menu = Bare THEN n ELSE menu

\* loadCrateList().then(populateCratePickers): one request per cache.
LoadCrateList ==
    IF listCache = 0
    THEN /\ lists' = Append(lists, [at |-> "sent", n |-> 0])
         /\ listCache' = Len(lists) + 1 /\ UNCHANGED menu
    ELSE /\ menu' = IF lists[listCache].at = "landed" THEN Populated(lists[listCache].n) ELSE menu
         /\ UNCHANGED <<lists, listCache>>

OpenPicker ==
    /\ Moves /\ LoadCrateList
    /\ UNCHANGED <<crates, modal, dueCrates, overtaken>>

ListServed(r) ==
    /\ lists[r].at = "sent" /\ lists' = [lists EXCEPT ![r] = [at |-> "served", n |-> crates]]
    /\ UNCHANGED <<moves, crates, listCache, menu, modal, dueCrates, overtaken>>

\* An answer fills the menus that are bare, whichever page asked for it; a
\* failed request answers an empty list.
ListLands(r, fails) ==
    LET n == IF fails THEN NoList ELSE lists[r].n
    IN  /\ lists[r].at = "served"
        /\ lists' = [lists EXCEPT ![r] = [at |-> "landed", n |-> n]]
        /\ menu' = Populated(n)
        /\ UNCHANGED <<moves, crates, listCache, modal, dueCrates, overtaken>>

\* The modal: Create is disabled until its answer.
CreateCrate ==
    /\ Moves /\ modal = "shut" /\ modal' = "sent"
    /\ UNCHANGED <<crates, lists, listCache, menu, dueCrates, overtaken>>

CrateMade ==
    /\ modal = "sent" /\ modal' = "made" /\ crates' = crates + 1
    /\ UNCHANGED <<moves, lists, listCache, menu, dueCrates, overtaken>>

\* Refused, or the answer is lost after the crate was made.
CreateFails ==
    /\ modal \in {"sent", "made"} /\ modal' = "shut"
    /\ UNCHANGED <<moves, crates, lists, listCache, menu, dueCrates, overtaken>>

\* Mutant: the cache is kept.
InvalidateMenusOnly == menu' = Bare /\ UNCHANGED listCache

\* invalidateCratePickerCache.
InvalidateCratePickerCache == menu' = Bare /\ listCache' = 0

Nulled ==
    /\ dueCrates' = crates' /\ overtaken' = (\E r \in DOMAIN lists : lists[r].at # "landed")
    /\ UNCHANGED lists

CreateLands ==
    /\ modal = "made" /\ modal' = "adding"
    /\ InvalidateCratePickerCache
    /\ UNCHANGED <<moves, crates>> /\ Nulled

\* addToCrate has answered, well or not: the menus are rebuilt.
AddSettles ==
    /\ modal = "adding" /\ modal' = "shut"
    /\ LoadCrateList
    /\ UNCHANGED <<moves, crates, dueCrates, overtaken>>

\* /crates' own form makes a crate, and a page is swapped in: its menus are
\* bare, and astro:after-swap nulls the cache.
SwapPage(made) ==
    /\ Moves /\ modal = "shut"
    /\ crates' = crates + (IF made THEN 1 ELSE 0)
    /\ menu' = Bare /\ listCache' = 0
    /\ UNCHANGED modal /\ Nulled

PickNext ==
    \/ OpenPicker
    \/ \E r \in DOMAIN lists : ListServed(r) \/ \E fails \in BOOLEAN : ListLands(r, fails)
    \/ CreateCrate \/ CrateMade \/ CreateFails \/ CreateLands \/ AddSettles
    \/ \E made \in BOOLEAN : SwapPage(made)

(***************************************************************************)
(* The like buttons.                                                       *)
(***************************************************************************)

Paint(buttons, shows, disabled) ==
    heart' = [b \in DOMAIN heart |->
                 IF b \in buttons
                 THEN [song |-> heart[b].song, shows |-> shows, disabled |-> disabled]
                 ELSE heart[b]]

\* Every button for the file of the form that was submitted.
ButtonsOf(button) == {b \in DOMAIN heart : heart[b].song = heart[button].song}

\* The submit: the flip is painted before the request is answered.  Two
\* toggles of one song are possible: a button that is mounted later is enabled.
PressLike(button) ==
    LET song == heart[button].song
    IN  /\ Moves /\ ~heart[button].disabled
        /\ Paint(ButtonsOf(button), ~heart[button].shows, TRUE)
        /\ likeCalls' = {[c EXCEPT !.alone = @ /\ c.song # song] : c \in likeCalls} \cup
               {[id |-> moves, song |-> song, buttons |-> ButtonsOf(button),
                 was |-> heart[button].shows, at |-> "sent", result |-> FALSE,
                 alone |-> \A c \in likeCalls : c.song # song]}
        /\ muddled' = IF \E c \in likeCalls : c.song = song THEN muddled \cup {song} ELSE muddled
        /\ UNCHANGED <<liked, barAsk, inflight>>

\* toggle_like: deletes the row, or inserts it where there is none.
ToggleLike(call) ==
    /\ call.at = "sent"
    /\ liked' = IF call.song \in liked THEN liked \ {call.song} ELSE liked \cup {call.song}
    /\ likeCalls' = (likeCalls \ {call}) \cup
           {[id |-> call.id, song |-> call.song, buttons |-> call.buttons, was |-> call.was,
             at |-> "served", result |-> call.song \in liked', alone |-> call.alone]}
    /\ barAsk' = [i \in DOMAIN barAsk |->
                      [barAsk[i] EXCEPT !.stale = @ \/ barAsk[i].song = call.song]]
    /\ inflight' = {IF r.at = "served" THEN [r EXCEPT !.stale = @ \cup {call.song}] ELSE r :
                        r \in inflight}
    /\ UNCHANGED <<moves, heart, muddled>>

\* The answer is painted on the buttons the submit took, which may show
\* another song by now; a song that has settled is clean again.
LikeLands(call) ==
    LET moved == {heart[b].song : b \in call.buttons} \ {call.song, NoSong}
    IN  /\ call.at = "served"
        /\ Paint(call.buttons, call.result, FALSE)
        /\ muddled' = (IF call.alone /\ call.buttons = {b \in DOMAIN heart : heart[b].song = call.song}
                       THEN muddled \ {call.song} ELSE muddled) \cup moved
        /\ likeCalls' = likeCalls \ {call}
        /\ UNCHANGED <<moves, liked, barAsk, inflight>>

\* No answer, with the row written or not: the rollback.
LikeFails(call) ==
    LET moved == {heart[b].song : b \in call.buttons} \ {call.song, NoSong}
    IN  /\ Paint(call.buttons, call.was, FALSE)
        /\ muddled' = muddled \cup moved \cup (IF call.at = "served" THEN {call.song} ELSE {})
        /\ likeCalls' = likeCalls \ {call}
        /\ UNCHANGED <<moves, liked, barAsk, inflight>>

\* A track starts: /source answers its like, ...
SourceServed(song) ==
    /\ Moves /\ barAsk = <<>> /\ barAsk' = <<[song |-> song, shows |-> song \in liked, stale |-> FALSE]>>
    /\ UNCHANGED <<liked, heart, likeCalls, muddled, inflight>>

\* ... and setPlayerLike points the bar's button at it, enabled.
SetPlayerLike ==
    /\ barAsk # <<>> /\ barAsk' = <<>>
    /\ heart' = [heart EXCEPT !["bar"] = [song |-> barAsk[1].song, shows |-> barAsk[1].shows,
                                          disabled |-> FALSE]]
    /\ muddled' = IF barAsk[1].stale \/ \E c \in likeCalls : c.song = barAsk[1].song
                  THEN muddled \cup {barAsk[1].song} ELSE muddled
    /\ UNCHANGED <<moves, liked, likeCalls, inflight>>

LikeNext ==
    \/ \E b \in DOMAIN heart : PressLike(b)
    \/ \E c \in likeCalls : ToggleLike(c) \/ LikeLands(c) \/ LikeFails(c)
    \/ \E song \in Songs : SourceServed(song)
    \/ SetPlayerLike

(***************************************************************************)
(* The tag editor.                                                         *)
(***************************************************************************)

Edit(tag, intent, index) ==
    /\ tagCalls' = tagCalls \cup {[id |-> moves, tag |-> tag, intent |-> intent, at |-> "sent",
                                   index |-> index]}
    /\ crossed' = IF \E c \in tagCalls : c.tag = tag THEN crossed \cup {tag} ELSE crossed
    /\ UNCHANGED tags

\* planTagAdd against the chips, then the optimistic chip.
SubmitTag(tag) ==
    /\ Moves /\ tag \notin ToSet(chips) /\ Cardinality(ToSet(chips)) < TagCap
    /\ chips' = Append(chips, tag)
    /\ Edit(tag, "add", 0)

\* The chip's own form: the chip goes, and its place is kept.
RemoveChip(i) ==
    /\ Moves /\ i \in DOMAIN chips
    /\ chips' = RemoveAt(chips, i)
    /\ Edit(chips[i], "remove", i)

\* tag_add, which refuses a tag past the cap, and tag_remove.
TagServed(call) ==
    LET refused == call.intent = "add" /\ call.tag \notin tags /\ Cardinality(tags) >= TagCap
    IN  /\ call.at = "sent"
        /\ tags' = IF call.intent = "remove" THEN tags \ {call.tag}
                   ELSE IF refused THEN tags ELSE tags \cup {call.tag}
        /\ tagCalls' = (tagCalls \ {call}) \cup
                           {[call EXCEPT !.at = IF refused THEN "refused" ELSE "served"]}
        /\ UNCHANGED <<moves, chips, crossed>>

\* Mutant: a refused removal leaves the chip off the page.
RolledBackAddsOnly(call) ==
    IF call.intent = "add" THEN Only(chips, {i \in DOMAIN chips : chips[i] # call.tag}) ELSE chips

\* The rollback: the chip that was added goes, the one removed comes back.
RolledBack(call) ==
    IF call.intent = "add" THEN Only(chips, {i \in DOMAIN chips : chips[i] # call.tag})
    ELSE LET at == IF call.index > Len(chips) + 1 THEN Len(chips) + 1 ELSE call.index
         IN  InsertAt(chips, at, call.tag)

TagLands(call) ==
    /\ call.at = "served" /\ tagCalls' = tagCalls \ {call}
    /\ UNCHANGED <<moves, tags, chips, crossed>>

\* Refused, not sent, or written with its answer lost.
TagFails(call) ==
    /\ tagCalls' = tagCalls \ {call}
    /\ chips' = RolledBack(call)
    /\ crossed' = IF call.at = "served" THEN crossed \cup {call.tag} ELSE crossed
    /\ UNCHANGED <<moves, tags>>

TagNext ==
    \/ \E tag \in Tags : SubmitTag(tag)
    \/ \E i \in 1 .. MaxMoves : RemoveChip(i)
    \/ \E c \in tagCalls : TagServed(c) \/ TagLands(c) \/ TagFails(c)

(***************************************************************************)
(* The pool search.                                                        *)
(***************************************************************************)

\* A keystroke sets the timer again, and takes the error voice down.
TypeQuery(q) ==
    /\ Moves /\ q # typed /\ typed' = q /\ debounced' = TRUE /\ unavailable' = FALSE
    /\ UNCHANGED <<url, inflight, table, pickVars, likeVars>>

NewSearch == [query |-> typed, aborted |-> FALSE, at |-> "sent", rows |-> {}, stale |-> {}]

\* Mutant: the older search is not aborted.
PoolRunNoAbort ==
    /\ debounced /\ debounced' = FALSE
    /\ url' = typed
    /\ inflight' = inflight \cup {NewSearch}
    /\ UNCHANGED <<moves, typed, table, unavailable, pickVars, likeVars>>

\* The timer fires: the address bar, an abort of the older search, a request.
PoolRun ==
    /\ debounced /\ debounced' = FALSE
    /\ url' = typed
    /\ inflight' = {[r EXCEPT !.aborted = TRUE] : r \in inflight} \cup {NewSearch}
    /\ UNCHANGED <<moves, typed, table, unavailable, pickVars, likeVars>>

\* /partials/pool-rows renders each row's like button as pool_get answers.
SearchServed(r) ==
    /\ r.at = "sent"
    /\ inflight' = (inflight \ {r}) \cup {[r EXCEPT !.at = "served", !.rows = liked]}
    /\ UNCHANGED <<moves, fieldVars, pickVars, likeVars>>

\* poolSwap: the rows go with their buttons and menus, and a toggle in flight
\* is left the bar's button only.
PoolSwap(r) ==
    /\ table' = r.query /\ menu' = Bare
    /\ heart' = [b \in DOMAIN heart |->
                     IF b = "bar" THEN heart[b]
                     ELSE [song |-> b, shows |-> b \in r.rows, disabled |-> FALSE]]
    /\ likeCalls' = {[c EXCEPT !.buttons = @ \cap {"bar"}] : c \in likeCalls}
    /\ muddled' = muddled \cup r.stale \cup {c.song : c \in {d \in likeCalls : d.at = "sent"}}

\* An answer is swapped in unless its request was aborted meanwhile.
SearchLands(r) ==
    /\ r.at = "served" /\ inflight' = inflight \ {r}
    /\ \/ r.aborted /\ UNCHANGED <<table, menu, heart, likeCalls, muddled>>
       \/ ~r.aborted /\ PoolSwap(r)
    /\ UNCHANGED <<moves, typed, debounced, url, unavailable, liked, barAsk,
                   crates, lists, listCache, modal, dueCrates, overtaken>>

\* An aborted request fails silently; an outage keeps the rows and says so.
SearchFails(r) ==
    /\ inflight' = inflight \ {r}
    /\ unavailable' = (unavailable \/ ~r.aborted)
    /\ UNCHANGED <<moves, typed, debounced, url, table, pickVars, likeVars>>

SearchNext ==
    \/ \E q \in Queries : TypeQuery(q)
    \/ PoolRun
    \/ \E r \in inflight : SearchServed(r) \/ SearchLands(r) \/ SearchFails(r)

\* The four on one page.
ControlsNext ==
    \/ PickNext /\ UNCHANGED <<likeVars, tagVars, searchVars>>
    \/ LikeNext /\ UNCHANGED <<pickVars, tagVars, fieldVars>>
    \/ TagNext /\ UNCHANGED <<pickVars, likeVars, searchVars>>
    \/ SearchNext /\ UNCHANGED tagVars

ControlsSpec == ControlsInit /\ [][ControlsNext]_controlsVars

(***************************************************************************)
(* Properties.                                                             *)
(***************************************************************************)

\* Shape of the four controls.
ControlsTypeOK ==
    /\ listCache \in 0 .. Len(lists) /\ menu \in Bare .. crates /\ dueCrates <= crates
    /\ \A b \in DOMAIN heart : heart[b].song \in Songs \cup {NoSong}
    /\ Cardinality(tags) <= TagCap
    /\ Cardinality({r \in inflight : ~r.aborted}) <= 1

\* A populated picker offers every crate that had been made when its cache was
\* last nulled: a crate the member has just made is an option in every menu.
\* A list that was in flight at that moment may still land and fill the menus.
PickerListsCreated == menu >= 0 /\ ~overtaken => menu >= dueCrates

\* When no toggle is in flight, every button of a song, in a row and in the bar,
\* shows what the server holds.  Not so: a lost answer, two toggles of a song
\* at once, a bar that is pointed at another song under a toggle, and a table
\* that is replaced under one or by rows served before one.
HeartsAgree ==
    likeCalls = {} =>
        \A b \in DOMAIN heart :
            heart[b].song \notin muddled \cup {NoSong} =>
                heart[b].shows = (heart[b].song \in liked)

\* When no edit is in flight, the chips are the track's tags, each once,
\* however the edits and their refusals overlapped; edits of one tag that
\* cross, and a lost answer, aside.
ChipsSettle ==
    tagCalls = {} => /\ ToSet(chips) \ crossed = tags \ crossed
                     /\ \A i, j \in DOMAIN chips :
                           chips[i] = chips[j] /\ chips[i] \notin crossed => i = j

\* The rows shown answer the query in the address bar, unless a search is on
\* its way or the page says that it failed: a slow answer never comes last.
TableAnswersUrl == table # url => unavailable \/ debounced \/ \E r \in inflight : ~r.aborted

\* Controls painted before their answer come, when all have answered, to what
\* the server holds.
ControlsSettle == HeartsAgree /\ ChipsSettle /\ TableAnswersUrl
=============================================================================
