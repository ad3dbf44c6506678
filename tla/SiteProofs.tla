------------------------------ MODULE SiteProofs ------------------------------
(***************************************************************************)
(* Theorems about the parts of the site: the controls of a page            *)
(* (PageControls), the duration check (Preflight), a crate (Crates), the   *)
(* upload list (UploadList) and what lies over the page (Overlays); and    *)
(* about the run of all the parts (MCSite), whose other parts have their   *)
(* theorems in StrategyProofs, TransferProofs and DedupProofs.             *)
(***************************************************************************)
EXTENDS MCSite, StrategyProofs, TransferProofs, DedupProofs

(***************************************************************************)
(* The picker.                                                             *)
(***************************************************************************)

ListRequests == [at : {"sent", "served", "landed"}, n : Int]

PickShape ==
    /\ crates \in Nat /\ dueCrates \in Nat /\ dueCrates <= crates /\ menu \in Int
    /\ overtaken \in BOOLEAN
    /\ lists \in Seq(ListRequests) /\ listCache \in 0 .. Len(lists)

\* Requests sent since the cache was nulled are answered with a list that is
\* long enough, and the cached one is such a request.
FreshLists ==
    ~overtaken =>
        /\ \A r \in DOMAIN lists : lists[r].at = "served" => lists[r].n >= dueCrates
        /\ listCache # 0 /\ lists[listCache].at = "landed" =>
               lists[listCache].n = NoList \/ lists[listCache].n >= dueCrates

PickInv == PickShape /\ FreshLists /\ PickerListsCreated

\* A request is a request.
LEMMA RequestTyped ==
    ASSUME PickShape
    PROVE  \A r \in DOMAIN lists : lists[r] \in ListRequests /\ lists[r].n \in Int
<1>1. \A r \in DOMAIN lists : lists[r] \in ListRequests
  BY DEF PickShape
<1>2. \A q \in ListRequests : q.n \in Int
  BY DEF ListRequests
<1> QED  BY <1>1, <1>2

\* Filling the menus from the cached list keeps the invariant.
LEMMA ListLoads ==
    ASSUME PickInv, LoadCrateList, UNCHANGED <<crates, dueCrates, overtaken>>
    PROVE  PickInv'
<1> USE DEF PickInv, PickShape, FreshLists, PickerListsCreated, ListRequests, NoList
<1>1. CASE listCache = 0
  <2>1. /\ lists' = Append(lists, [at |-> "sent", n |-> 0])
        /\ listCache' = Len(lists) + 1 /\ menu' = menu
    BY <1>1 DEF LoadCrateList
  <2>2. [at |-> "sent", n |-> 0] \in ListRequests
    OBVIOUS
  <2>3. /\ lists' \in Seq(ListRequests) /\ Len(lists') = Len(lists) + 1
        /\ DOMAIN lists' = 1 .. Len(lists) + 1
        /\ \A r \in 1 .. Len(lists) : lists'[r] = lists[r]
        /\ lists'[Len(lists) + 1] = [at |-> "sent", n |-> 0]
    BY <2>1, <2>2
  <2>4. \A r \in DOMAIN lists' : lists'[r].at = "served" => r \in DOMAIN lists
    BY <2>3
  <2>5. lists'[listCache'].at # "landed"
    BY <2>1, <2>3
  <2> QED  BY <2>1, <2>3, <2>4, <2>5
<1>2. CASE listCache # 0
  <2>1. /\ lists' = lists /\ listCache' = listCache
        /\ menu' = IF lists[listCache].at = "landed" THEN Populated(lists[listCache].n) ELSE menu
    BY <1>2 DEF LoadCrateList
  <2>2. listCache \in DOMAIN lists
    BY <1>2
  <2>3. lists[listCache].n \in Int
    BY <2>2, RequestTyped
  <2> QED  BY <2>1, <2>2, <2>3 DEF Populated
<1> QED  BY <1>1, <1>2

\* Nulling the cache keeps it: no request is left that may answer too little,
\* or the overtaken ones are excused.
LEMMA CacheNulled ==
    ASSUME PickInv, InvalidateCratePickerCache, Nulled, crates' \in Nat
    PROVE  PickInv'
<1> USE DEF PickInv, PickShape, FreshLists, PickerListsCreated, ListRequests
<1>1. /\ menu' = Bare /\ listCache' = 0 /\ lists' = lists /\ dueCrates' = crates'
      /\ overtaken' = (\E r \in DOMAIN lists : lists[r].at # "landed")
  BY DEF InvalidateCratePickerCache, Nulled
<1>2. overtaken' \in BOOLEAN
  BY <1>1
<1>3. ~overtaken' => \A r \in DOMAIN lists' : lists'[r].at # "served"
  BY <1>1
<1> QED  BY <1>1, <1>2, <1>3 DEF Bare

\* Every step of the picker keeps its invariant.
LEMMA PickStep ==
    ASSUME PickInv, PickNext
    PROVE  PickInv'
<1> USE DEF PickInv, PickShape, FreshLists, PickerListsCreated, ListRequests
<1>1. CASE OpenPicker
  BY <1>1, ListLoads DEF OpenPicker
<1>2. ASSUME NEW r \in DOMAIN lists, ListServed(r)
      PROVE  PickInv'
  <2>1. /\ lists' = [lists EXCEPT ![r] = [at |-> "served", n |-> crates]]
        /\ lists[r].at = "sent"
        /\ UNCHANGED <<crates, listCache, menu, dueCrates, overtaken>>
    BY <1>2 DEF ListServed
  <2>2. [at |-> "served", n |-> crates] \in ListRequests
    OBVIOUS
  <2>3. /\ lists' \in Seq(ListRequests) /\ Len(lists') = Len(lists) /\ DOMAIN lists' = DOMAIN lists
        /\ lists'[r] = [at |-> "served", n |-> crates]
        /\ \A q \in DOMAIN lists : q # r => lists'[q] = lists[q]
    BY <2>1, <2>2
  <2>4. listCache' # 0 /\ lists'[listCache'].at = "landed" =>
            listCache # r /\ lists'[listCache'] = lists[listCache]
    BY <2>1, <2>3
  <2> QED  BY <2>1, <2>3, <2>4
<1>3. ASSUME NEW r \in DOMAIN lists, NEW fails \in BOOLEAN, ListLands(r, fails)
      PROVE  PickInv'
  <2> DEFINE k == IF fails THEN NoList ELSE lists[r].n
  <2>1. /\ lists' = [lists EXCEPT ![r] = [at |-> "landed", n |-> k]]
        /\ lists[r].at = "served" /\ menu' = IF menu = Bare THEN k ELSE menu
        /\ UNCHANGED <<crates, listCache, dueCrates, overtaken>>
    BY <1>3 DEF ListLands, Populated
  <2>2. k \in Int /\ lists[r] \in ListRequests
    BY RequestTyped DEF NoList
  <2>3. ~overtaken => k = NoList \/ k >= dueCrates
    BY <2>1
  <2> HIDE DEF k
  <2>4. [at |-> "landed", n |-> k] \in ListRequests
    BY <2>2
  <2>5. /\ lists' \in Seq(ListRequests) /\ Len(lists') = Len(lists) /\ DOMAIN lists' = DOMAIN lists
        /\ lists'[r] = [at |-> "landed", n |-> k]
        /\ \A q \in DOMAIN lists : q # r => lists'[q] = lists[q]
    BY <2>1, <2>4
  <2>6. FreshLists'
    BY <2>1, <2>3, <2>5
  <2>7. PickerListsCreated'
    BY <2>1, <2>2, <2>3 DEF Bare, NoList
  <2> QED  BY <2>1, <2>2, <2>5, <2>6, <2>7
<1>4. CASE CreateCrate
  BY <1>4 DEF CreateCrate
<1>5. CASE CrateMade
  BY <1>5 DEF CrateMade
<1>6. CASE CreateFails
  BY <1>6 DEF CreateFails
<1>7. CASE CreateLands
  <2>1. InvalidateCratePickerCache /\ Nulled /\ crates' \in Nat
    BY <1>7 DEF CreateLands
  <2> QED  BY <2>1, CacheNulled
<1>8. CASE AddSettles
  BY <1>8, ListLoads DEF AddSettles
<1>9. ASSUME NEW creates \in BOOLEAN, SwapPage(creates)
      PROVE  PickInv'
  <2>1. InvalidateCratePickerCache /\ Nulled /\ crates' \in Nat
    BY <1>9 DEF SwapPage, InvalidateCratePickerCache
  <2> QED  BY <2>1, CacheNulled
<1> QED  BY <1>1, <1>2, <1>3, <1>4, <1>5, <1>6, <1>7, <1>8, <1>9 DEF PickNext

(***************************************************************************)
(* The like buttons.                                                       *)
(***************************************************************************)

Buttons == Songs \cup {"bar"}
Faces == [song : Songs \cup {NoSong}, shows : BOOLEAN, disabled : BOOLEAN]
Toggles == [id : Nat, song : Songs \cup {NoSong}, buttons : SUBSET Buttons, was : BOOLEAN,
            at : {"sent", "served"}, result : BOOLEAN, alone : BOOLEAN]
Asks == [song : Songs \cup {NoSong}, shows : BOOLEAN, stale : BOOLEAN]

IsSearch(r) == r = [query |-> r.query, aborted |-> r.aborted, at |-> r.at,
                    rows |-> r.rows, stale |-> r.stale]

LikeShape ==
    /\ moves \in Nat /\ heart \in [Buttons -> Faces]
    /\ likeCalls \in SUBSET Toggles /\ barAsk \in Seq(Asks)
    /\ \A r \in inflight : IsSearch(r)

\* A toggle that is alone is the only one of its song; the song of another is
\* muddled.
AloneIsOnly ==
    \A c \in likeCalls :
        /\ c.alone => \A d \in likeCalls : d.song = c.song => d = c
        /\ ~c.alone => c.song \in muddled

\* What a toggle will paint is what the server holds, on every button of its
\* song; the rows that a search brought after it was served show that already.
TogglesTell ==
    \A c \in likeCalls :
        /\ c.song \notin muddled \cup {NoSong} =>
               \A b \in Buttons : heart[b].song = c.song =>
                   b \in c.buttons \/ (c.at = "served" /\ (heart[b].shows <=> c.song \in liked))
        /\ c.song \notin muddled \cup {NoSong} /\ c.at = "sent" => (c.was <=> c.song \in liked)
        /\ c.alone /\ c.at = "served" => (c.result <=> c.song \in liked)

AskTells ==
    \A i \in DOMAIN barAsk : ~barAsk[i].stale => (barAsk[i].shows <=> barAsk[i].song \in liked)

\* The rows of a search show what the server holds of the songs not toggled since.
RowsTell ==
    \A r \in inflight : r.at = "served" =>
        \A s \in Songs : s \notin r.stale => (s \in r.rows <=> s \in liked)

\* A button whose song is clean and has no toggle in flight.
ButtonsTell ==
    \A b \in Buttons :
        heart[b].song \notin muddled \cup {NoSong}
        /\ (\A c \in likeCalls : c.song # heart[b].song) =>
            (heart[b].shows <=> heart[b].song \in liked)

LikeInv == LikeShape /\ AloneIsOnly /\ TogglesTell /\ AskTells /\ RowsTell /\ ButtonsTell

\* A search that was served when a toggle of song is.
Staled(r, song) == IF r.at = "served" THEN [r EXCEPT !.stale = r.stale \cup {song}] ELSE r

\* Only what has become stale is noted.
LEMMA StaledFacts ==
    ASSUME NEW r, IsSearch(r), NEW song
    PROVE  LET t == Staled(r, song)
           IN  /\ IsSearch(t) /\ t.query = r.query /\ t.aborted = r.aborted
               /\ t.at = r.at /\ t.rows = r.rows
               /\ r.at = "served" => t.stale = r.stale \cup {song}
<1> DEFINE more == r.stale \cup {song}
           q == r.query
           a == r.aborted
           k == r.at
           rs == r.rows
           old == r.stale
<1>1. r = [query |-> q, aborted |-> a, at |-> k, rows |-> rs, stale |-> old]
  BY DEF IsSearch
<1>2. Staled(r, song) = IF r.at = "served" THEN [r EXCEPT !.stale = more] ELSE r
  BY DEF Staled
<1> HIDE DEF more, q, a, k, rs, old
<1>3. [r EXCEPT !.stale = more] =
          [query |-> q, aborted |-> a, at |-> k, rows |-> rs, stale |-> more]
  BY <1>1
<1>4. CASE r.at = "served"
  BY <1>1, <1>2, <1>3, <1>4 DEF IsSearch, more
<1>5. CASE r.at # "served"
  BY <1>1, <1>2, <1>5
<1> QED  BY <1>4, <1>5

\* Painting changes what some buttons show and nothing else.
LEMMA PaintFacts ==
    ASSUME heart \in [Buttons -> Faces], NEW B, NEW shows \in BOOLEAN, NEW disabled \in BOOLEAN,
           Paint(B, shows, disabled)
    PROVE  /\ heart' \in [Buttons -> Faces]
           /\ \A b \in Buttons :
                 /\ heart'[b].song = heart[b].song
                 /\ b \in B => heart'[b].shows = shows
                 /\ b \notin B => heart'[b].shows = heart[b].shows
<1>1. \A b \in Buttons : heart[b] \in Faces /\ heart[b].song \in Songs \cup {NoSong}
  BY DEF Faces
<1>2. \A b \in Buttons : [song |-> heart[b].song, shows |-> shows, disabled |-> disabled] \in Faces
  BY <1>1 DEF Faces
<1>3. heart' = [b \in Buttons |->
                   IF b \in B THEN [song |-> heart[b].song, shows |-> shows, disabled |-> disabled]
                   ELSE heart[b]]
  BY DEF Paint
<1> QED  BY <1>1, <1>2, <1>3

\* A press takes the other toggles of its song out of being alone.
LEMMA PressStep ==
    ASSUME LikeInv, NEW button \in Buttons, PressLike(button)
    PROVE  LikeInv'
<1> DEFINE song == heart[button].song
           was == heart[button].shows
           al == \A c \in likeCalls : c.song # song
           Demoted(c) == [c EXCEPT !.alone = c.alone /\ c.song # song]
           new == [id |-> moves, song |-> song, buttons |-> ButtonsOf(button), was |-> was,
                   at |-> "sent", result |-> FALSE, alone |-> al]
<1>1. /\ moves' = moves + 1 /\ Paint(ButtonsOf(button), ~was, TRUE)
      /\ likeCalls' = {Demoted(c) : c \in likeCalls} \cup {new}
      /\ muddled' = IF \E c \in likeCalls : c.song = song THEN muddled \cup {song} ELSE muddled
      /\ liked' = liked /\ barAsk' = barAsk /\ inflight' = inflight
  BY DEF PressLike, Moves
<1>2. /\ moves \in Nat /\ heart \in [Buttons -> Faces] /\ likeCalls \in SUBSET Toggles
      /\ heart[button] \in Faces
  BY DEF LikeInv, LikeShape
<1>3. song \in Songs \cup {NoSong} /\ was \in BOOLEAN /\ (~was) \in BOOLEAN /\ al \in BOOLEAN
  BY <1>2 DEF Faces
<1>4. /\ ButtonsOf(button) \in SUBSET Buttons
      /\ \A b \in Buttons : b \in ButtonsOf(button) <=> heart[b].song = song
  BY <1>2 DEF ButtonsOf
<1>5. /\ heart' \in [Buttons -> Faces]
      /\ \A b \in Buttons :
            /\ heart'[b].song = heart[b].song
            /\ heart[b].song # song => heart'[b].shows = heart[b].shows
  BY <1>1, <1>2, <1>3, <1>4, PaintFacts
<1>6. \A c \in likeCalls :
         /\ Demoted(c) \in Toggles
         /\ Demoted(c).song = c.song /\ Demoted(c).buttons = c.buttons /\ Demoted(c).was = c.was
         /\ Demoted(c).at = c.at /\ Demoted(c).result = c.result
         /\ Demoted(c).alone <=> c.alone /\ c.song # song
  BY <1>2 DEF Toggles
<1>7. al <=> \A c \in likeCalls : c.song # song
  OBVIOUS
<1>8. song \notin muddled' => al /\ song \notin muddled
  BY <1>1, <1>7
<1>9. muddled \subseteq muddled' /\ (~al => song \in muddled')
      /\ muddled' \subseteq muddled \cup {song}
  BY <1>1, <1>7
<1>10. song \notin muddled \cup {NoSong} /\ al => (was <=> song \in liked)
  BY <1>7, <1>2 DEF LikeInv, ButtonsTell
<1> HIDE DEF al, Demoted, was
<1>11. /\ new \in Toggles /\ new.song = song /\ new.buttons = ButtonsOf(button)
       /\ (new.was <=> was) /\ new.at = "sent" /\ (new.alone <=> al)
  BY <1>2, <1>3, <1>4 DEF Toggles
<1> HIDE DEF new
<1>12. LikeShape'
  <2>1. likeCalls' \in SUBSET Toggles
    BY <1>1, <1>6, <1>11
  <2> QED  BY <2>1, <1>1, <1>5 DEF LikeInv, LikeShape
<1>13. AloneIsOnly'
  <2>1. ASSUME NEW c \in likeCalls
        PROVE  /\ Demoted(c).alone => \A d \in likeCalls' : d.song = Demoted(c).song => d = Demoted(c)
               /\ ~Demoted(c).alone => Demoted(c).song \in muddled'
    <3>1. CASE c.song = song
      BY <3>1, <1>6, <1>7, <1>9
    <3>2. CASE c.song # song
      <4>1. Demoted(c).alone <=> c.alone
        BY <3>2, <1>6
      <4>2. c.alone => \A d \in likeCalls : d.song = c.song => d = c
        BY DEF LikeInv, AloneIsOnly
      <4>3. ~c.alone => c.song \in muddled
        BY DEF LikeInv, AloneIsOnly
      <4> QED  BY <3>2, <4>1, <4>2, <4>3, <1>1, <1>6, <1>9, <1>11
    <3> QED  BY <3>1, <3>2
  <2>2. /\ new.alone => \A d \in likeCalls' : d.song = new.song => d = new
        /\ ~new.alone => new.song \in muddled'
    BY <1>1, <1>6, <1>7, <1>9, <1>11
  <2> QED  BY <1>1, <2>1, <2>2 DEF AloneIsOnly
<1>14. TogglesTell'
  <2>1. ASSUME NEW c \in likeCalls
        PROVE  LET e == Demoted(c)
               IN  /\ e.song \notin muddled' \cup {NoSong} =>
                          \A b \in Buttons : heart'[b].song = e.song =>
                              b \in e.buttons \/ (e.at = "served" /\ (heart'[b].shows <=> e.song \in liked'))
                   /\ e.song \notin muddled' \cup {NoSong} /\ e.at = "sent" => (e.was <=> e.song \in liked')
                   /\ e.alone /\ e.at = "served" => (e.result <=> e.song \in liked')
    <3>1. c.song \notin muddled' => c.song \notin muddled /\ c.song # song
      BY <1>7, <1>9
    <3> QED  BY <3>1, <1>1, <1>5, <1>6 DEF LikeInv, TogglesTell
  <2>2. /\ new.song \notin muddled' => \A b \in Buttons : heart'[b].song = new.song => b \in new.buttons
        /\ new.song \notin muddled' \cup {NoSong} /\ new.at = "sent" => (new.was <=> new.song \in liked')
        /\ new.alone /\ new.at = "served" => (new.result <=> new.song \in liked')
    BY <1>1, <1>4, <1>5, <1>8, <1>10, <1>11
  <2> QED  BY <1>1, <2>1, <2>2 DEF TogglesTell
<1>15. AskTells' /\ RowsTell'
  BY <1>1 DEF LikeInv, AskTells, RowsTell
<1>16. ButtonsTell'
  <2> SUFFICES ASSUME NEW b \in Buttons, heart'[b].song \notin muddled' \cup {NoSong},
                      \A c \in likeCalls' : c.song # heart'[b].song
               PROVE  heart'[b].shows <=> heart'[b].song \in liked'
    BY DEF ButtonsTell
  <2>1. heart[b].song # song
    BY <1>1, <1>5, <1>11
  <2>2. \A c \in likeCalls : c.song # heart[b].song
    BY <1>1, <1>5, <1>6
  <2>3. heart'[b].shows = heart[b].shows /\ heart'[b].song = heart[b].song
    BY <2>1, <1>5
  <2>4. heart[b].song \notin muddled \cup {NoSong}
    BY <2>3, <1>9
  <2> QED  BY <2>2, <2>3, <2>4, <1>1 DEF LikeInv, ButtonsTell
<1> QED  BY <1>12, <1>13, <1>14, <1>15, <1>16 DEF LikeInv

\* The server serves a toggle: the song's like flips, and what is on its way to
\* the bar is stale.
LEMMA ToggleStep ==
    ASSUME LikeInv, NEW call \in likeCalls, ToggleLike(call)
    PROVE  LikeInv'
<1> DEFINE song == call.song
           flips == song \in liked'
           new == [id |-> call.id, song |-> call.song, buttons |-> call.buttons, was |-> call.was,
                   at |-> "served", result |-> flips, alone |-> call.alone]
           Aged(a) == [a EXCEPT !.stale = a.stale \/ a.song = song]
<1>1. /\ call.at = "sent" /\ moves' = moves /\ heart' = heart /\ muddled' = muddled
      /\ liked' = IF song \in liked THEN liked \ {song} ELSE liked \cup {song}
      /\ likeCalls' = (likeCalls \ {call}) \cup {new}
      /\ barAsk' = [i \in DOMAIN barAsk |-> Aged(barAsk[i])]
      /\ inflight' = {Staled(r, song) : r \in inflight}
  BY DEF ToggleLike, Staled
<1>2. /\ moves \in Nat /\ likeCalls \in SUBSET Toggles /\ barAsk \in Seq(Asks)
      /\ \A r \in inflight : IsSearch(r)
  BY DEF LikeInv, LikeShape
<1>3. \A s : s # song => (s \in liked' <=> s \in liked)
  BY <1>1
<1>4. flips \in BOOLEAN
  OBVIOUS
<1>5. \A a \in Asks : /\ Aged(a) \in Asks /\ Aged(a).song = a.song /\ Aged(a).shows = a.shows
                      /\ Aged(a).stale <=> a.stale \/ a.song = song
  BY DEF Asks
<1>6. flips <=> song \in liked'
  OBVIOUS
<1> HIDE DEF flips, Aged
<1>7. /\ new \in Toggles /\ new.song = song /\ new.buttons = call.buttons
      /\ new.was = call.was /\ new.at = "served" /\ (new.result <=> flips)
      /\ new.alone = call.alone
  BY <1>2, <1>4 DEF Toggles
<1> HIDE DEF new
<1>8. \A i \in DOMAIN barAsk : barAsk[i] \in Asks
  BY <1>2
<1>9. DOMAIN barAsk' = DOMAIN barAsk /\ \A i \in DOMAIN barAsk : barAsk'[i] = Aged(barAsk[i])
  BY <1>1
<1>10. LikeShape'
  <2>1. barAsk' \in Seq(Asks)
    <3>1. DOMAIN barAsk = 1 .. Len(barAsk) /\ Len(barAsk) \in Nat
      BY <1>2
    <3>2. \A i \in 1 .. Len(barAsk) : Aged(barAsk[i]) \in Asks
      BY <3>1, <1>5, <1>8
    <3> QED  BY <3>1, <3>2, <1>1
  <2>2. \A r \in inflight' : IsSearch(r)
    BY <1>1, <1>2, StaledFacts
  <2> QED  BY <2>1, <2>2, <1>1, <1>2, <1>7 DEF LikeInv, LikeShape
<1>11. AloneIsOnly'
  <2>1. ASSUME NEW c \in likeCalls, c # call
        PROVE  /\ c.alone => c.song # song /\ \A d \in likeCalls' : d.song = c.song => d = c
               /\ ~c.alone => c.song \in muddled'
    BY <2>1, <1>1, <1>7 DEF LikeInv, AloneIsOnly
  <2>2. /\ new.alone => \A d \in likeCalls' : d.song = new.song => d = new
        /\ ~new.alone => new.song \in muddled'
    BY <1>1, <1>7 DEF LikeInv, AloneIsOnly
  <2> QED  BY <1>1, <2>1, <2>2 DEF AloneIsOnly
<1>12. TogglesTell'
  <2>1. ASSUME NEW c \in likeCalls, c # call
        PROVE  /\ c.song \notin muddled' \cup {NoSong} =>
                      \A b \in Buttons : heart'[b].song = c.song =>
                          b \in c.buttons \/ (c.at = "served" /\ (heart'[b].shows <=> c.song \in liked'))
               /\ c.song \notin muddled' \cup {NoSong} /\ c.at = "sent" => (c.was <=> c.song \in liked')
               /\ c.alone /\ c.at = "served" => (c.result <=> c.song \in liked')
    <3>1. c.alone => c.song # song
      BY <2>1 DEF LikeInv, AloneIsOnly
    <3>2. c.song \notin muddled => c.alone
      BY <2>1 DEF LikeInv, AloneIsOnly
    <3>3. c.alone => (c.song \in liked' <=> c.song \in liked)
      BY <3>1, <1>3
    <3> QED  BY <3>2, <3>3, <1>1 DEF LikeInv, TogglesTell
  <2>2. /\ new.song \notin muddled' \cup {NoSong} =>
               \A b \in Buttons : heart'[b].song = new.song => b \in new.buttons
        /\ new.at # "sent"
        /\ new.result <=> new.song \in liked'
    BY <1>1, <1>6, <1>7 DEF LikeInv, TogglesTell
  <2> QED  BY <1>1, <2>1, <2>2 DEF TogglesTell
<1>13. AskTells'
  BY <1>3, <1>5, <1>8, <1>9 DEF LikeInv, AskTells
<1>14. ButtonsTell'
  BY <1>1, <1>3, <1>7 DEF LikeInv, ButtonsTell
<1>15. RowsTell'
  <2> SUFFICES ASSUME NEW r \in inflight', r.at = "served", NEW s \in Songs, s \notin r.stale
               PROVE  s \in r.rows <=> s \in liked'
    BY DEF RowsTell
  <2>1. PICK p \in inflight : r = Staled(p, song)
    BY <1>1
  <2>2. p.at = "served" /\ r.rows = p.rows /\ r.stale = p.stale \cup {song}
    BY <2>1, <1>2, StaledFacts
  <2>3. s # song /\ s \notin p.stale
    BY <2>2
  <2> QED  BY <2>2, <2>3, <1>3 DEF LikeInv, RowsTell
<1> QED  BY <1>10, <1>11, <1>12, <1>13, <1>14, <1>15 DEF LikeInv

\* What an answer, or its rollback, paints, when it is right wherever its song
\* is clean afterwards.
LEMMA PaintedStep ==
    ASSUME LikeInv, NEW call \in likeCalls, NEW shows \in BOOLEAN,
           Paint(call.buttons, shows, FALSE), likeCalls' = likeCalls \ {call},
           UNCHANGED <<moves, liked, barAsk, inflight>>,
           \A s \in muddled : s \notin muddled' => s = call.song /\ call.alone
                 /\ \A b \in Buttons : heart[b].song = call.song => b \in call.buttons,
           \A b \in call.buttons : heart[b].song \notin muddled' \cup {NoSong} =>
                 heart[b].song = call.song /\ (shows <=> call.song \in liked)
    PROVE  LikeInv'
<1>1. heart \in [Buttons -> Faces] /\ likeCalls \in SUBSET Toggles
  BY DEF LikeInv, LikeShape
<1>2. /\ heart' \in [Buttons -> Faces]
      /\ \A b \in Buttons :
            /\ heart'[b].song = heart[b].song
            /\ b \in call.buttons => heart'[b].shows = shows
            /\ b \notin call.buttons => heart'[b].shows = heart[b].shows
  <2>1. FALSE \in BOOLEAN
    OBVIOUS
  <2> QED  BY <2>1, <1>1, PaintFacts
<1>3. LikeShape'
  BY <1>1, <1>2 DEF LikeInv, LikeShape
<1>4. \A c \in likeCalls' : c \in likeCalls /\ (c.alone => c.song # call.song)
  BY DEF LikeInv, AloneIsOnly
<1>5. \A c \in likeCalls' : ~c.alone => ~call.alone \/ c.song # call.song
  BY DEF LikeInv, AloneIsOnly
<1>6. \A c \in likeCalls' : c.song \notin muddled' => c.song \notin muddled
  BY <1>4, <1>5
<1>7. AloneIsOnly'
  <2>1. \A c \in likeCalls' : c.alone => \A d \in likeCalls' : d.song = c.song => d = c
    BY <1>4 DEF LikeInv, AloneIsOnly
  <2>2. \A c \in likeCalls' : ~c.alone => c.song \in muddled
    BY <1>4 DEF LikeInv, AloneIsOnly
  <2> QED  BY <2>1, <2>2, <1>6 DEF AloneIsOnly
<1>8. TogglesTell'
  <2> SUFFICES ASSUME NEW c \in likeCalls'
               PROVE  /\ c.song \notin muddled' \cup {NoSong} =>
                             \A b \in Buttons : heart'[b].song = c.song =>
                                 b \in c.buttons \/ (c.at = "served" /\ (heart'[b].shows <=> c.song \in liked'))
                      /\ c.song \notin muddled' \cup {NoSong} /\ c.at = "sent" => (c.was <=> c.song \in liked')
                      /\ c.alone /\ c.at = "served" => (c.result <=> c.song \in liked')
    BY DEF TogglesTell
  <2>1. ASSUME c.song \notin muddled' \cup {NoSong}, NEW b \in Buttons, heart'[b].song = c.song,
               b \notin c.buttons
        PROVE  c.at = "served" /\ (heart'[b].shows <=> c.song \in liked')
    <3>1. c \in likeCalls /\ c.song \notin muddled
      BY <2>1, <1>4, <1>6
    <3>2. c.alone /\ c.song # call.song
      BY <3>1, <1>4 DEF LikeInv, AloneIsOnly
    <3>3. b \notin call.buttons
      BY <2>1, <3>2, <1>2
    <3> QED  BY <2>1, <3>1, <3>3, <1>2 DEF LikeInv, TogglesTell
  <2> QED  BY <2>1, <1>4, <1>6 DEF LikeInv, TogglesTell
<1>9. AskTells' /\ RowsTell'
  BY DEF LikeInv, AskTells, RowsTell
<1>10. ButtonsTell'
  <2> SUFFICES ASSUME NEW b \in Buttons, heart'[b].song \notin muddled' \cup {NoSong},
                      \A c \in likeCalls' : c.song # heart'[b].song
               PROVE  heart'[b].shows <=> heart'[b].song \in liked'
    BY DEF ButtonsTell
  <2>1. CASE b \in call.buttons
    BY <2>1, <1>2
  <2>2. CASE b \notin call.buttons
    <3>1. heart[b].song \notin muddled \cup {NoSong}
      BY <2>2, <1>2
    <3>2. CASE heart[b].song = call.song
      BY <2>2, <3>1, <3>2, <1>2 DEF LikeInv, TogglesTell
    <3>3. CASE heart[b].song # call.song
      <4>1. \A c \in likeCalls : c.song # heart[b].song
        BY <3>3, <1>2
      <4> QED  BY <2>2, <3>1, <4>1, <1>2 DEF LikeInv, ButtonsTell
    <3> QED  BY <3>2, <3>3
  <2> QED  BY <2>1, <2>2
<1> QED  BY <1>3, <1>7, <1>8, <1>9, <1>10 DEF LikeInv

\* An answer of a toggle is painted.
LEMMA LikeLandsStep ==
    ASSUME LikeInv, NEW call \in likeCalls, LikeLands(call)
    PROVE  LikeInv'
<1> DEFINE moved == {heart[b].song : b \in call.buttons} \ {call.song, NoSong}
           same == call.alone /\ call.buttons = {b \in DOMAIN heart : heart[b].song = call.song}
<1>1. /\ call.at = "served" /\ Paint(call.buttons, call.result, FALSE)
      /\ muddled' = (IF same THEN muddled \ {call.song} ELSE muddled) \cup moved
      /\ likeCalls' = likeCalls \ {call} /\ UNCHANGED <<moves, liked, barAsk, inflight>>
  BY DEF LikeLands
<1>2. call \in Toggles /\ heart \in [Buttons -> Faces]
  BY DEF LikeInv, LikeShape
<1>3. call.result \in BOOLEAN
  BY <1>2 DEF Toggles
<1>4. \A s \in muddled : s \notin muddled' => s = call.song /\ call.alone
          /\ \A b \in Buttons : heart[b].song = call.song => b \in call.buttons
  BY <1>1, <1>2
<1>5. \A b \in call.buttons : heart[b].song \notin muddled' \cup {NoSong} =>
          heart[b].song = call.song /\ (call.result <=> call.song \in liked)
  <2> SUFFICES ASSUME NEW b \in call.buttons, heart[b].song \notin muddled' \cup {NoSong}
               PROVE  heart[b].song = call.song /\ (call.result <=> call.song \in liked)
    OBVIOUS
  <2>1. heart[b].song = call.song
    BY <1>1
  <2>2. call.alone
    BY <2>1, <1>1 DEF LikeInv, AloneIsOnly
  <2> QED  BY <2>1, <2>2, <1>1 DEF LikeInv, TogglesTell
<1> QED  BY <1>1, <1>3, <1>4, <1>5, PaintedStep

\* A toggle without an answer is rolled back.
LEMMA LikeFailsStep ==
    ASSUME LikeInv, NEW call \in likeCalls, LikeFails(call)
    PROVE  LikeInv'
<1> DEFINE moved == {heart[b].song : b \in call.buttons} \ {call.song, NoSong}
<1>1. /\ Paint(call.buttons, call.was, FALSE)
      /\ muddled' = muddled \cup moved \cup (IF call.at = "served" THEN {call.song} ELSE {})
      /\ likeCalls' = likeCalls \ {call} /\ UNCHANGED <<moves, liked, barAsk, inflight>>
  BY DEF LikeFails
<1>2. call \in Toggles
  BY DEF LikeInv, LikeShape
<1>3. call.was \in BOOLEAN /\ call.at \in {"sent", "served"}
  BY <1>2 DEF Toggles
<1>4. \A s \in muddled : s \notin muddled' => s = call.song /\ call.alone
          /\ \A b \in Buttons : heart[b].song = call.song => b \in call.buttons
  BY <1>1
<1>5. \A b \in call.buttons : heart[b].song \notin muddled' \cup {NoSong} =>
          heart[b].song = call.song /\ (call.was <=> call.song \in liked)
  BY <1>1, <1>3 DEF LikeInv, TogglesTell
<1>6. /\ call.was \in BOOLEAN /\ Paint(call.buttons, call.was, FALSE)
      /\ likeCalls' = likeCalls \ {call} /\ UNCHANGED <<moves, liked, barAsk, inflight>>
  BY <1>1, <1>3
<1> QED  BY <1>4, <1>5, <1>6, PaintedStep

\* What /source answers is on its way, then the bar shows it.
LEMMA BarStep ==
    ASSUME LikeInv, (\E song \in Songs : SourceServed(song)) \/ SetPlayerLike
    PROVE  LikeInv'
<1> USE DEF LikeInv
<1>1. ASSUME NEW song \in Songs, SourceServed(song)
      PROVE  LikeInv'
  <2> DEFINE shows == song \in liked
             ask == [song |-> song, shows |-> shows, stale |-> FALSE]
  <2>1. /\ moves' = moves + 1 /\ barAsk' = <<ask>>
        /\ UNCHANGED <<liked, heart, likeCalls, muddled, inflight>>
    BY <1>1 DEF SourceServed, Moves
  <2>2. shows \in BOOLEAN /\ (shows <=> song \in liked)
    OBVIOUS
  <2> HIDE DEF shows
  <2>3. ask \in Asks /\ ask.song = song /\ (ask.shows <=> shows)
    BY <2>2 DEF Asks
  <2> HIDE DEF ask
  <2>4. LikeShape'
    BY <2>1, <2>3 DEF LikeShape
  <2>5. AskTells'
    BY <2>1, <2>2, <2>3 DEF AskTells
  <2> QED  BY <2>1, <2>4, <2>5 DEF AloneIsOnly, TogglesTell, RowsTell, ButtonsTell
<1>2. CASE SetPlayerLike
  <2> DEFINE ask == barAsk[1]
             face == [song |-> ask.song, shows |-> ask.shows, disabled |-> FALSE]
  <2>1. /\ barAsk # <<>> /\ barAsk' = <<>> /\ heart' = [heart EXCEPT !["bar"] = face]
        /\ muddled' = IF ask.stale \/ \E c \in likeCalls : c.song = ask.song
                      THEN muddled \cup {ask.song} ELSE muddled
        /\ UNCHANGED <<moves, liked, likeCalls, inflight>>
    BY <1>2 DEF SetPlayerLike
  <2>2. barAsk \in Seq(Asks) /\ heart \in [Buttons -> Faces] /\ "bar" \in Buttons
    BY DEF LikeShape, Buttons
  <2>3. 1 \in DOMAIN barAsk /\ ask \in Asks
    BY <2>1, <2>2
  <2>4. ~ask.stale => (ask.shows <=> ask.song \in liked)
    BY <2>3 DEF AskTells
  <2>5. ask.song \notin muddled' => ~ask.stale /\ \A c \in likeCalls : c.song # ask.song
    BY <2>1
  <2>6. muddled \subseteq muddled'
    BY <2>1
  <2> HIDE DEF ask
  <2>7. face \in Faces /\ face.song = ask.song /\ (face.shows <=> ask.shows)
    BY <2>3 DEF Faces, Asks
  <2> HIDE DEF face
  <2>8. /\ heart' \in [Buttons -> Faces] /\ heart'["bar"] = face
        /\ \A b \in Buttons : b # "bar" => heart'[b] = heart[b]
    BY <2>1, <2>2, <2>7
  <2>9. LikeShape'
    BY <2>1, <2>8 DEF LikeShape
  <2>10. AloneIsOnly'
    BY <2>1, <2>6 DEF AloneIsOnly
  <2>11. TogglesTell'
    BY <2>1, <2>2, <2>5, <2>6, <2>7, <2>8 DEF TogglesTell
  <2>12. ButtonsTell'
    BY <2>1, <2>4, <2>5, <2>6, <2>7, <2>8 DEF ButtonsTell
  <2>13. AskTells' /\ RowsTell'
    BY <2>1 DEF AskTells, RowsTell
  <2> QED  BY <2>9, <2>10, <2>11, <2>12, <2>13
<1> QED  BY <1>1, <1>2

\* Every step of the like buttons keeps their invariant.
LEMMA LikeStep ==
    ASSUME LikeInv, LikeNext
    PROVE  LikeInv'
<1>1. ASSUME NEW b \in DOMAIN heart, PressLike(b)
      PROVE  LikeInv'
  <2>1. b \in Buttons
    BY DEF LikeInv, LikeShape
  <2> QED  BY <1>1, <2>1, PressStep
<1> QED  BY <1>1, ToggleStep, LikeLandsStep, LikeFailsStep, BarStep DEF LikeNext

(***************************************************************************)
(* The tag editor.                                                         *)
(***************************************************************************)

\* x stands at one place of s at most.
Once(s, x) == \A a, b \in DOMAIN s : s[a] = x /\ s[b] = x => a = b

\* An element is in a list when it stands somewhere in it.
LEMMA ListMember ==
    ASSUME NEW S, NEW s \in Seq(S), NEW x
    PROVE  x \in ToSet(s) <=> \E i \in 1 .. Len(s) : s[i] = x
BY DEF ToSet

\* An appended element is in the list, and there once if it was not before.
LEMMA Appended ==
    ASSUME NEW S, NEW s \in Seq(S), NEW e \in S
    PROVE  /\ Append(s, e) \in Seq(S)
           /\ \A x : x \in ToSet(Append(s, e)) <=> x \in ToSet(s) \/ x = e
           /\ \A x : x # e /\ Once(s, x) => Once(Append(s, e), x)
           /\ e \notin ToSet(s) => Once(Append(s, e), e)
<1> DEFINE t == Append(s, e)
<1>1. /\ t \in Seq(S) /\ Len(t) = Len(s) + 1 /\ Len(s) \in Nat
      /\ DOMAIN t = 1 .. Len(s) + 1 /\ DOMAIN s = 1 .. Len(s)
      /\ \A i \in 1 .. Len(s) : t[i] = s[i]
      /\ t[Len(s) + 1] = e
  OBVIOUS
<1> HIDE DEF t
<1>2. \A x : x \in ToSet(t) <=> x \in ToSet(s) \/ x = e
  <2> TAKE x
  <2>1. (\E i \in 1 .. Len(t) : t[i] = x) <=> (\E i \in 1 .. Len(s) : s[i] = x) \/ x = e
    BY <1>1
  <2> QED  BY <2>1, <1>1, ListMember
<1>3. \A x : x # e /\ Once(s, x) => Once(t, x)
  <2> SUFFICES ASSUME NEW x, x # e, Once(s, x), NEW a \in DOMAIN t, NEW b \in DOMAIN t,
                      t[a] = x, t[b] = x
               PROVE  a = b
    BY DEF Once
  <2>1. a \in 1 .. Len(s) /\ b \in 1 .. Len(s)
    BY <1>1
  <2> QED  BY <2>1, <1>1 DEF Once
<1>4. e \notin ToSet(s) => Once(t, e)
  BY <1>1, ListMember DEF Once
<1> QED  BY <1>1, <1>2, <1>3, <1>4 DEF t

\* Taking one element out leaves the others where they were, or one place up.
LEMMA TakenOut ==
    ASSUME NEW S, NEW s \in Seq(S), NEW a \in 1 .. Len(s)
    PROVE  /\ RemoveAt(s, a) \in Seq(S)
           /\ \A x : x # s[a] => (x \in ToSet(RemoveAt(s, a)) <=> x \in ToSet(s))
           /\ \A x : Once(s, x) => Once(RemoveAt(s, a), x)
           /\ Once(s, s[a]) => s[a] \notin ToSet(RemoveAt(s, a))
<1> DEFINE t == RemoveAt(s, a)
           up(i) == IF i < a THEN i ELSE i + 1
<1>0. /\ t \in Seq(S) /\ Len(t) = Len(s) - 1
      /\ \A i \in 1 .. Len(s) - 1 : t[i] = IF i < a THEN s[i] ELSE s[i + 1]
  BY RemoveAtFacts
<1> HIDE DEF t
<1>1. /\ t \in Seq(S) /\ Len(t) = Len(s) - 1 /\ Len(s) \in Nat /\ a \in Nat
      /\ DOMAIN t = 1 .. Len(s) - 1 /\ DOMAIN s = 1 .. Len(s)
      /\ \A i \in 1 .. Len(s) - 1 : t[i] = IF i < a THEN s[i] ELSE s[i + 1]
  BY <1>0
<1>2. \A i \in 1 .. Len(s) - 1 : up(i) \in 1 .. Len(s) /\ up(i) # a /\ t[i] = s[up(i)]
  BY <1>1
<1>3. \A i, k \in 1 .. Len(s) - 1 : up(i) = up(k) => i = k
  BY <1>1
<1>4. \A k \in 1 .. Len(s) : k # a => \E i \in 1 .. Len(s) - 1 : up(i) = k
  <2> SUFFICES ASSUME NEW k \in 1 .. Len(s), k # a
               PROVE  \E i \in 1 .. Len(s) - 1 : up(i) = k
    OBVIOUS
  <2>1. CASE k < a
    BY <2>1, <1>1
  <2>2. CASE k > a
    <3>1. k - 1 \in 1 .. Len(s) - 1 /\ up(k - 1) = k
      BY <2>2, <1>1
    <3> QED  BY <3>1
  <2> QED  BY <2>1, <2>2, <1>1
<1> HIDE DEF up
<1>5. \A x : x # s[a] => (x \in ToSet(t) <=> x \in ToSet(s))
  <2> SUFFICES ASSUME NEW x, x # s[a]
               PROVE  x \in ToSet(t) <=> x \in ToSet(s)
    OBVIOUS
  <2>1. ASSUME NEW i \in 1 .. Len(t), t[i] = x
        PROVE  \E k \in 1 .. Len(s) : s[k] = x
    BY <2>1, <1>1, <1>2
  <2>2. ASSUME NEW k \in 1 .. Len(s), s[k] = x
        PROVE  \E i \in 1 .. Len(t) : t[i] = x
    BY <2>2, <1>1, <1>2, <1>4
  <2>3. x \in ToSet(t) <=> \E i \in 1 .. Len(t) : t[i] = x
    BY <1>1, ListMember
  <2>4. x \in ToSet(s) <=> \E k \in 1 .. Len(s) : s[k] = x
    BY ListMember
  <2> QED  BY <2>1, <2>2, <2>3, <2>4
<1>6. \A x : Once(s, x) => Once(t, x)
  BY <1>1, <1>2, <1>3 DEF Once
<1>7. Once(s, s[a]) => s[a] \notin ToSet(t)
  <2> SUFFICES ASSUME Once(s, s[a]), s[a] \in ToSet(t)
               PROVE  FALSE
    OBVIOUS
  <2>1. PICK i \in 1 .. Len(t) : t[i] = s[a]
    BY <1>1, ListMember
  <2> QED  BY <2>1, <1>1, <1>2 DEF Once
<1> QED  BY <1>1, <1>5, <1>6, <1>7 DEF t

\* Putting one in does the reverse.
LEMMA PutIn ==
    ASSUME NEW S, NEW s \in Seq(S), NEW e \in S, NEW b \in 1 .. Len(s) + 1
    PROVE  /\ InsertAt(s, b, e) \in Seq(S)
           /\ \A x : x \in ToSet(InsertAt(s, b, e)) <=> x \in ToSet(s) \/ x = e
           /\ \A x : x # e /\ Once(s, x) => Once(InsertAt(s, b, e), x)
           /\ e \notin ToSet(s) => Once(InsertAt(s, b, e), e)
<1> DEFINE t == InsertAt(s, b, e)
           up(i) == IF i < b THEN i ELSE i + 1
<1>1. /\ t \in Seq(S) /\ Len(t) = Len(s) + 1 /\ Len(s) \in Nat /\ b \in Nat
      /\ DOMAIN t = 1 .. Len(s) + 1 /\ DOMAIN s = 1 .. Len(s)
      /\ \A i \in 1 .. Len(s) + 1 : t[i] = IF i < b THEN s[i] ELSE IF i = b THEN e ELSE s[i - 1]
  BY InsertAtFacts
<1> HIDE DEF t
<1>2. \A i \in 1 .. Len(s) : up(i) \in 1 .. Len(s) + 1 /\ t[up(i)] = s[i] /\ up(i) # b
  BY <1>1
<1>3. t[b] = e
  BY <1>1
<1>4. \A k \in 1 .. Len(s) + 1 : k # b => \E i \in 1 .. Len(s) : up(i) = k
  <2> SUFFICES ASSUME NEW k \in 1 .. Len(s) + 1, k # b
               PROVE  \E i \in 1 .. Len(s) : up(i) = k
    OBVIOUS
  <2>1. CASE k < b
    BY <2>1, <1>1
  <2>2. CASE k > b
    <3>1. k - 1 \in 1 .. Len(s) /\ up(k - 1) = k
      BY <2>2, <1>1
    <3> QED  BY <3>1
  <2> QED  BY <2>1, <2>2, <1>1
<1> HIDE DEF up
<1>5. \A x : x \in ToSet(t) <=> x \in ToSet(s) \/ x = e
  <2> TAKE x
  <2>1. (\E k \in 1 .. Len(t) : t[k] = x) <=> (\E i \in 1 .. Len(s) : s[i] = x) \/ x = e
    BY <1>1, <1>2, <1>3, <1>4
  <2> QED  BY <2>1, <1>1, ListMember
<1>6. \A x : x # e /\ Once(s, x) => Once(t, x)
  <2> SUFFICES ASSUME NEW x, x # e, Once(s, x), NEW k \in DOMAIN t, NEW l \in DOMAIN t,
                      t[k] = x, t[l] = x
               PROVE  k = l
    BY DEF Once
  <2>1. k # b /\ l # b /\ k \in 1 .. Len(s) + 1 /\ l \in 1 .. Len(s) + 1
    BY <1>1, <1>3
  <2>2. PICK i \in 1 .. Len(s) : up(i) = k
    BY <2>1, <1>4
  <2>3. PICK j \in 1 .. Len(s) : up(j) = l
    BY <2>1, <1>4
  <2>4. s[i] = x /\ s[j] = x
    BY <2>2, <2>3, <1>2
  <2> QED  BY <2>2, <2>3, <2>4, <1>1 DEF Once
<1>7. e \notin ToSet(s) => Once(t, e)
  <2> SUFFICES ASSUME e \notin ToSet(s), NEW k \in DOMAIN t, t[k] = e
               PROVE  k = b
    BY DEF Once
  <2>1. \A i \in 1 .. Len(s) : s[i] # e
    BY ListMember
  <2> QED  BY <2>1, <1>1, <1>2, <1>4
<1> QED  BY <1>1, <1>5, <1>6, <1>7 DEF t

\* Filtering an element out leaves the rest.
LEMMA FilteredOut ==
    ASSUME NEW S, NEW s \in Seq(S), NEW e, NEW I \in SUBSET DOMAIN s,
           \A i \in DOMAIN s : i \in I <=> s[i] # e
    PROVE  /\ Only(s, I) \in Seq(S)
           /\ \A x : x \in ToSet(Only(s, I)) <=> x \in ToSet(s) /\ x # e
           /\ \A x : Once(s, x) => Once(Only(s, I), x)
<1> DEFINE c == Cardinality(I)
           t == Only(s, I)
<1>1. /\ t \in Seq(S) /\ Len(t) = c /\ DOMAIN t = 1 .. c
      /\ c \in Nat
      /\ \A n \in 1 .. c : Nth(I, n) \in I /\ t[n] = s[Nth(I, n)]
      /\ \A i \in I : Place(I, i) \in 1 .. c /\ t[Place(I, i)] = s[i]
      /\ \A a, b \in 1 .. c : a < b => Nth(I, a) < Nth(I, b)
  BY OnlyKeeps
<1>2. DOMAIN s = 1 .. Len(s) /\ Len(s) \in Nat /\ \A i \in I : i \in 1 .. Len(s) /\ s[i] # e
  OBVIOUS
<1>3. \A i \in 1 .. Len(s) : s[i] # e => i \in I
  BY <1>2
<1> HIDE DEF c, t
<1>4. \A x : x \in ToSet(t) <=> x \in ToSet(s) /\ x # e
  <2> TAKE x
  <2>1. (\E n \in 1 .. Len(t) : t[n] = x) <=> (\E i \in 1 .. Len(s) : s[i] = x) /\ x # e
    BY <1>1, <1>2, <1>3
  <2>2. x \in ToSet(t) <=> \E n \in 1 .. Len(t) : t[n] = x
    BY <1>1, ListMember
  <2>3. x \in ToSet(s) <=> \E i \in 1 .. Len(s) : s[i] = x
    BY ListMember
  <2> QED  BY <2>1, <2>2, <2>3
<1>5. \A x : Once(s, x) => Once(t, x)
  <2> SUFFICES ASSUME NEW x, Once(s, x)  PROVE Once(t, x)
    OBVIOUS
  <2>0. DOMAIN t = 1 .. c
    BY <1>1
  <2>1. ASSUME NEW a \in 1 .. c, NEW b \in 1 .. c, t[a] = x, t[b] = x  PROVE a = b
    <3>1. Nth(I, a) = Nth(I, b)
      BY <1>1, <1>2, <2>1 DEF Once
    <3>2. ~(Nth(I, a) < Nth(I, b)) /\ ~(Nth(I, b) < Nth(I, a))
      <4>1. Nth(I, a) \in Nat
        BY <1>1, <1>2
      <4> QED  BY ONLY <3>1, <4>1
    <3>3. ~(a < b) /\ ~(b < a)
      BY <3>2, <1>1
    <3> QED  BY <3>3, <1>1
  <2>2. \A a, b \in 1 .. c : t[a] = x /\ t[b] = x => a = b
    BY ONLY <2>1
  <2> QED  BY ONLY <2>0, <2>2 DEF Once
<1> QED  BY <1>1, <1>4, <1>5 DEF t

TagEdits == [id : Nat, tag : Tags, intent : {"add", "remove"},
             at : {"sent", "served", "refused"}, index : Nat]

TagShape ==
    /\ moves \in Nat /\ chips \in Seq(Tags) /\ tags \in SUBSET Tags
    /\ tagCalls \in SUBSET TagEdits
    /\ \A c \in tagCalls : c.intent = "remove" => c.index >= 1 /\ c.at # "refused"

\* Of a tag that is not crossed there is one edit in flight at most, and one chip.
OneEdit == \A c, d \in tagCalls : c.tag = d.tag /\ c.tag \notin crossed => c = d
OneChip == \A t \in Tags : t \notin crossed => Once(chips, t)

\* The chip of an edit in flight shows what it asked for; the server has what it
\* served.
EditsTell ==
    \A c \in tagCalls : c.tag \notin crossed =>
        /\ c.tag \in ToSet(chips) <=> c.intent = "add"
        /\ c.tag \in tags <=> \/ c.intent = "add" /\ c.at = "served"
                              \/ c.intent = "remove" /\ c.at = "sent"

ChipsTell ==
    \A t \in Tags : t \notin crossed /\ (\A c \in tagCalls : c.tag # t) =>
        (t \in tags <=> t \in ToSet(chips))

TagInv == TagShape /\ OneEdit /\ OneChip /\ EditsTell /\ ChipsTell

\* An edit begins: the chip is painted before it is sent.
LEMMA EditBegins ==
    ASSUME TagInv, NEW tag \in Tags, NEW intent \in {"add", "remove"}, NEW index \in Nat,
           Moves, Edit(tag, intent, index), chips' \in Seq(Tags),
           intent = "remove" => index >= 1,
           \A x : x # tag => (x \in ToSet(chips') <=> x \in ToSet(chips)),
           \A x : x # tag /\ Once(chips, x) => Once(chips', x),
           tag \notin crossed =>
               /\ (tag \in ToSet(chips') <=> intent = "add") /\ Once(chips', tag)
               /\ (tag \in ToSet(chips) <=> intent = "remove")
    PROVE  TagInv'
<1> USE DEF TagInv
<1> DEFINE new == [id |-> moves, tag |-> tag, intent |-> intent, at |-> "sent", index |-> index]
<1>1. /\ tagCalls' = tagCalls \cup {new} /\ tags' = tags /\ moves' = moves + 1
      /\ crossed' = IF \E c \in tagCalls : c.tag = tag THEN crossed \cup {tag} ELSE crossed
  BY DEF Edit, Moves
<1>2. /\ new \in TagEdits /\ new.tag = tag /\ new.intent = intent /\ new.at = "sent"
      /\ new.index = index
  BY DEF TagShape, TagEdits
<1> HIDE DEF new
<1>3. crossed \subseteq crossed' /\ \A x : x # tag => (x \in crossed' <=> x \in crossed)
  BY <1>1
<1>4. tag \notin crossed' => tag \notin crossed /\ \A c \in tagCalls : c.tag # tag
  BY <1>1
<1>5. TagShape'
  BY <1>1, <1>2 DEF TagShape
<1>6. OneEdit'
  BY <1>1, <1>2, <1>3, <1>4 DEF OneEdit
<1>7. OneChip'
  BY <1>3, <1>4 DEF OneChip
<1>8. EditsTell'
  <2>1. ASSUME NEW c \in tagCalls, c.tag \notin crossed'
        PROVE  /\ c.tag \in ToSet(chips') <=> c.intent = "add"
               /\ c.tag \in tags' <=> \/ c.intent = "add" /\ c.at = "served"
                                      \/ c.intent = "remove" /\ c.at = "sent"
    <3>1. c.tag # tag /\ c.tag \notin crossed
      BY <2>1, <1>3, <1>4
    <3> QED  BY <3>1, <1>1 DEF EditsTell
  <2>2. tag \notin crossed' => (tag \in tags <=> tag \in ToSet(chips))
    BY <1>4 DEF ChipsTell
  <2>3. ASSUME new.tag \notin crossed'
        PROVE  /\ new.tag \in ToSet(chips') <=> new.intent = "add"
               /\ new.tag \in tags' <=> \/ new.intent = "add" /\ new.at = "served"
                                        \/ new.intent = "remove" /\ new.at = "sent"
    BY <2>2, <1>1, <1>2, <1>4, <2>3
  <2> QED  BY <2>1, <2>3, <1>1 DEF EditsTell
<1>9. ChipsTell'
  <2> SUFFICES ASSUME NEW t \in Tags, t \notin crossed', \A c \in tagCalls' : c.tag # t
               PROVE  t \in tags' <=> t \in ToSet(chips')
    BY DEF ChipsTell
  <2>1. t # tag /\ t \notin crossed /\ \A c \in tagCalls : c.tag # t
    BY <1>1, <1>2, <1>3
  <2> QED  BY <2>1, <1>1 DEF ChipsTell
<1> QED  BY <1>5, <1>6, <1>7, <1>8, <1>9

\* The server serves an edit, or refuses a tag past the cap.
LEMMA TagServedStep ==
    ASSUME TagInv, NEW call \in tagCalls, TagServed(call)
    PROVE  TagInv'
<1> USE DEF TagInv
<1> DEFINE refused == call.intent = "add" /\ call.tag \notin tags /\ Cardinality(tags) >= TagCap
           at == IF refused THEN "refused" ELSE "served"
           new == [call EXCEPT !.at = at]
<1>1. /\ call.at = "sent" /\ tagCalls' = (tagCalls \ {call}) \cup {new}
      /\ tags' = IF call.intent = "remove" THEN tags \ {call.tag}
                 ELSE IF refused THEN tags ELSE tags \cup {call.tag}
      /\ UNCHANGED <<moves, chips, crossed>>
  BY DEF TagServed
<1>2. call \in TagEdits /\ at \in {"served", "refused"}
  BY DEF TagShape
<1>3. /\ call.intent = "add" => (call.tag \in tags' <=> call.tag \in tags \/ at = "served")
      /\ call.intent = "remove" => call.tag \notin tags' /\ at = "served"
      /\ \A x : x # call.tag => (x \in tags' <=> x \in tags)
  BY <1>1
<1>4. tags' \in SUBSET Tags
  BY <1>1, <1>2 DEF TagShape, TagEdits
<1> HIDE DEF at
<1>5. /\ new \in TagEdits /\ new.tag = call.tag /\ new.intent = call.intent
      /\ new.index = call.index /\ new.at = at
      /\ call.tag \in Tags /\ call.intent \in {"add", "remove"}
  BY <1>2 DEF TagEdits
<1> HIDE DEF new
<1>6. TagShape'
  <2>1. \A c \in tagCalls' : c.intent = "remove" => c.index >= 1 /\ c.at # "refused"
    BY <1>1, <1>3, <1>5 DEF TagShape
  <2> QED  BY <2>1, <1>1, <1>4, <1>5 DEF TagShape
<1>7. OneEdit'
  BY <1>1, <1>5 DEF OneEdit
<1>8. OneChip'
  BY <1>1 DEF OneChip
<1>9. EditsTell'
  <2>1. ASSUME NEW c \in tagCalls, c # call, c.tag \notin crossed'
        PROVE  /\ c.tag \in ToSet(chips') <=> c.intent = "add"
               /\ c.tag \in tags' <=> \/ c.intent = "add" /\ c.at = "served"
                                      \/ c.intent = "remove" /\ c.at = "sent"
    <3>1. c.tag # call.tag
      BY <2>1, <1>1 DEF OneEdit
    <3> QED  BY <2>1, <3>1, <1>1, <1>3 DEF EditsTell
  <2>2. ASSUME call.tag \notin crossed'
        PROVE  /\ call.tag \in ToSet(chips') <=> new.intent = "add"
               /\ call.tag \in tags' <=> \/ new.intent = "add" /\ new.at = "served"
                                         \/ new.intent = "remove" /\ new.at = "sent"
    <3>1. /\ call.tag \in ToSet(chips) <=> call.intent = "add"
          /\ call.tag \in tags <=> call.intent = "remove"
      BY <2>2, <1>1, <1>5 DEF EditsTell
    <3> QED  BY <3>1, <1>1, <1>2, <1>3, <1>5
  <2> QED  BY <2>1, <2>2, <1>1, <1>5 DEF EditsTell
<1>10. ChipsTell'
  BY <1>1, <1>3, <1>5 DEF ChipsTell
<1> QED  BY <1>6, <1>7, <1>8, <1>9, <1>10

\* An edit ends, with its chip kept or rolled back.
LEMMA EditEnds ==
    ASSUME TagInv, NEW call \in tagCalls, tagCalls' = tagCalls \ {call},
           UNCHANGED <<moves, tags>>, crossed \subseteq crossed', chips' \in Seq(Tags),
           \A x : x # call.tag => (x \in ToSet(chips') <=> x \in ToSet(chips)),
           \A x : x # call.tag /\ Once(chips, x) => Once(chips', x),
           call.tag \notin crossed' =>
               Once(chips', call.tag) /\ (call.tag \in ToSet(chips') <=> call.tag \in tags)
    PROVE  TagInv'
<1> USE DEF TagInv
<1>1. TagShape'
  BY DEF TagShape
<1>2. OneEdit'
  BY DEF OneEdit
<1>3. OneChip'
  BY DEF OneChip
<1>4. EditsTell'
  <2> SUFFICES ASSUME NEW c \in tagCalls, c # call, c.tag \notin crossed'
               PROVE  /\ c.tag \in ToSet(chips') <=> c.intent = "add"
                      /\ c.tag \in tags' <=> \/ c.intent = "add" /\ c.at = "served"
                                             \/ c.intent = "remove" /\ c.at = "sent"
    BY DEF EditsTell
  <2>1. c.tag # call.tag
    BY DEF OneEdit
  <2> QED  BY <2>1 DEF EditsTell
<1>5. ChipsTell'
  BY DEF ChipsTell
<1> QED  BY <1>1, <1>2, <1>3, <1>4, <1>5

\* Every step of the tag editor keeps its invariant.
LEMMA TagStep ==
    ASSUME TagInv, TagNext
    PROVE  TagInv'
<1> USE DEF TagInv
<1>0. chips \in Seq(Tags) /\ tagCalls \in SUBSET TagEdits /\ Len(chips) \in Nat
  BY DEF TagShape
<1>1. ASSUME NEW tag \in Tags, SubmitTag(tag)
      PROVE  TagInv'
  <2>1. /\ Moves /\ tag \notin ToSet(chips) /\ chips' = Append(chips, tag) /\ Edit(tag, "add", 0)
    BY <1>1 DEF SubmitTag
  <2>2. /\ chips' \in Seq(Tags)
        /\ \A x : x # tag => (x \in ToSet(chips') <=> x \in ToSet(chips))
        /\ \A x : x # tag /\ Once(chips, x) => Once(chips', x)
        /\ tag \in ToSet(chips') /\ Once(chips', tag)
    BY <2>1, <1>0, Appended
  <2>3. "add" \in {"add", "remove"} /\ 0 \in Nat /\ ("add" = "remove" => 0 >= 1)
    OBVIOUS
  <2>4. tag \notin crossed =>
            /\ (tag \in ToSet(chips') <=> "add" = "add") /\ Once(chips', tag)
            /\ (tag \in ToSet(chips) <=> "add" = "remove")
    BY <2>1, <2>2
  <2> QED  BY ONLY TagInv, <2>1, <2>2, <2>3, <2>4, EditBegins
<1>2. ASSUME NEW i \in 1 .. MaxMoves, RemoveChip(i)
      PROVE  TagInv'
  <2> DEFINE tag == chips[i]
  <2>1. Moves /\ i \in DOMAIN chips /\ chips' = RemoveAt(chips, i) /\ Edit(tag, "remove", i)
    BY <1>2 DEF RemoveChip
  <2>2. i \in 1 .. Len(chips) /\ i \in Nat /\ i >= 1 /\ tag \in Tags
    BY <2>1, <1>0
  <2>3. tag \in ToSet(chips)
    BY <2>2, <1>0, ListMember
  <2>4. /\ chips' \in Seq(Tags)
        /\ \A x : x # tag => (x \in ToSet(chips') <=> x \in ToSet(chips))
        /\ \A x : Once(chips, x) => Once(chips', x)
        /\ Once(chips, tag) => tag \notin ToSet(chips')
    BY <2>1, <2>2, <1>0, TakenOut
  <2>5. "remove" \in {"add", "remove"} /\ ("remove" = "remove" => i >= 1)
    BY <2>2
  <2>6. tag \notin crossed =>
            /\ (tag \in ToSet(chips') <=> "remove" = "add") /\ Once(chips', tag)
            /\ (tag \in ToSet(chips) <=> "remove" = "remove")
    BY <2>2, <2>3, <2>4 DEF OneChip
  <2>7. \A x : x # tag /\ Once(chips, x) => Once(chips', x)
    BY <2>4
  <2> HIDE DEF tag
  <2> QED  BY ONLY TagInv, <2>1, <2>2, <2>4, <2>5, <2>6, <2>7, EditBegins
<1>3. ASSUME NEW call \in tagCalls, TagLands(call)
      PROVE  TagInv'
  <2>1. /\ call.at = "served" /\ tagCalls' = tagCalls \ {call}
        /\ UNCHANGED <<moves, tags, chips, crossed>>
    BY <1>3 DEF TagLands
  <2>2. call \in TagEdits /\ call.tag \in Tags /\ call.intent \in {"add", "remove"}
    BY <1>0 DEF TagEdits
  <2>3. call.tag \notin crossed' =>
            Once(chips', call.tag) /\ (call.tag \in ToSet(chips') <=> call.tag \in tags)
    BY <2>1, <2>2 DEF OneChip, EditsTell
  <2>4. /\ crossed \subseteq crossed' /\ chips' \in Seq(Tags) /\ UNCHANGED <<moves, tags>>
        /\ \A x : x # call.tag => (x \in ToSet(chips') <=> x \in ToSet(chips))
        /\ \A x : x # call.tag /\ Once(chips, x) => Once(chips', x)
    BY <2>1, <1>0
  <2> QED  BY <2>1, <2>3, <2>4, EditEnds
<1>4. ASSUME NEW call \in tagCalls, TagFails(call)
      PROVE  TagInv'
  <2>1. /\ tagCalls' = tagCalls \ {call} /\ chips' = RolledBack(call)
        /\ crossed' = IF call.at = "served" THEN crossed \cup {call.tag} ELSE crossed
        /\ UNCHANGED <<moves, tags>>
    BY <1>4 DEF TagFails
  <2>2. /\ call \in TagEdits /\ call.tag \in Tags /\ call.intent \in {"add", "remove"}
        /\ call.index \in Nat /\ call.at \in {"sent", "served", "refused"}
        /\ call.intent = "remove" => call.index >= 1 /\ call.at # "refused"
    BY <1>0 DEF TagEdits, TagShape
  <2>3. call.tag \notin crossed' => /\ call.tag \notin crossed /\ call.at # "served"
                                    /\ (call.tag \in tags <=> call.intent = "remove")
                                    /\ (call.tag \in ToSet(chips) <=> call.intent = "add")
                                    /\ Once(chips, call.tag)
    <3>1. call.tag \notin crossed' => call.tag \notin crossed /\ call.at # "served"
      BY <2>1
    <3> QED  BY <3>1, <2>2 DEF EditsTell, OneChip
  <2>4. CASE call.intent = "add"
    <3> DEFINE I == {i \in DOMAIN chips : chips[i] # call.tag}
    <3>0. I \in SUBSET DOMAIN chips /\ \A i \in DOMAIN chips : i \in I <=> chips[i] # call.tag
      OBVIOUS
    <3>1. chips' = Only(chips, I)
      BY <2>1, <2>4 DEF RolledBack
    <3> HIDE DEF I
    <3>2. /\ chips' \in Seq(Tags)
          /\ \A x : x \in ToSet(chips') <=> x \in ToSet(chips) /\ x # call.tag
          /\ \A x : Once(chips, x) => Once(chips', x)
      BY <3>0, <3>1, <1>0, FilteredOut
    <3>3. call.tag \notin crossed' =>
              Once(chips', call.tag) /\ (call.tag \in ToSet(chips') <=> call.tag \in tags)
      BY <2>3, <2>4, <3>2
    <3>4. /\ crossed \subseteq crossed' /\ UNCHANGED <<moves, tags>>
          /\ \A x : x # call.tag => (x \in ToSet(chips') <=> x \in ToSet(chips))
          /\ \A x : x # call.tag /\ Once(chips, x) => Once(chips', x)
      BY <2>1, <3>2
    <3> QED  BY <2>1, <3>2, <3>3, <3>4, EditEnds
  <2>5. CASE call.intent = "remove"
    <3> DEFINE at == IF call.index > Len(chips) + 1 THEN Len(chips) + 1 ELSE call.index
    <3>1. chips' = InsertAt(chips, at, call.tag)
      BY <2>1, <2>5 DEF RolledBack
    <3>2. at \in 1 .. Len(chips) + 1
      BY <2>2, <2>5, <1>0
    <3> HIDE DEF at
    <3>3. /\ chips' \in Seq(Tags)
          /\ \A x : x \in ToSet(chips') <=> x \in ToSet(chips) \/ x = call.tag
          /\ \A x : x # call.tag /\ Once(chips, x) => Once(chips', x)
          /\ call.tag \notin ToSet(chips) => Once(chips', call.tag)
      BY <3>1, <3>2, <2>2, <1>0, PutIn
    <3>4. call.tag \notin crossed' =>
              Once(chips', call.tag) /\ (call.tag \in ToSet(chips') <=> call.tag \in tags)
      BY <2>3, <2>5, <3>3
    <3>5. /\ crossed \subseteq crossed' /\ UNCHANGED <<moves, tags>>
          /\ \A x : x # call.tag => (x \in ToSet(chips') <=> x \in ToSet(chips))
      BY <2>1, <3>3
    <3> QED  BY <2>1, <3>3, <3>4, <3>5, EditEnds
  <2> QED  BY <2>2, <2>4, <2>5
<1> QED  BY <1>1, <1>2, <1>3, <1>4, TagServedStep DEF TagNext

(***************************************************************************)
(* The search.                                                             *)
(***************************************************************************)

\* A search that is not aborted asks what the address bar says.
SearchInv == (\A r \in inflight : r.aborted \/ r.query = url) /\ TableAnswersUrl

\* What an abort leaves of a search.
Aborted(r) == [r EXCEPT !.aborted = TRUE]

\* It is a search still, and aborted.
LEMMA AbortedFacts ==
    ASSUME NEW r, IsSearch(r)
    PROVE  /\ IsSearch(Aborted(r)) /\ Aborted(r).aborted
           /\ Aborted(r).at = r.at /\ Aborted(r).rows = r.rows /\ Aborted(r).stale = r.stale
<1> DEFINE q == r.query
           a == r.aborted
           k == r.at
           rs == r.rows
           old == r.stale
<1>1. r = [query |-> q, aborted |-> a, at |-> k, rows |-> rs, stale |-> old]
  BY DEF IsSearch
<1> DEFINE yes == TRUE
<1>2. yes /\ Aborted(r) = [r EXCEPT !.aborted = yes]
  BY DEF Aborted
<1> HIDE DEF q, a, k, rs, old, yes
<1>3. [r EXCEPT !.aborted = yes] =
          [query |-> q, aborted |-> yes, at |-> k, rows |-> rs, stale |-> old]
  BY <1>1
<1> QED  BY <1>1, <1>2, <1>3 DEF IsSearch

\* What its answer is.
Served(r) == [r EXCEPT !.at = "served", !.rows = liked]

\* It is a search still, with the likes of the moment.
LEMMA ServedFacts ==
    ASSUME NEW r, IsSearch(r)
    PROVE  /\ IsSearch(Served(r)) /\ Served(r).query = r.query /\ Served(r).aborted = r.aborted
           /\ Served(r).at = "served" /\ Served(r).rows = liked
<1> DEFINE q == r.query
           a == r.aborted
           k == r.at
           rs == r.rows
           old == r.stale
           now == liked
           there == "served"
           half == [query |-> q, aborted |-> a, at |-> there, rows |-> rs, stale |-> old]
<1>1. r = [query |-> q, aborted |-> a, at |-> k, rows |-> rs, stale |-> old]
  BY DEF IsSearch
<1>2. Served(r) = [[r EXCEPT !.at = there] EXCEPT !.rows = now]
  BY DEF Served
<1>3. there = "served" /\ now = liked
  OBVIOUS
<1> HIDE DEF q, a, k, rs, old, now, there
<1>4. [r EXCEPT !.at = there] = half
  BY <1>1
<1>5. [half EXCEPT !.rows = now] =
          [query |-> q, aborted |-> a, at |-> there, rows |-> now, stale |-> old]
  OBVIOUS
<1>6. Served(r) = [query |-> q, aborted |-> a, at |-> there, rows |-> now, stale |-> old]
  BY <1>2, <1>4, <1>5
<1> HIDE DEF half
<1> QED  BY <1>1, <1>3, <1>6 DEF IsSearch

\* A search as it is sent.
LEMMA NewSearchFacts ==
    /\ IsSearch(NewSearch) /\ NewSearch.query = typed /\ ~NewSearch.aborted
    /\ NewSearch.at = "sent"
BY DEF IsSearch, NewSearch

\* Every step of the search keeps its invariant.
LEMMA SearchStep ==
    ASSUME SearchInv, LikeShape, SearchNext
    PROVE  SearchInv'
<1> USE DEF SearchInv, TableAnswersUrl
<1>0. \A r \in inflight : IsSearch(r)
  BY DEF LikeShape
<1>1. ASSUME NEW q \in Queries, TypeQuery(q)
      PROVE  SearchInv'
  BY <1>1 DEF TypeQuery
<1>2. CASE PoolRun
  <2>1. /\ url' = typed /\ inflight' = {Aborted(r) : r \in inflight} \cup {NewSearch}
        /\ UNCHANGED <<table, unavailable>>
    BY <1>2 DEF PoolRun, Aborted
  <2>2. NewSearch \in inflight' /\ NewSearch.query = typed /\ ~NewSearch.aborted
    BY <2>1, NewSearchFacts
  <2>3. \A r \in inflight : Aborted(r).aborted
    BY <1>0, AbortedFacts
  <2>4. \A r \in inflight' : r.aborted \/ r.query = url'
    BY <2>1, <2>2, <2>3
  <2> QED  BY <2>2, <2>4
<1>5. ASSUME NEW r \in inflight, SearchServed(r)
      PROVE  SearchInv'
  <2>1. /\ inflight' = (inflight \ {r}) \cup {Served(r)}
        /\ UNCHANGED <<table, unavailable, url, debounced>>
    BY <1>5 DEF SearchServed, Served, fieldVars
  <2>2. Served(r).query = r.query /\ Served(r).aborted = r.aborted
    BY <1>0, ServedFacts
  <2> QED  BY <2>1, <2>2
<1>3. ASSUME NEW r \in inflight, SearchLands(r)
      PROVE  SearchInv'
  BY <1>3 DEF SearchLands, PoolSwap
<1>4. ASSUME NEW r \in inflight, SearchFails(r)
      PROVE  SearchInv'
  BY <1>4 DEF SearchFails
<1> QED  BY <1>1, <1>2, <1>3, <1>4, <1>5 DEF SearchNext

\* A step of the like buttons is one of the searches' only in what it makes stale.
LEMMA SearchesUnderLikes ==
    ASSUME LikeShape, LikeNext
    PROVE  \/ inflight' = inflight
           \/ \E song : inflight' = {Staled(r, song) : r \in inflight}
<1>1. ASSUME NEW c \in likeCalls, ToggleLike(c)
      PROVE  inflight' = {Staled(r, c.song) : r \in inflight}
  BY <1>1 DEF ToggleLike, Staled
<1> QED
  BY <1>1 DEF LikeNext, PressLike, LikeLands, LikeFails, SourceServed, SetPlayerLike

\* The like buttons leave the searches as they are.
LEMMA SearchUnderLikes ==
    ASSUME SearchInv, LikeShape, LikeNext, UNCHANGED fieldVars
    PROVE  SearchInv'
<1> USE DEF SearchInv, TableAnswersUrl, fieldVars
<1>1. CASE inflight' = inflight
  BY <1>1
<1>2. ASSUME NEW song, inflight' = {Staled(r, song) : r \in inflight}
      PROVE  SearchInv'
  <2>1. \A r \in inflight : Staled(r, song).query = r.query /\ Staled(r, song).aborted = r.aborted
    BY StaledFacts DEF LikeShape
  <2>2. \A r \in inflight : Staled(r, song) \in inflight'
    BY <1>2
  <2> QED  BY <1>2, <2>1, <2>2
<1> QED  BY <1>1, <1>2, SearchesUnderLikes

\* A toggle's record when the rows that it painted are gone.
BarOnly(c) == [c EXCEPT !.buttons = @ \cap {"bar"}]

\* The rows of a search bring their like buttons with them.
LEMMA PoolSwapStep ==
    ASSUME LikeInv, NEW r \in inflight, r.at = "served", PoolSwap(r), inflight' \subseteq inflight,
           UNCHANGED <<moves, liked, barAsk>>
    PROVE  LikeInv'
<1> DEFINE face(b) == [song |-> b, shows |-> b \in r.rows, disabled |-> FALSE]
           new(b) == IF b = "bar" THEN heart[b] ELSE face(b)
<1>1. /\ heart' = [b \in DOMAIN heart |-> new(b)]
      /\ likeCalls' = {BarOnly(c) : c \in likeCalls}
      /\ muddled' = muddled \cup r.stale \cup {c.song : c \in {d \in likeCalls : d.at = "sent"}}
  BY DEF PoolSwap, BarOnly
<1>2. /\ heart \in [Buttons -> Faces] /\ likeCalls \in SUBSET Toggles
      /\ \A p \in inflight' : IsSearch(p)
  BY DEF LikeInv, LikeShape
<1>3. \A b \in Buttons : b # "bar" => b \in Songs /\ face(b) \in Faces
  BY DEF Buttons, Faces
<1>4. \A b \in Buttons : /\ new(b) \in Faces
                         /\ b = "bar" => new(b) = heart[b]
                         /\ b # "bar" => /\ b \in Songs /\ new(b).song = b
                                         /\ new(b).shows <=> b \in r.rows
  BY <1>2, <1>3
<1> HIDE DEF new, face
<1>5. /\ heart' \in [Buttons -> Faces] /\ heart'["bar"] = heart["bar"]
      /\ \A b \in Buttons : b # "bar" => /\ b \in Songs /\ heart'[b].song = b
                                         /\ heart'[b].shows <=> b \in r.rows
  <2>1. "bar" \in Buttons
    BY DEF Buttons
  <2> QED  BY <2>1, <1>1, <1>2, <1>4
<1>6. \A c \in likeCalls :
          /\ BarOnly(c) \in Toggles /\ BarOnly(c).song = c.song /\ BarOnly(c).at = c.at
          /\ BarOnly(c).was = c.was /\ BarOnly(c).result = c.result /\ BarOnly(c).alone = c.alone
          /\ BarOnly(c).buttons = c.buttons \cap {"bar"}
  <2> SUFFICES ASSUME NEW c \in likeCalls
               PROVE  /\ BarOnly(c) \in Toggles /\ BarOnly(c).song = c.song /\ BarOnly(c).at = c.at
                      /\ BarOnly(c).was = c.was /\ BarOnly(c).result = c.result
                      /\ BarOnly(c).alone = c.alone
                      /\ BarOnly(c).buttons = c.buttons \cap {"bar"}
    OBVIOUS
  <2>1. c \in Toggles
    BY <1>2
  <2>2. c.buttons \cap {"bar"} \in SUBSET Buttons
    BY <2>1 DEF Toggles
  <2> QED  BY <2>1, <2>2 DEF BarOnly, Toggles
<1>7. \A s \in Songs : s \notin muddled' => (s \in r.rows <=> s \in liked)
  BY <1>1 DEF LikeInv, RowsTell
<1>8. \A c \in likeCalls : c.song \notin muddled' => c.song \notin muddled /\ c.at # "sent"
  BY <1>1
<1>9. LikeShape'
  BY <1>1, <1>2, <1>5, <1>6 DEF LikeInv, LikeShape
<1>10. AloneIsOnly'
  <2>1. ASSUME NEW c \in likeCalls, c.alone, NEW d \in likeCalls, d.song = c.song
        PROVE  BarOnly(d) = BarOnly(c)
    BY <2>1 DEF LikeInv, AloneIsOnly
  <2>2. \A c \in likeCalls : ~c.alone => c.song \in muddled'
    BY <1>1 DEF LikeInv, AloneIsOnly
  <2> QED  BY <2>1, <2>2, <1>1, <1>6 DEF AloneIsOnly
<1>11. TogglesTell'
  <2> SUFFICES ASSUME NEW c \in likeCalls
               PROVE  LET e == BarOnly(c)
                      IN  /\ e.song \notin muddled' \cup {NoSong} =>
                                 \A b \in Buttons : heart'[b].song = e.song =>
                                     b \in e.buttons \/ (e.at = "served" /\ (heart'[b].shows <=> e.song \in liked'))
                          /\ e.song \notin muddled' \cup {NoSong} /\ e.at = "sent" => (e.was <=> e.song \in liked')
                          /\ e.alone /\ e.at = "served" => (e.result <=> e.song \in liked')
    BY <1>1 DEF TogglesTell
  <2>1. ASSUME c.song \notin muddled' \cup {NoSong}, NEW b \in Buttons, heart'[b].song = c.song,
               b \notin c.buttons \cap {"bar"}
        PROVE  c.at = "served" /\ (heart'[b].shows <=> c.song \in liked')
    <3>1. c.song \notin muddled /\ c.at = "served"
      BY <2>1, <1>2, <1>8 DEF Toggles
    <3>2. CASE b = "bar"
      <4>1. b \notin c.buttons /\ heart[b].song = c.song
        BY <2>1, <3>2, <1>5
      <4>2. heart[b].shows <=> c.song \in liked
        BY <2>1, <3>1, <4>1 DEF LikeInv, TogglesTell
      <4> QED  BY <3>1, <3>2, <4>2, <1>5
    <3>3. CASE b # "bar"
      BY <2>1, <3>1, <3>3, <1>5, <1>7
    <3> QED  BY <3>2, <3>3
  <2> QED  BY <2>1, <1>6, <1>8 DEF LikeInv, TogglesTell
<1>12. AskTells'
  BY DEF LikeInv, AskTells
<1>13. RowsTell'
  BY DEF LikeInv, RowsTell
<1>14. ButtonsTell'
  <2> SUFFICES ASSUME NEW b \in Buttons, heart'[b].song \notin muddled' \cup {NoSong},
                      \A c \in likeCalls' : c.song # heart'[b].song
               PROVE  heart'[b].shows <=> heart'[b].song \in liked'
    BY DEF ButtonsTell
  <2>1. CASE b = "bar"
    <3>1. \A c \in likeCalls : c.song # heart[b].song
      BY <2>1, <1>1, <1>5, <1>6
    <3>2. heart[b].song \notin muddled \cup {NoSong}
      BY <2>1, <1>1, <1>5
    <3> QED  BY <2>1, <3>1, <3>2, <1>5 DEF LikeInv, ButtonsTell
  <2>2. CASE b # "bar"
    BY <2>2, <1>5, <1>7
  <2> QED  BY <2>1, <2>2
<1> QED  BY <1>9, <1>10, <1>11, <1>12, <1>13, <1>14 DEF LikeInv

\* A step that changes no button and no like, but what the searches are.
LEMMA SearchesChange ==
    ASSUME LikeInv, UNCHANGED likeVars, moves' \in Nat,
           \A r \in inflight' : IsSearch(r),
           \A r \in inflight' : r.at = "served" =>
               \/ r.rows = liked
               \/ \E p \in inflight : p.at = "served" /\ r.rows = p.rows /\ r.stale = p.stale
    PROVE  LikeInv'
<1>1. RowsTell'
  BY DEF LikeInv, RowsTell, likeVars
<1> QED
  BY <1>1 DEF LikeInv, LikeShape, AloneIsOnly, TogglesTell, AskTells, ButtonsTell, likeVars

\* The searches keep what the like buttons are held to.
LEMMA LikesUnderSearch ==
    ASSUME LikeInv, SearchNext
    PROVE  LikeInv'
<1>0. /\ \A r \in inflight : IsSearch(r)
      /\ moves \in Nat
  BY DEF LikeInv, LikeShape
<1>1. ASSUME NEW q \in Queries, TypeQuery(q)
      PROVE  LikeInv'
  BY <1>0, <1>1, SearchesChange DEF TypeQuery, Moves
<1>2. CASE PoolRun
  <2>1. /\ inflight' = {Aborted(r) : r \in inflight} \cup {NewSearch}
        /\ UNCHANGED likeVars /\ moves' = moves
    BY <1>2 DEF PoolRun, Aborted
  <2>2. \A r \in inflight : /\ IsSearch(Aborted(r)) /\ Aborted(r).at = r.at
                            /\ Aborted(r).rows = r.rows /\ Aborted(r).stale = r.stale
    BY <1>0, AbortedFacts
  <2>3. IsSearch(NewSearch) /\ NewSearch.at # "served"
    BY NewSearchFacts
  <2> QED  BY ONLY <1>0, <2>1, <2>2, <2>3, LikeInv, SearchesChange
<1>3. ASSUME NEW r \in inflight, SearchServed(r)
      PROVE  LikeInv'
  <2>1. /\ inflight' = (inflight \ {r}) \cup {Served(r)}
        /\ UNCHANGED likeVars /\ moves' = moves
    BY <1>3 DEF SearchServed, Served
  <2>2. IsSearch(Served(r)) /\ Served(r).rows = liked
    BY <1>0, ServedFacts
  <2> QED  BY <1>0, <2>1, <2>2, SearchesChange
<1>4. ASSUME NEW r \in inflight, SearchLands(r)
      PROVE  LikeInv'
  <2>1. /\ r.at = "served" /\ inflight' \subseteq inflight /\ UNCHANGED <<moves, liked, barAsk>>
    BY <1>4 DEF SearchLands
  <2>2. CASE UNCHANGED <<heart, likeCalls, muddled>>
    <3>1. UNCHANGED likeVars
      BY <2>1, <2>2 DEF likeVars
    <3> QED  BY <1>0, <2>1, <3>1, SearchesChange
  <2>3. CASE PoolSwap(r)
    BY <2>1, <2>3, PoolSwapStep
  <2> QED  BY <1>4, <2>2, <2>3 DEF SearchLands
<1>5. ASSUME NEW r \in inflight, SearchFails(r)
      PROVE  LikeInv'
  <2>1. inflight' \subseteq inflight /\ UNCHANGED likeVars /\ moves' = moves
    BY <1>5 DEF SearchFails
  <2> QED  BY <1>0, <2>1, SearchesChange
<1> QED  BY <1>1, <1>2, <1>3, <1>4, <1>5 DEF SearchNext

\* A search leaves the picker as it is, or bares the menus of the rows.
LEMMA MenusUnderSearch ==
    ASSUME SearchNext
    PROVE  /\ UNCHANGED <<crates, lists, listCache, modal, dueCrates, overtaken>>
           /\ menu' = menu \/ menu' = Bare
BY DEF SearchNext, TypeQuery, PoolRun, SearchServed, SearchLands, PoolSwap, SearchFails, pickVars

\* Which keeps what the picker is held to.
LEMMA PickUnderSearch ==
    ASSUME PickInv, SearchNext
    PROVE  PickInv'
<1>1. menu' \in Int /\ (menu' >= 0 => menu' = menu)
  BY MenusUnderSearch DEF PickInv, PickShape, Bare
<1> QED
  BY <1>1, MenusUnderSearch DEF PickInv, PickShape, FreshLists, PickerListsCreated

(***************************************************************************)
(* The four on one page.                                                   *)
(***************************************************************************)

ControlsInv == PickInv /\ LikeInv /\ TagInv /\ SearchInv

\* A page as it is loaded.
LEMMA ControlsStart == ControlsInit => ControlsInv
<1> SUFFICES ASSUME ControlsInit PROVE ControlsInv
  OBVIOUS
<1>1. PickInv
  <2>1. /\ crates = 1 /\ lists = <<>> /\ listCache = 0 /\ menu = -2 /\ dueCrates = 1
        /\ overtaken = FALSE
    BY DEF ControlsInit, Bare
  <2>2. lists \in Seq(ListRequests) /\ Len(lists) = 0 /\ DOMAIN lists = {}
    BY <2>1
  <2>3. PickShape
    <3>1. crates = 1 /\ dueCrates = 1
      BY <2>1
    <3>4. crates \in Nat /\ dueCrates \in Nat /\ dueCrates <= crates
      BY <3>1
    <3>5. overtaken \in BOOLEAN
      BY <2>1
    <3>2. menu \in Int
      BY <2>1
    <3>3. listCache \in 0 .. Len(lists)
      BY <2>1, <2>2
    <3> QED  BY <2>2, <3>2, <3>3, <3>4, <3>5 DEF PickShape
  <2>4. FreshLists
    BY <2>1, <2>2 DEF FreshLists
  <2>5. PickerListsCreated
    BY <2>1 DEF PickerListsCreated
  <2> QED  BY <2>3, <2>4, <2>5 DEF PickInv
<1>2. LikeInv
  <2> DEFINE face(b) == IF b = "bar" THEN [song |-> NoSong, shows |-> FALSE, disabled |-> TRUE]
                        ELSE [song |-> b, shows |-> FALSE, disabled |-> FALSE]
  <2>1. /\ heart = [b \in Buttons |-> face(b)] /\ likeCalls = {} /\ liked = {}
        /\ barAsk = <<>> /\ moves = 0 /\ inflight = {}
    BY DEF ControlsInit, Buttons
  <2>2. \A b \in Buttons : face(b) \in Faces /\ face(b).shows = FALSE
    BY DEF Buttons, Faces
  <2> HIDE DEF face
  <2>3. heart \in [Buttons -> Faces] /\ \A b \in Buttons : heart[b].shows = FALSE
    BY <2>1, <2>2
  <2>4. barAsk \in Seq(Asks) /\ DOMAIN barAsk = {}
    BY <2>1
  <2> QED
    BY <2>1, <2>3, <2>4 DEF LikeInv, LikeShape, AloneIsOnly, TogglesTell, AskTells, RowsTell,
                            ButtonsTell
<1>3. TagInv
  <2>1. moves = 0 /\ chips = <<>> /\ tags = {} /\ tagCalls = {}
    BY DEF ControlsInit
  <2>2. chips \in Seq(Tags) /\ DOMAIN chips = {} /\ \A x : x \notin ToSet(chips)
    BY <2>1 DEF ToSet
  <2> QED  BY <2>1, <2>2 DEF TagInv, TagShape, OneEdit, OneChip, Once, EditsTell, ChipsTell
<1>4. SearchInv
  BY DEF SearchInv, TableAnswersUrl, ControlsInit
<1> QED  BY <1>1, <1>2, <1>3, <1>4 DEF ControlsInv

\* The moves of the member are counted.
LEMMA MovesCounted ==
    ASSUME ControlsInv, ControlsNext
    PROVE  moves' \in Nat
<1> USE DEF Moves
<1>0. moves \in Nat /\ LikeInv /\ TagInv
  BY DEF ControlsInv, LikeInv, LikeShape
<1>1. CASE PickNext
  BY <1>0, <1>1 DEF PickNext, OpenPicker, ListServed, ListLands, CreateCrate, CrateMade, CreateFails,
              CreateLands, AddSettles, SwapPage
<1>2. CASE LikeNext
  BY <1>0, <1>2, LikeStep DEF LikeInv, LikeShape
<1>3. CASE TagNext
  BY <1>0, <1>3, TagStep DEF TagInv, TagShape
<1>4. CASE SearchNext
  <2>1. moves' = moves \/ moves' = moves + 1
    BY <1>4 DEF SearchNext, TypeQuery, PoolRun, SearchServed, SearchLands, SearchFails
  <2> QED  BY <1>0, <2>1
<1> QED  BY <1>1, <1>2, <1>3, <1>4 DEF ControlsNext

\* A control that does not move keeps its invariant.
LEMMA ControlsRest ==
    ASSUME ControlsInv, moves' \in Nat
    PROVE  /\ UNCHANGED pickVars => PickInv'
           /\ UNCHANGED <<likeVars, inflight>> => LikeInv'
           /\ UNCHANGED tagVars => TagInv'
           /\ UNCHANGED searchVars => SearchInv'
<1>1. UNCHANGED pickVars => PickInv'
  BY DEF ControlsInv, PickInv, PickShape, FreshLists, PickerListsCreated, pickVars
<1>2. UNCHANGED <<likeVars, inflight>> => LikeInv'
  BY DEF ControlsInv, LikeInv, LikeShape, AloneIsOnly, TogglesTell, AskTells, RowsTell, ButtonsTell,
         likeVars
<1>3. UNCHANGED tagVars => TagInv'
  BY DEF ControlsInv, TagInv, TagShape, OneEdit, OneChip, EditsTell, ChipsTell, tagVars
<1>4. UNCHANGED searchVars => SearchInv'
  BY DEF ControlsInv, SearchInv, TableAnswersUrl, searchVars, fieldVars
<1> QED  BY <1>1, <1>2, <1>3, <1>4

\* Every step of the page keeps the invariants of its controls.
LEMMA ControlsStep == ControlsInv /\ [ControlsNext]_controlsVars => ControlsInv'
<1> SUFFICES ASSUME ControlsInv, [ControlsNext]_controlsVars PROVE ControlsInv'
  OBVIOUS
<1>1. PickInv /\ LikeInv /\ TagInv /\ SearchInv /\ moves \in Nat
  BY DEF ControlsInv, LikeInv, LikeShape
<1>0. LikeShape
  BY <1>1 DEF LikeInv
<1>2. CASE ControlsNext
  <2>1. moves' \in Nat
    BY <1>1, <1>2, MovesCounted
  <2>2. CASE PickNext /\ UNCHANGED <<likeVars, tagVars, searchVars>>
    <3>1. PickInv' /\ LikeInv' /\ TagInv' /\ SearchInv'
      BY <2>1, <2>2, <1>1, PickStep, ControlsRest DEF searchVars
    <3> QED  BY <3>1 DEF ControlsInv
  <2>3. CASE LikeNext /\ UNCHANGED <<pickVars, tagVars, fieldVars>>
    <3>1. PickInv' /\ LikeInv' /\ TagInv' /\ SearchInv'
      BY <2>1, <2>3, <1>0, <1>1, LikeStep, SearchUnderLikes, ControlsRest
    <3> QED  BY <3>1 DEF ControlsInv
  <2>4. CASE TagNext /\ UNCHANGED <<pickVars, likeVars, searchVars>>
    <3>1. PickInv' /\ LikeInv' /\ TagInv' /\ SearchInv'
      BY <2>1, <2>4, <1>1, TagStep, ControlsRest DEF searchVars
    <3> QED  BY <3>1 DEF ControlsInv
  <2>5. CASE SearchNext /\ UNCHANGED tagVars
    <3>1. PickInv' /\ LikeInv' /\ TagInv' /\ SearchInv'
      BY <2>1, <2>5, <1>0, <1>1, PickUnderSearch, LikesUnderSearch, SearchStep, ControlsRest
    <3> QED  BY <3>1 DEF ControlsInv
  <2> QED  BY <1>2, <2>2, <2>3, <2>4, <2>5 DEF ControlsNext
<1>3. CASE UNCHANGED controlsVars
  <2>1. moves' \in Nat /\ UNCHANGED pickVars /\ UNCHANGED likeVars /\ UNCHANGED tagVars
        /\ UNCHANGED searchVars /\ UNCHANGED <<likeVars, inflight>>
    BY <1>1, <1>3 DEF controlsVars, searchVars
  <2>2. PickInv' /\ LikeInv' /\ TagInv' /\ SearchInv'
    BY <2>1, ControlsRest
  <2> QED  BY <2>2 DEF ControlsInv
<1> QED  BY <1>2, <1>3

\* On a page with the four controls, in whatever order the member uses them and
\* the server answers, their invariants hold.
THEOREM ControlsInvariant == ControlsSpec => []ControlsInv
BY ControlsStart, ControlsStep, PTL DEF ControlsSpec

\* A picker that is filled offers every crate made before its cache was last
\* nulled (invalidateCratePickerCache, populateCratePickers in site.ts), unless
\* a list was in flight then or the request for the one it shows failed.
THEOREM PickersOfferCrates == ControlsSpec => []PickerListsCreated
<1>1. ControlsInv => PickerListsCreated
  BY DEF ControlsInv, PickInv
<1> QED  BY ControlsInvariant, <1>1, PTL

\* When nothing is in flight, the like buttons, the chips and the table show
\* what the server holds and what the address bar asks, for any number of moves,
\* and through every swap of the rows: songs and tags whose answer was lost, whose
\* edits crossed or whose rows were replaced under a toggle are set aside.
THEOREM ControlsAgree == ControlsSpec => []ControlsSettle
<1>1. ASSUME ControlsInv
      PROVE  HeartsAgree
  <2> SUFFICES ASSUME likeCalls = {}, NEW b \in DOMAIN heart,
                      heart[b].song \notin muddled \cup {NoSong}
               PROVE  heart[b].shows = (heart[b].song \in liked)
    BY DEF HeartsAgree
  <2>1. b \in Buttons /\ heart[b] \in Faces
    BY <1>1 DEF ControlsInv, LikeInv, LikeShape
  <2>2. heart[b].shows \in BOOLEAN
    BY <2>1 DEF Faces
  <2>3. heart[b].shows <=> heart[b].song \in liked
    BY <1>1, <2>1 DEF ControlsInv, LikeInv, ButtonsTell
  <2> QED  BY <2>2, <2>3
<1>2. ASSUME ControlsInv
      PROVE  ChipsSettle
  <2> SUFFICES ASSUME tagCalls = {}
               PROVE  /\ ToSet(chips) \ crossed = tags \ crossed
                      /\ \A i, j \in DOMAIN chips :
                            chips[i] = chips[j] /\ chips[i] \notin crossed => i = j
    BY DEF ChipsSettle
  <2>1. chips \in Seq(Tags) /\ tags \in SUBSET Tags
    BY <1>2 DEF ControlsInv, TagInv, TagShape
  <2>2. \A t \in Tags : t \notin crossed => (t \in tags <=> t \in ToSet(chips))
    BY <1>2 DEF ControlsInv, TagInv, ChipsTell
  <2>3. \A i \in DOMAIN chips : chips[i] \in Tags
    BY <2>1
  <2>4. ToSet(chips) \in SUBSET Tags
    BY <2>3 DEF ToSet
  <2>5. ToSet(chips) \ crossed = tags \ crossed
    BY <2>1, <2>2, <2>4
  <2>6. \A i, j \in DOMAIN chips : chips[i] = chips[j] /\ chips[i] \notin crossed => i = j
    BY <1>2, <2>3 DEF ControlsInv, TagInv, OneChip, Once
  <2> QED  BY <2>5, <2>6
<1>3. ControlsInv => ControlsSettle
  BY <1>1, <1>2 DEF ControlsSettle, ControlsInv, SearchInv
<1> QED  BY ControlsInvariant, <1>3, PTL

\* The menus and the lists that fill them hold crates that exist.
PickBounds ==
    /\ menu \in Bare .. crates
    /\ \A r \in DOMAIN lists : lists[r].n \in NoList .. crates

\* The server keeps the cap of tags.
TagsBounded == IsFiniteSet(tags) /\ Cardinality(tags) <= TagCap

\* One search is on its way that is not aborted.
OneSearch == \A p, q \in inflight : ~p.aborted /\ ~q.aborted => p = q

ControlsBounds == PickBounds /\ TagsBounded /\ OneSearch

\* Loading a list fills a menu with a list that there is.
LEMMA ListLoadsBounded ==
    ASSUME PickShape, PickBounds, LoadCrateList, UNCHANGED crates
    PROVE  PickBounds'
<1> USE DEF PickShape, PickBounds, NoList, Bare
<1>1. CASE listCache = 0
  <2>1. /\ lists' = Append(lists, [at |-> "sent", n |-> 0]) /\ menu' = menu
    BY <1>1 DEF LoadCrateList
  <2>2. [at |-> "sent", n |-> 0].n = 0 /\ 0 \in -1 .. crates
    OBVIOUS
  <2>3. /\ DOMAIN lists' = 1 .. Len(lists) + 1 /\ DOMAIN lists = 1 .. Len(lists) /\ Len(lists) \in Nat
        /\ \A r \in 1 .. Len(lists) : lists'[r] = lists[r]
        /\ lists'[Len(lists) + 1] = [at |-> "sent", n |-> 0]
    BY <2>1
  <2> QED  BY <2>1, <2>2, <2>3
<1>2. CASE listCache # 0
  <2>1. /\ lists' = lists
        /\ menu' = IF lists[listCache].at = "landed" THEN Populated(lists[listCache].n) ELSE menu
    BY <1>2 DEF LoadCrateList
  <2>2. listCache \in DOMAIN lists
    BY <1>2
  <2>3. lists[listCache].n \in -1 .. crates
    BY <2>2
  <2> QED  BY <2>1, <2>3 DEF Populated
<1> QED  BY <1>1, <1>2

\* Every step of the picker keeps its bounds: a crate is never taken away.
LEMMA PickBoundsStep ==
    ASSUME PickInv, PickBounds, PickNext
    PROVE  PickBounds'
<1>0. PickShape /\ crates \in Nat /\ DOMAIN lists = 1 .. Len(lists)
  BY DEF PickInv, PickShape
<1>1. CASE OpenPicker
  BY <1>0, <1>1, ListLoadsBounded DEF OpenPicker
<1>2. ASSUME NEW r \in DOMAIN lists, ListServed(r)
      PROVE  PickBounds'
  <2>1. /\ lists' = [lists EXCEPT ![r] = [at |-> "served", n |-> crates]]
        /\ UNCHANGED <<crates, menu>>
    BY <1>2 DEF ListServed
  <2>2. [at |-> "served", n |-> crates].n = crates /\ crates \in NoList .. crates
    BY <1>0 DEF NoList
  <2> QED  BY <2>1, <2>2 DEF PickBounds
<1>3. ASSUME NEW r \in DOMAIN lists, NEW fails \in BOOLEAN, ListLands(r, fails)
      PROVE  PickBounds'
  <2> DEFINE k == IF fails THEN NoList ELSE lists[r].n
  <2>1. /\ lists' = [lists EXCEPT ![r] = [at |-> "landed", n |-> k]]
        /\ crates' = crates /\ menu' = IF menu = Bare THEN k ELSE menu
    BY <1>3 DEF ListLands, Populated
  <2>2. k \in NoList .. crates
    BY <1>0 DEF NoList, PickBounds
  <2> HIDE DEF k
  <2>3. [at |-> "landed", n |-> k].n = k
    OBVIOUS
  <2> QED  BY <1>0, <2>1, <2>2, <2>3 DEF PickBounds, NoList, Bare
<1>4. CASE CreateCrate \/ CrateMade \/ CreateFails
  <2>1. lists' = lists /\ menu' = menu /\ (crates' = crates \/ crates' = crates + 1)
    BY <1>4 DEF CreateCrate, CrateMade, CreateFails
  <2> QED  BY <2>1, <1>0 DEF PickBounds, Bare, NoList
<1>5. ASSUME CreateLands \/ \E creates \in BOOLEAN : SwapPage(creates)
      PROVE  PickBounds'
  <2>1. lists' = lists /\ menu' = Bare /\ (crates' = crates \/ crates' = crates + 1)
    <3>1. CASE CreateLands
      BY <3>1 DEF CreateLands, InvalidateCratePickerCache, Nulled
    <3>2. ASSUME NEW creates \in BOOLEAN, SwapPage(creates)
          PROVE  /\ lists' = lists /\ menu' = Bare
                 /\ crates' = crates \/ crates' = crates + 1
      <4>1. lists' = lists /\ menu' = Bare /\ crates' = crates + (IF creates THEN 1 ELSE 0)
        BY <3>2 DEF SwapPage, Nulled
      <4> QED  BY <1>0, <4>1
    <3> QED  BY <1>5, <3>1, <3>2
  <2> QED  BY <2>1, <1>0 DEF PickBounds, Bare, NoList
<1>6. CASE AddSettles
  BY <1>0, <1>6, ListLoadsBounded DEF AddSettles
<1> QED  BY <1>1, <1>2, <1>3, <1>4, <1>5, <1>6 DEF PickNext

\* tag_add refuses a tag past the cap (TAG_CAP in lib/tag-edit.ts).
LEMMA TagBoundStep ==
    ASSUME TagInv, TagsBounded, TagNext
    PROVE  TagsBounded'
<1> USE ControlsAssumption DEF TagsBounded
<1>0. Cardinality(tags) \in Nat
  BY FS_CardinalityType
<1>1. ASSUME tags' = tags
      PROVE  TagsBounded'
  BY <1>1
<1>2. ASSUME NEW t, tags' = tags \ {t}
      PROVE  TagsBounded'
  <2>1. /\ IsFiniteSet(tags \ {t})
        /\ Cardinality(tags \ {t}) = IF t \in tags THEN Cardinality(tags) - 1 ELSE Cardinality(tags)
    BY FS_RemoveElement
  <2> QED  BY <1>0, <1>2, <2>1
<1>3. ASSUME NEW t, tags' = tags \cup {t}, ~(t \notin tags /\ Cardinality(tags) >= TagCap)
      PROVE  TagsBounded'
  <2>1. /\ IsFiniteSet(tags \cup {t})
        /\ Cardinality(tags \cup {t}) = IF t \in tags THEN Cardinality(tags) ELSE Cardinality(tags) + 1
    BY FS_AddElement
  <2> QED  BY <1>0, <1>3, <2>1
<1>4. ASSUME NEW call \in tagCalls, TagServed(call)
      PROVE  TagsBounded'
  <2> DEFINE full == call.tag \notin tags /\ Cardinality(tags) >= TagCap
  <2>1. tags' = IF call.intent = "remove" THEN tags \ {call.tag}
                ELSE IF call.intent = "add" /\ full THEN tags ELSE tags \cup {call.tag}
    BY <1>4 DEF TagServed
  <2>2. call.intent # "remove" => call.intent = "add"
    BY <1>4 DEF TagInv, TagShape, TagEdits
  <2> HIDE DEF full
  <2>3. tags' = tags \ {call.tag} \/ tags' = tags \/ (tags' = tags \cup {call.tag} /\ ~full)
    BY <2>1, <2>2
  <2> QED  BY <1>1, <1>2, <1>3, <2>3 DEF full
<1> QED  BY <1>1, <1>4 DEF TagNext, SubmitTag, RemoveChip, Edit, TagLands, TagFails

\* A search that starts aborts the one before.
LEMMA OneSearchStep ==
    ASSUME OneSearch, LikeShape, SearchNext
    PROVE  OneSearch'
<1> USE DEF OneSearch
<1>0. \A r \in inflight : IsSearch(r)
  BY DEF LikeShape
<1>1. ASSUME inflight' \subseteq inflight
      PROVE  OneSearch'
  BY <1>1
<1>2. CASE PoolRun
  <2>1. inflight' = {Aborted(r) : r \in inflight} \cup {NewSearch}
    BY <1>2 DEF PoolRun, Aborted
  <2>2. \A r \in inflight : Aborted(r).aborted
    BY <1>0, AbortedFacts
  <2>3. \A p \in inflight' : p.aborted \/ p = NewSearch
    BY <2>1, <2>2
  <2> QED  BY <2>3
<1>3. ASSUME NEW r \in inflight, SearchServed(r)
      PROVE  OneSearch'
  <2>1. inflight' = (inflight \ {r}) \cup {Served(r)}
    BY <1>3 DEF SearchServed, Served
  <2>2. Served(r).aborted = r.aborted
    BY <1>0, ServedFacts
  <2> QED  BY <2>1, <2>2
<1>4. ASSUME ~PoolRun, ~\E r \in inflight : SearchServed(r)
      PROVE  OneSearch'
  BY <1>1, <1>4 DEF SearchNext, TypeQuery, SearchLands, SearchFails
<1> QED  BY <1>2, <1>3, <1>4

\* The like buttons abort none and send none.
LEMMA OneSearchUnderLikes ==
    ASSUME OneSearch, LikeShape, LikeNext
    PROVE  OneSearch'
<1>1. CASE inflight' = inflight
  BY <1>1 DEF OneSearch
<1>2. ASSUME NEW song, inflight' = {Staled(r, song) : r \in inflight}
      PROVE  OneSearch'
  <2>1. \A r \in inflight : Staled(r, song).aborted = r.aborted
    BY StaledFacts DEF LikeShape
  <2> QED  BY <1>2, <2>1 DEF OneSearch
<1> QED  BY <1>1, <1>2, SearchesUnderLikes

\* The bounds of the controls are an invariant beside their invariant.
LEMMA ControlsBounded == ControlsSpec => []ControlsBounds
<1>1. ControlsInit => ControlsBounds
  <2> SUFFICES ASSUME ControlsInit PROVE ControlsBounds
    OBVIOUS
  <2>1. crates = 1 /\ lists = <<>> /\ menu = -2 /\ tags = {} /\ inflight = {}
    BY DEF ControlsInit, Bare
  <2>2. PickBounds
    BY <2>1 DEF PickBounds, Bare, NoList
  <2>3. TagsBounded
    BY <2>1, ControlsAssumption, FS_EmptySet DEF TagsBounded
  <2> QED  BY <2>1, <2>2, <2>3 DEF ControlsBounds, OneSearch
<1>2. ControlsInv /\ ControlsBounds /\ [ControlsNext]_controlsVars => ControlsBounds'
  <2> SUFFICES ASSUME ControlsInv, ControlsBounds, [ControlsNext]_controlsVars PROVE ControlsBounds'
    OBVIOUS
  <2>0. PickInv /\ TagInv /\ LikeShape /\ PickBounds /\ TagsBounded /\ OneSearch
    BY DEF ControlsInv, LikeInv, ControlsBounds
  <2>1. PickNext \/ UNCHANGED pickVars => PickBounds'
    BY <2>0, PickBoundsStep DEF pickVars, PickBounds
  <2>2. TagNext \/ UNCHANGED tagVars => TagsBounded'
    BY <2>0, TagBoundStep DEF tagVars, TagsBounded
  <2>3. SearchNext \/ LikeNext \/ UNCHANGED searchVars => OneSearch'
    BY <2>0, OneSearchStep, OneSearchUnderLikes DEF searchVars, OneSearch
  <2>4. SearchNext => PickBounds'
    <3>1. Bare \in Bare .. crates /\ NoList \in Int
      BY <2>0 DEF PickInv, PickShape, Bare, NoList
    <3> QED  BY <2>0, <3>1, MenusUnderSearch DEF PickBounds
  <2> QED  BY <2>1, <2>2, <2>3, <2>4 DEF ControlsNext, controlsVars, ControlsBounds
<1> QED  BY <1>1, <1>2, ControlsInvariant, PTL DEF ControlsSpec

\* The shape of the four controls, for any number of songs, tags and moves.
THEOREM ControlsTypes == ControlsSpec => []ControlsTypeOK
<1>1. ASSUME ControlsInv, ControlsBounds
      PROVE  ControlsTypeOK
  <2>1. listCache \in 0 .. Len(lists) /\ menu \in Bare .. crates /\ dueCrates <= crates
    BY <1>1 DEF ControlsInv, PickInv, PickShape, ControlsBounds, PickBounds
  <2>2. \A b \in DOMAIN heart : heart[b].song \in Songs \cup {NoSong}
    BY <1>1 DEF ControlsInv, LikeInv, LikeShape, Faces
  <2>3. Cardinality(tags) <= TagCap
    BY <1>1 DEF ControlsBounds, TagsBounded
  <2>4. Cardinality({r \in inflight : ~r.aborted}) <= 1
    <3> DEFINE S == {r \in inflight : ~r.aborted}
    <3>1. \A p, q \in S : p = q
      BY <1>1 DEF ControlsBounds, OneSearch
    <3> HIDE DEF S
    <3>2. S = {} => Cardinality(S) = 0
      BY FS_EmptySet
    <3>3. ASSUME S # {}
          PROVE  Cardinality(S) = 1
      <4>1. PICK p \in S : S = {p}
        BY <3>1, <3>3
      <4>2. Cardinality({p}) = 1
        BY FS_Singleton
      <4> QED  BY <4>1, <4>2
    <3>4. Cardinality(S) <= 1
      BY <3>2, <3>3
    <3> QED  BY <3>4 DEF S
  <2> QED  BY <2>1, <2>2, <2>3, <2>4 DEF ControlsTypeOK
<1> QED  BY ControlsInvariant, ControlsBounded, <1>1, PTL

(***************************************************************************)
(* The duration check.                                                     *)
(***************************************************************************)

Durations == [duration : {"none", "null", "guess", "short", "long"},
              source : {"none", "unknown", "estimate", "header"}]

PreflightShape ==
    /\ supported \in BOOLEAN /\ workers \in Nat /\ worker \in 0 .. workers
    /\ broken \in SUBSET (1 .. workers) /\ breaks \in Nat
    /\ chain \in Seq(Picked) /\ reading \in SUBSET [file : Picked, worker : Nat]
    /\ parsed \in [Picked -> Parses \cup {"unread"}] /\ answer \in [Picked -> Durations]
    /\ cut \in SUBSET Picked /\ IsFiniteSet(cut)

\* One read is under way at most, by the worker there is; it is cut short when
\* that worker was broken before it began.
OneRead ==
    \A r \in reading :
        /\ \A q \in reading : q = r
        /\ r.worker = worker /\ (worker \in broken <=> r.file \in cut)
        /\ answer[r.file] = NoAnswer

\* A browser with workers reads by a worker.
ReadByWorker ==
    /\ supported /\ reading # {} => worker # 0
    /\ ~supported => worker = 0

\* What waits has not been touched.
WaitsUntouched ==
    /\ \A i \in DOMAIN chain :
          /\ answer[chain[i]] = NoAnswer /\ parsed[chain[i]] = "unread" /\ chain[i] \notin cut
          /\ \A r \in reading : r.file # chain[i]
    /\ \A i, j \in DOMAIN chain : chain[i] = chain[j] => i = j

\* A file that was cut short is being read, or its duration is unknown.
CutUnknown ==
    \A f \in cut : \/ answer[f] = UnknownDuration
                   \/ answer[f] = NoAnswer /\ \E r \in reading : r.file = f

\* A worker that broke while idle cuts one file short at most.
CutsCounted ==
    Cardinality(cut) + (IF worker \in broken /\ reading = {} THEN 1 ELSE 0) <= breaks

\* The answer for any other file is what its header says.
HeaderTold ==
    \A f \in Picked : answer[f] # NoAnswer /\ f \notin cut =>
        /\ parsed[f] # "unread"
        /\ parsed[f] \in Headers => answer[f] = ClassifyDuration(parsed[f])
        /\ parsed[f] \notin Headers => answer[f] = UnknownDuration

PreflightInv ==
    /\ PreflightShape /\ OneRead /\ ReadByWorker /\ WaitsUntouched
    /\ CutUnknown /\ CutsCounted /\ HeaderTold

\* What a header comes to is a duration, and not the lack of an answer.
LEMMA Classified ==
    /\ NoAnswer \in Durations /\ UnknownDuration \in Durations /\ NoAnswer # UnknownDuration
    /\ \A h \in Headers : ClassifyDuration(h) \in Durations /\ ClassifyDuration(h) # NoAnswer
    /\ "unread" \notin Headers /\ "fails" \notin Headers /\ "hangs" \notin Headers
    /\ "crashes" \notin Headers /\ "unread" \notin Parses
<1>1. /\ NoAnswer \in Durations /\ UnknownDuration \in Durations /\ NoAnswer # UnknownDuration
      /\ [duration |-> "guess", source |-> "estimate"] \in Durations
      /\ [duration |-> "guess", source |-> "estimate"] # NoAnswer
      /\ [duration |-> "short", source |-> "header"] \in Durations
      /\ [duration |-> "short", source |-> "header"] # NoAnswer
      /\ [duration |-> "long", source |-> "header"] \in Durations
      /\ [duration |-> "long", source |-> "header"] # NoAnswer
  BY DEF Durations, NoAnswer, UnknownDuration
<1>2. /\ ClassifyDuration("short") = [duration |-> "short", source |-> "header"]
      /\ ClassifyDuration("long") = [duration |-> "long", source |-> "header"]
      /\ ClassifyDuration("bitrate") = [duration |-> "guess", source |-> "estimate"]
      /\ ClassifyDuration("nothing") = UnknownDuration
  BY DEF ClassifyDuration, UnknownDuration
<1>3. /\ "unread" \notin Headers /\ "fails" \notin Headers /\ "hangs" \notin Headers
      /\ "crashes" \notin Headers /\ "unread" \notin Parses
  BY DEF Headers, Parses
<1>4. \A h \in Headers : h = "short" \/ h = "long" \/ h = "bitrate" \/ h = "nothing"
  BY DEF Headers
<1> QED  BY <1>1, <1>2, <1>3, <1>4

\* A page before any file is picked.
LEMMA PreflightStart == PreflightInit => PreflightInv
<1> SUFFICES ASSUME PreflightInit PROVE PreflightInv
  OBVIOUS
<1> USE Classified
<1>1. PreflightShape
  <2>1. worker = 0 /\ workers = 0 /\ broken = {} /\ breaks = 0 /\ chain = <<>> /\ reading = {}
        /\ cut = {}
    BY DEF PreflightInit
  <2>2. supported \in BOOLEAN
    BY DEF PreflightInit
  <2>3. parsed \in [Picked -> Parses \cup {"unread"}] /\ answer \in [Picked -> Durations]
    BY DEF PreflightInit
  <2>4. IsFiniteSet(cut)
    BY <2>1, FS_EmptySet
  <2> QED  BY <2>1, <2>2, <2>3, <2>4 DEF PreflightShape
<1>2. OneRead /\ ReadByWorker /\ WaitsUntouched /\ CutUnknown /\ HeaderTold
  BY DEF PreflightInit, OneRead, ReadByWorker, WaitsUntouched, CutUnknown, HeaderTold
<1>3. CutsCounted
  <2>1. Cardinality(cut) = 0 /\ broken = {} /\ breaks = 0
    BY FS_EmptySet DEF PreflightInit
  <2> QED  BY <2>1 DEF CutsCounted
<1> QED  BY <1>1, <1>2, <1>3 DEF PreflightInv

\* A worker that is started is a new one.
LEMMA WorkerGot ==
    ASSUME PreflightShape, ReadByWorker, GetWorker
    PROVE  /\ workers' \in Nat /\ worker' \in 0 .. workers' /\ broken \in SUBSET (1 .. workers')
           /\ worker' \in broken => worker' = worker
           /\ supported => worker' # 0
           /\ ~supported => worker' = 0
<1> USE DEF PreflightShape, ReadByWorker
<1>1. CASE ~supported \/ worker # 0
  <2>1. worker' = worker /\ workers' = workers
    BY <1>1 DEF GetWorker
  <2> QED  BY <1>1, <2>1
<1>2. CASE supported /\ worker = 0
  <2>1. worker' = workers + 1 /\ workers' = workers + 1
    BY <1>2 DEF GetWorker
  <2>2. workers \in Nat /\ broken \in SUBSET (1 .. workers)
    OBVIOUS
  <2>3. workers + 1 \notin broken
    BY <2>2
  <2>4. \A w \in broken : w \in 1 .. workers + 1
    BY <2>2
  <2> QED  BY <1>2, <2>1, <2>2, <2>3, <2>4
<1> QED  BY <1>1, <1>2

\* A read joins the chain.
LEMMA ReadJoins ==
    ASSUME PreflightInv, NEW f \in Picked, ReadDuration(f)
    PROVE  PreflightInv'
<1> USE DEF PreflightInv
<1>1. /\ parsed[f] = "unread" /\ answer[f] = NoAnswer
      /\ \A i \in DOMAIN chain : chain[i] # f
      /\ \A r \in reading : r.file # f
      /\ chain' = Append(chain, f)
      /\ UNCHANGED <<supported, worker, broken, reading, parsed, answer, workers, breaks, cut>>
  BY DEF ReadDuration
<1>2. /\ chain \in Seq(Picked) /\ chain' \in Seq(Picked) /\ Len(chain) \in Nat
      /\ DOMAIN chain = 1 .. Len(chain) /\ DOMAIN chain' = 1 .. Len(chain) + 1
      /\ \A i \in 1 .. Len(chain) : chain'[i] = chain[i]
      /\ chain'[Len(chain) + 1] = f
  BY <1>1 DEF PreflightShape
<1>3. f \notin cut
  BY <1>1, Classified DEF CutUnknown
<1>4. PreflightShape'
  BY <1>1, <1>2 DEF PreflightShape
<1>5. WaitsUntouched'
  <2>1. \A i \in DOMAIN chain' : i \in DOMAIN chain \/ i = Len(chain) + 1
    BY <1>2
  <2>2. \A i \in DOMAIN chain' :
            /\ answer[chain'[i]] = NoAnswer /\ parsed[chain'[i]] = "unread" /\ chain'[i] \notin cut
            /\ \A r \in reading : r.file # chain'[i]
    BY <2>1, <1>1, <1>2, <1>3 DEF WaitsUntouched
  <2>3. \A i, j \in DOMAIN chain' : chain'[i] = chain'[j] => i = j
    BY <2>1, <1>1, <1>2 DEF WaitsUntouched
  <2> QED  BY <2>2, <2>3, <1>1 DEF WaitsUntouched
<1>6. (OneRead /\ ReadByWorker /\ CutUnknown /\ CutsCounted /\ HeaderTold)'
  BY <1>1 DEF OneRead, ReadByWorker, CutUnknown, CutsCounted, HeaderTold
<1> QED  BY <1>4, <1>5, <1>6

\* The next read begins; a worker that broke unheard cuts it short.
LEMMA ReadBeginsStep ==
    ASSUME PreflightInv, ReadBegins
    PROVE  PreflightInv'
<1> USE DEF PreflightInv
<1> DEFINE f == Head(chain)
           r == [file |-> f, worker |-> worker']
<1>1. /\ chain # <<>> /\ reading = {} /\ chain' = Tail(chain) /\ GetWorker
      /\ reading' = {r}
      /\ cut' = IF worker' \in broken THEN cut \cup {f} ELSE cut
      /\ UNCHANGED <<supported, broken, parsed, answer, breaks>>
  BY DEF ReadBegins
<1>2. /\ workers' \in Nat /\ worker' \in 0 .. workers' /\ broken \in SUBSET (1 .. workers')
      /\ worker' \in broken => worker' = worker
      /\ supported => worker' # 0
      /\ ~supported => worker' = 0
  BY <1>1, WorkerGot
<1>3. /\ chain \in Seq(Picked) /\ chain' \in Seq(Picked) /\ Len(chain) \in Nat
      /\ DOMAIN chain = 1 .. Len(chain) /\ DOMAIN chain' = 1 .. Len(chain) - 1
      /\ 1 \in DOMAIN chain /\ f = chain[1] /\ f \in Picked
      /\ \A i \in 1 .. Len(chain) - 1 : chain'[i] = chain[i + 1]
  BY <1>1 DEF PreflightShape
<1>4. answer[f] = NoAnswer /\ parsed[f] = "unread" /\ f \notin cut
  BY <1>3 DEF WaitsUntouched
<1> HIDE DEF f
<1>5. r \in [file : Picked, worker : Nat] /\ r.file = f /\ r.worker = worker'
  BY <1>2, <1>3
<1> HIDE DEF r
<1>6. /\ cut \in SUBSET Picked /\ IsFiniteSet(cut) /\ Cardinality(cut) \in Nat /\ breaks \in Nat
  BY FS_CardinalityType DEF PreflightShape
<1>7. /\ cut' \in SUBSET Picked /\ IsFiniteSet(cut')
      /\ worker' \in broken => Cardinality(cut') = Cardinality(cut) + 1
      /\ worker' \notin broken => Cardinality(cut') = Cardinality(cut)
  BY <1>1, <1>3, <1>4, <1>6, FS_AddElement
<1>8. PreflightShape'
  BY <1>1, <1>2, <1>3, <1>5, <1>7 DEF PreflightShape
<1>9. OneRead'
  BY <1>1, <1>4, <1>5 DEF OneRead
<1>10. ReadByWorker'
  BY <1>1, <1>2 DEF ReadByWorker
<1>11. WaitsUntouched'
  <2>1. \A i \in DOMAIN chain' : i + 1 \in DOMAIN chain /\ i + 1 # 1 /\ chain'[i] = chain[i + 1]
    BY <1>3
  <2>2. \A i \in DOMAIN chain' : chain'[i] # f
    BY <2>1, <1>3 DEF WaitsUntouched
  <2>3. \A i \in DOMAIN chain' :
            answer[chain'[i]] = NoAnswer /\ parsed[chain'[i]] = "unread" /\ chain'[i] \notin cut
    BY <2>1 DEF WaitsUntouched
  <2>4. \A i, j \in DOMAIN chain' : chain'[i] = chain'[j] => i = j
    <3> SUFFICES ASSUME NEW i \in DOMAIN chain', NEW j \in DOMAIN chain', chain'[i] = chain'[j]
                 PROVE  i = j
      OBVIOUS
    <3>1. i + 1 = j + 1
      BY <2>1 DEF WaitsUntouched
    <3> QED  BY <3>1, <1>3
  <2> QED  BY <2>2, <2>3, <2>4, <1>1, <1>5 DEF WaitsUntouched
<1>12. CutUnknown'
  BY <1>1, <1>4, <1>5 DEF CutUnknown
<1>13. CutsCounted'
  <2>1. reading' # {}
    BY <1>1
  <2>2. Cardinality(cut') <= breaks
    <3>1. CASE worker' \in broken
      <4>1. worker \in broken /\ reading = {}
        BY <3>1, <1>1, <1>2
      <4> QED  BY <4>1, <3>1, <1>6, <1>7 DEF CutsCounted
    <3>2. CASE worker' \notin broken
      <4>1. Cardinality(cut) <= breaks
        BY <1>6 DEF CutsCounted
      <4> QED  BY <4>1, <3>2, <1>7
    <3> QED  BY <3>1, <3>2
  <2>3. breaks' = breaks /\ Cardinality(cut') \in Nat
    BY <1>1, <1>6, <1>7
  <2>4. (Cardinality(cut) + (IF worker \in broken /\ reading = {} THEN 1 ELSE 0) <= breaks)'
    BY <2>1, <2>2, <2>3
  <2> QED  BY <2>4 DEF CutsCounted
<1>14. HeaderTold'
  BY <1>1, <1>4 DEF HeaderTold
<1> QED  BY <1>8, <1>9, <1>10, <1>11, <1>12, <1>13, <1>14

\* The pointer over the drop zone starts a worker.
LEMMA WarmStep ==
    ASSUME PreflightInv, WarmPreflightWorker
    PROVE  PreflightInv'
<1> USE DEF PreflightInv
<1>1. /\ supported /\ worker = 0 /\ GetWorker
      /\ UNCHANGED <<supported, broken, chain, reading, parsed, answer, breaks, cut>>
  BY DEF WarmPreflightWorker
<1>2. /\ workers' \in Nat /\ worker' \in 0 .. workers' /\ broken \in SUBSET (1 .. workers')
      /\ worker' \in broken => worker' = worker
      /\ supported => worker' # 0
  BY <1>1, WorkerGot
<1>3. reading = {}
  BY <1>1 DEF ReadByWorker
<1>4. worker' \notin broken
  BY <1>1, <1>2
<1>5. PreflightShape'
  BY <1>1, <1>2 DEF PreflightShape
<1>6. CutsCounted'
  <2>1. Cardinality(cut) \in Nat /\ breaks \in Nat
    BY FS_CardinalityType DEF PreflightShape
  <2>2. Cardinality(cut) <= breaks
    BY <2>1 DEF CutsCounted
  <2>3. Cardinality(cut) + 0 <= breaks
    BY <2>1, <2>2
  <2> QED  BY <2>3, <1>1, <1>4 DEF CutsCounted
<1>7. ReadByWorker'
  BY <1>1, <1>2, <1>3 DEF ReadByWorker
<1>8. (OneRead /\ WaitsUntouched /\ CutUnknown /\ HeaderTold)'
  BY <1>1, <1>3 DEF OneRead, WaitsUntouched, CutUnknown, HeaderTold
<1> QED  BY <1>5, <1>6, <1>7, <1>8

\* A read ends with an answer: unknown if it was cut short, else what its
\* header says.
LEMMA ReadEnds ==
    ASSUME PreflightInv, NEW r \in reading, NEW a \in Durations,
           answer' = [answer EXCEPT ![r.file] = a], reading' = {},
           UNCHANGED <<supported, chain, workers, breaks, cut>>,
           parsed' \in [Picked -> Parses \cup {"unread"}],
           \A f \in Picked : f # r.file => parsed'[f] = parsed[f],
           worker' \in 0 .. workers, broken' \in SUBSET (1 .. workers),
           worker' \notin broken', supported \/ worker' = 0,
           r.file \in cut => a = UnknownDuration,
           r.file \notin cut =>
               /\ parsed'[r.file] # "unread"
               /\ parsed'[r.file] \in Headers => a = ClassifyDuration(parsed'[r.file])
               /\ parsed'[r.file] \notin Headers => a = UnknownDuration
    PROVE  PreflightInv'
<1> USE DEF PreflightInv
<1>1. r.file \in Picked
  BY DEF PreflightShape
<1>2. /\ answer \in [Picked -> Durations] /\ answer' \in [Picked -> Durations]
      /\ answer'[r.file] = a
      /\ \A f \in Picked : f # r.file => answer'[f] = answer[f]
  BY <1>1 DEF PreflightShape
<1>3. PreflightShape'
  BY <1>2 DEF PreflightShape
<1>4. OneRead' /\ ReadByWorker'
  BY DEF OneRead, ReadByWorker
<1>5. WaitsUntouched'
  <2>1. \A i \in DOMAIN chain : chain[i] \in Picked /\ chain[i] # r.file
    BY DEF WaitsUntouched, PreflightShape
  <2> QED  BY <2>1, <1>2 DEF WaitsUntouched
<1>6. CutUnknown'
  <2> SUFFICES ASSUME NEW f \in cut
               PROVE  answer'[f] = UnknownDuration
    BY DEF CutUnknown
  <2>1. f \in Picked
    BY DEF PreflightShape
  <2>2. CASE f = r.file
    BY <2>2, <1>2
  <2>3. CASE f # r.file
    <3>1. \A q \in reading : q.file # f
      BY <2>3 DEF OneRead
    <3> QED  BY <2>1, <2>3, <3>1, <1>2 DEF CutUnknown
  <2> QED  BY <2>2, <2>3
<1>7. CutsCounted'
  <2>1. Cardinality(cut) \in Nat /\ breaks \in Nat
    BY FS_CardinalityType DEF PreflightShape
  <2>2. Cardinality(cut) <= breaks
    BY <2>1 DEF CutsCounted
  <2>3. Cardinality(cut) + 0 <= breaks
    BY <2>1, <2>2
  <2> QED  BY <2>3 DEF CutsCounted
<1>8. HeaderTold'
  <2> SUFFICES ASSUME NEW f \in Picked, answer'[f] # NoAnswer, f \notin cut
               PROVE  /\ parsed'[f] # "unread"
                      /\ parsed'[f] \in Headers => answer'[f] = ClassifyDuration(parsed'[f])
                      /\ parsed'[f] \notin Headers => answer'[f] = UnknownDuration
    BY DEF HeaderTold
  <2>1. CASE f = r.file
    BY <2>1, <1>2
  <2>2. CASE f # r.file
    <3>1. answer'[f] = answer[f] /\ parsed'[f] = parsed[f]
      BY <2>2, <1>2
    <3> QED  BY <3>1 DEF HeaderTold
  <2> QED  BY <2>1, <2>2
<1> QED  BY <1>3, <1>4, <1>5, <1>6, <1>7, <1>8

\* A worker that is not broken answers, or goes down with the file it parses.
LEMMA ParseStep ==
    ASSUME PreflightInv, NEW r \in reading, NEW outcome \in Parses, Parse(r, outcome)
    PROVE  PreflightInv'
<1> USE DEF PreflightInv
<1>1. /\ parsed[r.file] = "unread" /\ r.worker \notin broken
      /\ outcome \in {"hangs", "crashes"} => r.worker # 0
      /\ parsed' = [parsed EXCEPT ![r.file] = outcome]
      /\ UNCHANGED <<supported, chain, workers, breaks, cut>>
  BY DEF Parse
<1>2. /\ r.worker = worker /\ r.file \notin cut /\ answer[r.file] = NoAnswer /\ reading = {r}
      /\ r.file \in Picked /\ worker \in 0 .. workers /\ workers \in Nat
      /\ broken \in SUBSET (1 .. workers) /\ worker \notin broken
  BY <1>1 DEF OneRead, PreflightShape
<1>3. /\ parsed' \in [Picked -> Parses \cup {"unread"}] /\ parsed'[r.file] = outcome
      /\ \A f \in Picked : f # r.file => parsed'[f] = parsed[f]
  BY <1>1, <1>2 DEF PreflightShape
<1>4. CASE outcome = "crashes"
  <2> DEFINE lost == {q \in reading : q.worker = r.worker}
  <2>1. /\ answer' = [f \in Picked |-> IF \E q \in lost : q.file = f
                                       THEN UnknownDuration ELSE answer[f]]
        /\ reading' = reading \ lost
        /\ broken' = broken \cup {r.worker} /\ worker' = 0
    BY <1>4 DEF Parse
  <2>2. lost = {r}
    BY <1>2
  <2>3. answer' = [answer EXCEPT ![r.file] = UnknownDuration] /\ reading' = {}
    BY <2>1, <2>2, <1>2 DEF PreflightShape
  <2>4. /\ worker' \in 0 .. workers /\ broken' \in SUBSET (1 .. workers) /\ worker' \notin broken'
        /\ worker' = 0
    BY <2>1, <1>1, <1>2, <1>4
  <2>5. UnknownDuration \in Durations /\ outcome \notin Headers /\ outcome # "unread"
    BY <1>4, Classified
  <2>6. (supported \/ worker' = 0) /\ (r.file \in cut => UnknownDuration = UnknownDuration)
    BY <2>4
  <2>7. r.file \notin cut =>
            /\ parsed'[r.file] # "unread"
            /\ parsed'[r.file] \in Headers => UnknownDuration = ClassifyDuration(parsed'[r.file])
            /\ parsed'[r.file] \notin Headers => UnknownDuration = UnknownDuration
    BY <2>5, <1>3
  <2> QED  BY ONLY PreflightInv, r \in reading, <2>3, <2>4, <2>5, <2>6, <2>7, <1>1, <1>3, ReadEnds
<1>5. CASE outcome # "crashes"
  <2>1. UNCHANGED <<answer, reading, broken, worker>>
    BY <1>5 DEF Parse
  <2>2. PreflightShape'
    BY <2>1, <1>1, <1>3 DEF PreflightShape
  <2>3. WaitsUntouched'
    <3>1. \A i \in DOMAIN chain : chain[i] \in Picked /\ chain[i] # r.file
      BY DEF WaitsUntouched, PreflightShape
    <3> QED  BY <3>1, <2>1, <1>1, <1>3 DEF WaitsUntouched
  <2>4. HeaderTold'
    BY <2>1, <1>1, <1>2, <1>3 DEF HeaderTold
  <2>5. (OneRead /\ ReadByWorker /\ CutUnknown /\ CutsCounted)'
    BY <2>1, <1>1 DEF OneRead, ReadByWorker, CutUnknown, CutsCounted
  <2> QED  BY <2>2, <2>3, <2>4, <2>5
<1> QED  BY <1>4, <1>5

\* A worker's answer, and the time limit.
LEMMA AnswersStep ==
    ASSUME PreflightInv, NEW r \in reading, Answers(r)
    PROVE  PreflightInv'
<1> USE DEF PreflightInv
<1> DEFINE a == IF parsed[r.file] = "fails" THEN UnknownDuration ELSE ClassifyDuration(parsed[r.file])
<1>1. /\ parsed[r.file] \in Headers \cup {"fails"} /\ r.worker \notin broken
      /\ answer' = [answer EXCEPT ![r.file] = a] /\ reading' = reading \ {r}
      /\ UNCHANGED <<supported, worker, broken, chain, parsed, workers, breaks, cut>>
  BY DEF Answers
<1>2. r.worker = worker /\ r.file \notin cut /\ worker \notin broken /\ reading' = {}
  BY <1>1 DEF OneRead
<1>3. /\ a \in Durations
      /\ parsed[r.file] \in Headers => a = ClassifyDuration(parsed[r.file])
      /\ parsed[r.file] \notin Headers => a = UnknownDuration
      /\ parsed[r.file] # "unread"
  BY <1>1, Classified
<1> HIDE DEF a
<1>4. /\ parsed' \in [Picked -> Parses \cup {"unread"}] /\ parsed' = parsed
      /\ worker' \in 0 .. workers /\ broken' \in SUBSET (1 .. workers) /\ worker' \notin broken'
      /\ (supported \/ worker' = 0)
  BY <1>1, <1>2 DEF PreflightShape, ReadByWorker
<1> QED  BY <1>1, <1>2, <1>3, <1>4, ReadEnds

\* The time limit ends a read and its worker.
LEMMA TimesOutStep ==
    ASSUME PreflightInv, NEW r \in reading, TimesOut(r)
    PROVE  PreflightInv'
<1> USE DEF PreflightInv
<1>1. /\ parsed[r.file] = "hangs" \/ r.worker \in broken
      /\ answer' = [answer EXCEPT ![r.file] = UnknownDuration] /\ reading' = reading \ {r}
      /\ broken' = broken \cup ({worker} \ {0}) /\ worker' = 0
      /\ UNCHANGED <<supported, chain, parsed, workers, breaks, cut>>
  BY DEF TimesOut
<1>2. r.worker = worker /\ (worker \in broken => r.file \in cut) /\ reading' = {}
  BY <1>1 DEF OneRead
<1>3. /\ parsed' \in [Picked -> Parses \cup {"unread"}] /\ parsed' = parsed
      /\ worker' \in 0 .. workers /\ broken' \in SUBSET (1 .. workers) /\ worker' \notin broken'
      /\ worker' = 0
  BY <1>1 DEF PreflightShape
<1>4. r.file \notin cut => parsed[r.file] = "hangs"
  BY <1>1, <1>2
<1>5. /\ UnknownDuration \in Durations
      /\ r.file \notin cut => parsed'[r.file] # "unread" /\ parsed'[r.file] \notin Headers
  BY <1>3, <1>4, Classified
<1> QED  BY <1>1, <1>2, <1>3, <1>5, ReadEnds

\* A worker breaks with nobody to hear it.
LEMMA BreaksStep ==
    ASSUME PreflightInv, Breaks
    PROVE  PreflightInv'
<1> USE DEF PreflightInv
<1>1. /\ breaks' = breaks + 1 /\ worker \notin broken /\ worker # 0 /\ reading = {}
      /\ broken' = broken \cup {worker}
      /\ UNCHANGED <<supported, worker, chain, reading, parsed, answer, workers, cut>>
  BY DEF Breaks
<1>2. PreflightShape'
  BY <1>1 DEF PreflightShape
<1>3. CutsCounted'
  <2>1. Cardinality(cut) \in Nat /\ breaks \in Nat
    BY FS_CardinalityType DEF PreflightShape
  <2>2. Cardinality(cut) + 0 <= breaks
    BY <1>1, <2>1 DEF CutsCounted
  <2>3. Cardinality(cut) + 1 <= breaks + 1
    BY <2>1, <2>2
  <2> QED  BY <2>3, <1>1 DEF CutsCounted
<1>4. (OneRead /\ ReadByWorker /\ WaitsUntouched /\ CutUnknown /\ HeaderTold)'
  BY <1>1 DEF OneRead, ReadByWorker, WaitsUntouched, CutUnknown, HeaderTold
<1> QED  BY <1>2, <1>3, <1>4

\* Every step of the check keeps the invariant.
LEMMA PreflightStep == PreflightInv /\ [PreflightNext]_preflightVars => PreflightInv'
<1> SUFFICES ASSUME PreflightInv, [PreflightNext]_preflightVars PROVE PreflightInv'
  OBVIOUS
<1>1. CASE PreflightNext
  BY <1>1, ReadJoins, WarmStep, ReadBeginsStep, AnswersStep, TimesOutStep, ParseStep, BreaksStep
     DEF PreflightNext
<1>2. CASE UNCHANGED preflightVars
  BY <1>2 DEF preflightVars, PreflightInv, PreflightShape, OneRead, ReadByWorker, WaitsUntouched,
              CutUnknown, CutsCounted, HeaderTold
<1> QED  BY <1>1, <1>2

\* What an answer may be.
LEMMA AnswersAre ==
    ASSUME PreflightInv, NEW f \in Picked, answer[f] # NoAnswer
    PROVE  \/ answer[f] = UnknownDuration /\ (f \in cut \/ parsed[f] \notin Headers)
           \/ f \notin cut /\ parsed[f] = "short" /\ answer[f] = [duration |-> "short", source |-> "header"]
           \/ f \notin cut /\ parsed[f] = "long" /\ answer[f] = [duration |-> "long", source |-> "header"]
           \/ /\ f \notin cut /\ parsed[f] = "bitrate"
              /\ answer[f] = [duration |-> "guess", source |-> "estimate"]
           \/ f \notin cut /\ parsed[f] = "nothing" /\ answer[f] = UnknownDuration
<1>1. /\ ClassifyDuration("short") = [duration |-> "short", source |-> "header"]
      /\ ClassifyDuration("long") = [duration |-> "long", source |-> "header"]
      /\ ClassifyDuration("bitrate") = [duration |-> "guess", source |-> "estimate"]
      /\ ClassifyDuration("nothing") = UnknownDuration
  BY DEF ClassifyDuration, UnknownDuration
<1>2. f \in cut => answer[f] = UnknownDuration
  BY DEF PreflightInv, CutUnknown
<1>3. f \notin cut => /\ parsed[f] \in Headers => answer[f] = ClassifyDuration(parsed[f])
                      /\ parsed[f] \notin Headers => answer[f] = UnknownDuration
  BY DEF PreflightInv, HeaderTold
<1>4. parsed[f] \in Headers => \/ parsed[f] = "short" \/ parsed[f] = "long"
                               \/ parsed[f] = "bitrate" \/ parsed[f] = "nothing"
  BY DEF Headers
<1> QED  BY <1>1, <1>2, <1>3, <1>4

\* The verdict skips a file for its length only when the length is known, and
\* passes none that is empty, too large, or no audio.
LEMMA Verdicts ==
    ASSUME NEW file, file.audio \in BOOLEAN, file.size \in {"empty", "fits", "large"},
           NEW duration
    PROVE  /\ Verdict(file, duration) = "too_long" => duration = "long"
           /\ duration = "long" => Verdict(file, duration) # "none"
           /\ Verdict(file, duration) = "none" => file.audio /\ file.size = "fits"
<1>1. CASE ~file.audio
  <2>1. Verdict(file, duration) = "unsupported_container"
    BY <1>1 DEF Verdict
  <2> QED  BY <2>1
<1>2. CASE file.audio /\ file.size = "empty"
  <2>1. Verdict(file, duration) = "empty"
    BY <1>2 DEF Verdict
  <2> QED  BY <2>1
<1>3. CASE file.audio /\ file.size # "empty" /\ duration = "long"
  <2>1. Verdict(file, duration) = "too_long"
    BY <1>3 DEF Verdict
  <2> QED  BY <2>1, <1>3
<1>4. CASE file.audio /\ file.size = "large" /\ duration # "long"
  <2>1. Verdict(file, duration) = "too_large"
    BY <1>4 DEF Verdict
  <2> QED  BY <2>1, <1>4
<1>5. CASE file.audio /\ file.size = "fits" /\ duration # "long"
  <2>1. Verdict(file, duration) = "none"
    BY <1>5 DEF Verdict
  <2> QED  BY <2>1, <1>5
<1> QED  BY <1>1, <1>2, <1>3, <1>4, <1>5

\* The header decides (lib/upload-policy.ts:128): whatever breaks, hangs or
\* crashes, an answer is what the file's own header says, a worker that broke
\* unheard costs one file its duration at most, and no file is skipped for a
\* length its header does not state.  For every number of files and breaks.
THEOREM HeaderDecides == PreflightSpec => []ReadTellsHeader
<1>1. ASSUME PreflightInv
      PROVE  ReadTellsHeader
  <2>1. ASSUME NEW f \in Picked, answer[f] # NoAnswer, f \notin cut
        PROVE  /\ parsed[f] # "unread"
               /\ answer[f] = IF parsed[f] \in Headers THEN ClassifyDuration(parsed[f])
                              ELSE UnknownDuration
    BY <1>1, <2>1 DEF PreflightInv, HeaderTold
  <2>2. Cardinality(cut) <= breaks
    <3>1. Cardinality(cut) \in Nat /\ breaks \in Nat
      BY <1>1, FS_CardinalityType DEF PreflightInv, PreflightShape
    <3> QED  BY <1>1, <3>1 DEF PreflightInv, CutsCounted
  <2>3. ASSUME NEW f \in Picked, NEW audio \in BOOLEAN, NEW bytes \in {"empty", "fits", "large"},
               answer[f] # NoAnswer
        PROVE  LET check == PreflightFile([audio |-> audio, size |-> bytes], answer[f])
               IN  /\ check.reason = "too_long" => parsed[f] = "long"
                   /\ parsed[f] = "long" /\ f \notin cut => check.reason # "none"
                   /\ check.clientDuration # "null" => check.clientDuration = parsed[f]
                   /\ check.reason = "none" => audio /\ bytes = "fits"
    <3> DEFINE file == [audio |-> audio, size |-> bytes]
               trusted == IF answer[f].source = "header" THEN answer[f].duration ELSE "null"
               check == PreflightFile(file, answer[f])
    <3>1. check.clientDuration = trusted /\ check.reason = Verdict(file, trusted)
      BY DEF PreflightFile
    <3>2. \/ trusted = "null" /\ ~(parsed[f] = "long" /\ f \notin cut)
          \/ trusted = "short" /\ parsed[f] = "short"
          \/ trusted = "long" /\ parsed[f] = "long"
      <4>1. UnknownDuration.source = "unknown" /\ "long" \in Headers
        BY DEF UnknownDuration, Headers
      <4>2. CASE answer[f] = UnknownDuration /\ (f \in cut \/ parsed[f] \notin Headers)
        BY <4>1, <4>2
      <4>3. CASE f \notin cut /\ parsed[f] = "short"
                 /\ answer[f] = [duration |-> "short", source |-> "header"]
        BY <4>3
      <4>4. CASE f \notin cut /\ parsed[f] = "long"
                 /\ answer[f] = [duration |-> "long", source |-> "header"]
        BY <4>4
      <4>5. CASE f \notin cut /\ parsed[f] = "bitrate"
                 /\ answer[f] = [duration |-> "guess", source |-> "estimate"]
        BY <4>5
      <4>6. CASE f \notin cut /\ parsed[f] = "nothing" /\ answer[f] = UnknownDuration
        BY <4>1, <4>6
      <4> QED  BY <1>1, <2>3, <4>2, <4>3, <4>4, <4>5, <4>6, AnswersAre
    <3>3. file.audio = audio /\ file.size = bytes
      OBVIOUS
    <3> HIDE DEF file, trusted
    <3>4. /\ Verdict(file, trusted) = "too_long" => trusted = "long"
          /\ trusted = "long" => Verdict(file, trusted) # "none"
          /\ Verdict(file, trusted) = "none" => file.audio /\ file.size = "fits"
      BY <3>3, Verdicts
    <3>5. /\ check.reason = "too_long" => parsed[f] = "long"
          /\ parsed[f] = "long" /\ f \notin cut => check.reason # "none"
          /\ check.clientDuration # "null" => check.clientDuration = parsed[f]
          /\ check.reason = "none" => audio /\ bytes = "fits"
      <4> HIDE DEF check
      <4> QED  BY <3>1, <3>2, <3>3, <3>4
    <3> QED  BY <3>5 DEF file
  <2> QED  BY <2>1, <2>2, <2>3 DEF ReadTellsHeader
<1> QED  BY PreflightStart, PreflightStep, <1>1, PTL DEF PreflightSpec

\* The shape of the duration check.
THEOREM PreflightTypes == PreflightSpec => []PreflightTypeOK
<1>1. ASSUME PreflightInv
      PROVE  PreflightTypeOK
  <2>1. /\ PreflightShape /\ OneRead
    BY <1>1 DEF PreflightInv
  <2>2. \A r \in reading : r.file \in Picked /\ r.worker \in 0 .. workers
    BY <2>1 DEF PreflightShape, OneRead
  <2> QED  BY <2>1, <2>2 DEF PreflightTypeOK, PreflightShape
<1>2. PreflightSpec => []PreflightInv
  BY PreflightStart, PreflightStep, PTL DEF PreflightSpec
<1> QED  BY <1>1, <1>2, PTL

(***************************************************************************)
(* A crate.  First, what it is to list a finite set in the order of        *)
(* positions that differ: there is one way, and it names every member.     *)
(***************************************************************************)

\* The list names S by the positions p.
Sorts(list, S, p) ==
    /\ list \in [1 .. Cardinality(S) -> S]
    /\ \A i, j \in 1 .. Cardinality(S) : i < j => p[list[i]] < p[list[j]]

Positioned(p, S) ==
    /\ \A x \in S : p[x] \in Nat
    /\ \A x, y \in S : p[x] = p[y] => x = y

\* A sorted list names each member once.
LEMMA SortedNamesAll ==
    ASSUME NEW S, IsFiniteSet(S), NEW p, Positioned(p, S), NEW list, Sorts(list, S, p)
    PROVE  /\ Cardinality(S) \in Nat
           /\ \A i, j \in 1 .. Cardinality(S) : p[list[i]] < p[list[j]] => i < j
           /\ \A i, j \in 1 .. Cardinality(S) : list[i] = list[j] => i = j
           /\ \A x \in S : \E i \in 1 .. Cardinality(S) : list[i] = x
<1> DEFINE c == Cardinality(S)
<1>1. c \in Nat
  BY FS_CardinalityType
<1>2. list \in [1 .. c -> S] /\ \A i, j \in 1 .. c : i < j => p[list[i]] < p[list[j]]
  BY DEF Sorts
<1>3. \A i \in 1 .. c : p[list[i]] \in Nat
  BY <1>2 DEF Positioned
<1> HIDE DEF c
<1>4. \A i, j \in 1 .. c : list[i] = list[j] => i = j
  <2> SUFFICES ASSUME NEW i \in 1 .. c, NEW j \in 1 .. c, list[i] = list[j]
               PROVE  i = j
    OBVIOUS
  <2>1. ~(i < j) /\ ~(j < i)
    BY <1>2, <1>3
  <2> QED  BY <2>1, <1>1
<1>5. \A i, j \in 1 .. c : p[list[i]] < p[list[j]] => i < j
  <2> SUFFICES ASSUME NEW i \in 1 .. c, NEW j \in 1 .. c, p[list[i]] < p[list[j]]
               PROVE  i < j
    OBVIOUS
  <2>1. i # j
    BY <1>3
  <2>2. ~(j < i)
    BY <1>2, <1>3
  <2> QED  BY <2>1, <2>2, <1>1
<1>6. \A x \in S : \E i \in 1 .. c : list[i] = x
  <2>1. list \in Injection(1 .. c, S)
    BY <1>2, <1>4 DEF Injection, IsInjective
  <2>2. Cardinality(1 .. c) = Cardinality(S)
    BY <1>1, FS_Interval DEF c
  <2>3. list \in Surjection(1 .. c, S)
    BY <2>1, <2>2, FS_Injection
  <2> QED  BY <2>3 DEF Surjection
<1> QED  BY <1>1, <1>4, <1>5, <1>6 DEF c

\* There is a sorted list of any finite set.
LEMMA SortedExists ==
    ASSUME NEW U, IsFiniteSet(U), NEW p, Positioned(p, U)
    PROVE  \E list : Sorts(list, U, p)
<1> DEFINE Lacks(S) == ~\E list : Sorts(list, S, p)
           T == {n \in Nat : \E S \in SUBSET U : Cardinality(S) = n /\ Lacks(S)}
<1>1. SUFFICES ASSUME T # {} PROVE FALSE
  <2>1. Cardinality(U) \in Nat
    BY FS_CardinalityType
  <2> QED  BY <1>1, <2>1
<1>2. PICK n \in T : \A m \in T : n <= m
  <2>1. T \in SUBSET Nat
    OBVIOUS
  <2> HIDE DEF T
  <2> QED  BY <1>1, <2>1, LeastNatural
<1>3. PICK S \in SUBSET U : Cardinality(S) = n /\ Lacks(S)
  OBVIOUS
<1>4. n \in Nat /\ IsFiniteSet(S)
  BY FS_Subset
<1>5. S # {}
  <2> SUFFICES ASSUME S = {} PROVE FALSE
    OBVIOUS
  <2>1. Cardinality(S) = 0
    BY FS_EmptySet
  <2>2. [i \in 1 .. 0 |-> i] \in [1 .. 0 -> S]
    OBVIOUS
  <2>3. Sorts([i \in 1 .. 0 |-> i], S, p)
    BY <2>1, <2>2 DEF Sorts
  <2> QED  BY <2>3, <1>3
<1>6. PICK m \in S : \A x \in S : p[m] <= p[x]
  <2> DEFINE P == {p[x] : x \in S}
  <2>1. P \in SUBSET Nat /\ P # {}
    BY <1>5 DEF Positioned
  <2>2. PICK k \in P : \A l \in P : k <= l
    <3> HIDE DEF P
    <3> QED  BY <2>1, LeastNatural
  <2> QED  BY <2>2
<1> DEFINE R == S \ {m}
<1>7. R \in SUBSET U /\ Cardinality(R) = n - 1 /\ n - 1 \in Nat /\ IsFiniteSet(R)
  <2>1. Cardinality(R) = n - 1 /\ IsFiniteSet(R)
    BY <1>3, <1>4, <1>6, FS_RemoveElement
  <2>2. Cardinality(R) \in Nat
    BY <2>1, FS_CardinalityType
  <2> QED  BY <2>1, <2>2
<1>8. PICK rest : Sorts(rest, R, p)
  <2>1. n - 1 \notin T
    BY <1>2, <1>4
  <2> HIDE DEF R
  <2> QED  BY <2>1, <1>7
<1>9. rest \in [1 .. n - 1 -> R] /\ \A i, j \in 1 .. n - 1 : i < j => p[rest[i]] < p[rest[j]]
  BY <1>7, <1>8 DEF Sorts
<1> DEFINE list == [i \in 1 .. n |-> IF i = 1 THEN m ELSE rest[i - 1]]
<1>10. \A i \in 1 .. n : i # 1 => i - 1 \in 1 .. n - 1 /\ rest[i - 1] \in R
  BY <1>4, <1>9
<1>11. \A x \in R : p[m] < p[x]
  <2> SUFFICES ASSUME NEW x \in R PROVE p[m] < p[x]
    OBVIOUS
  <2>1. x \in U /\ m \in U /\ x # m /\ p[m] <= p[x] /\ p[x] \in Nat /\ p[m] \in Nat
    BY <1>6 DEF Positioned
  <2>2. p[m] # p[x]
    BY <2>1 DEF Positioned
  <2> QED  BY <2>1, <2>2
<1>12. \A x \in R : x \in S
  OBVIOUS
<1> HIDE DEF R, T, Lacks
<1>13. list \in [1 .. n -> S]
  BY <1>6, <1>10, <1>12
<1>14. ASSUME NEW i \in 1 .. n, NEW j \in 1 .. n, i < j
       PROVE  p[list[i]] < p[list[j]]
  <2>1. j # 1 /\ list[j] = rest[j - 1] /\ j - 1 \in 1 .. n - 1 /\ rest[j - 1] \in R
    BY <1>14, <1>10
  <2>2. CASE i = 1
    BY <2>1, <2>2, <1>11
  <2>3. CASE i # 1
    <3>1. list[i] = rest[i - 1] /\ i - 1 \in 1 .. n - 1 /\ i - 1 < j - 1
      BY <2>3, <1>10, <1>14
    <3> QED  BY <2>1, <3>1, <1>9
  <2> QED  BY <2>2, <2>3
<1>15. Sorts(list, S, p)
  <2> HIDE DEF list
  <2> QED  BY <1>3, <1>13, <1>14 DEF Sorts
<1> QED  BY <1>3, <1>15 DEF Lacks

\* There is only one.
LEMMA SortedIsOne ==
    ASSUME NEW S, IsFiniteSet(S), NEW p, Positioned(p, S),
           NEW a, Sorts(a, S, p), NEW b, Sorts(b, S, p)
    PROVE  a = b
<1> DEFINE c == Cardinality(S)
           T == {i \in 1 .. c : a[i] # b[i]}
<1>1. /\ c \in Nat
      /\ \A i, j \in 1 .. c : p[a[i]] < p[a[j]] => i < j
      /\ \A i, j \in 1 .. c : a[i] = a[j] => i = j
      /\ \A x \in S : \E i \in 1 .. c : a[i] = x
  BY SortedNamesAll
<1>2. /\ \A i, j \in 1 .. c : p[b[i]] < p[b[j]] => i < j
      /\ \A i, j \in 1 .. c : b[i] = b[j] => i = j
      /\ \A x \in S : \E i \in 1 .. c : b[i] = x
  BY SortedNamesAll
<1>3. /\ a \in [1 .. c -> S] /\ b \in [1 .. c -> S]
      /\ \A i, j \in 1 .. c : i < j => p[a[i]] < p[a[j]] /\ p[b[i]] < p[b[j]]
  BY DEF Sorts
<1> HIDE DEF c
<1>4. SUFFICES ASSUME T # {} PROVE FALSE
  <2>1. \A i \in 1 .. c : a[i] = b[i]
    BY <1>4
  <2>2. a = [i \in 1 .. c |-> a[i]] /\ b = [i \in 1 .. c |-> b[i]]
    BY <1>3
  <2>3. [i \in 1 .. c |-> a[i]] = [i \in 1 .. c |-> b[i]]
    BY <2>1
  <2> QED  BY <2>2, <2>3, Zenon
<1>5. PICK i \in T : \A j \in T : i <= j
  <2>1. T \in SUBSET Nat
    BY <1>1
  <2> HIDE DEF T
  <2> QED  BY <1>4, <2>1, LeastNatural
<1>6. i \in 1 .. c /\ a[i] # b[i] /\ \A k \in 1 .. c : k < i => a[k] = b[k]
  BY <1>1, <1>5
<1>7. PICK j \in 1 .. c : b[j] = a[i]
  BY <1>2, <1>3, <1>6
<1>8. PICK k \in 1 .. c : a[k] = b[i]
  BY <1>1, <1>3, <1>6
<1>9. i < j
  <2>1. j # i /\ ~(j < i)
    BY <1>1, <1>6, <1>7
  <2> QED  BY <2>1, <1>1, <1>6
<1>10. i < k
  <2>1. k # i /\ ~(k < i)
    BY <1>2, <1>6, <1>8
  <2> QED  BY <2>1, <1>1, <1>6
<1>11. p[b[i]] < p[b[j]] /\ p[a[i]] < p[a[k]]
  BY <1>3, <1>6, <1>9, <1>10
<1>12. p[a[i]] \in Nat /\ p[b[i]] \in Nat
  BY <1>3, <1>6 DEF Positioned
<1> QED  BY <1>7, <1>8, <1>11, <1>12

\* The list ByPosition chooses, for any positions.
ListedBy(p, S) ==
    CHOOSE list \in [1 .. Cardinality(S) -> S] :
        \A i, j \in DOMAIN list : i < j => p[list[i]] < p[list[j]]

\* It sorts the files.
LEMMA ListedSorts ==
    ASSUME NEW S, IsFiniteSet(S), NEW p, Positioned(p, S)
    PROVE  Sorts(ListedBy(p, S), S, p)
<1> DEFINE F == [1 .. Cardinality(S) -> S]
<1>1. PICK list : Sorts(list, S, p)
  BY SortedExists
<1>2. list \in F /\ \A i, j \in DOMAIN list : i < j => p[list[i]] < p[list[j]]
  BY <1>1 DEF Sorts
<1>3. /\ ListedBy(p, S) \in F
      /\ \A i, j \in DOMAIN ListedBy(p, S) :
            i < j => p[ListedBy(p, S)[i]] < p[ListedBy(p, S)[j]]
  BY <1>2, Zenon DEF ListedBy
<1> QED  BY <1>3 DEF Sorts

\* The next position is behind every one that is taken.
LEMMA NextIsFree ==
    ASSUME IsFiniteSet(InCrate), Positioned(items, InCrate)
    PROVE  NextPosition \in Nat /\ \A f \in InCrate : items[f] < NextPosition
<1> DEFINE c == Cardinality(InCrate)
           list == ListedBy(items, InCrate)
<1>1. CASE InCrate = {}
  BY <1>1 DEF NextPosition
<1>2. CASE InCrate # {}
  <2>1. Sorts(list, InCrate, items)
    BY ListedSorts
  <2>2. /\ c \in Nat
        /\ \A x \in InCrate : \E i \in 1 .. c : list[i] = x
    BY <2>1, SortedNamesAll
  <2>3. list \in [1 .. c -> InCrate] /\ \A i, j \in 1 .. c : i < j => items[list[i]] < items[list[j]]
    BY <2>1 DEF Sorts
  <2> HIDE DEF list
  <2>4. c \in 1 .. c
    BY <1>2, <2>2
  <2> HIDE DEF c
  <2> DEFINE top == items[list[c]]
  <2>5. top \in Range(items) /\ top \in Nat
    BY <2>3, <2>4 DEF Range, InCrate, Positioned
  <2>6. \A f \in InCrate : items[f] \in Nat /\ items[f] <= top
    <3> SUFFICES ASSUME NEW f \in InCrate PROVE items[f] \in Nat /\ items[f] <= top
      OBVIOUS
    <3>1. PICK i \in 1 .. c : list[i] = f
      BY <2>2
    <3>2. i = c \/ i < c
      BY <2>2
    <3>3. items[f] \in Nat
      BY DEF Positioned
    <3> QED  BY <3>1, <3>2, <3>3, <2>3, <2>4, <2>5
  <2>7. \A q \in Range(items) : q \in Nat /\ q <= top
    BY <2>6 DEF Range, InCrate
  <2> HIDE DEF top
  <2> DEFINE last == CHOOSE p \in Range(items) : \A q \in Range(items) : q <= p
  <2>8. last \in Range(items) /\ \A q \in Range(items) : q <= last
    BY <2>5, <2>7, Zenon
  <2>9. NextPosition = 1 + last
    BY <1>2 DEF NextPosition
  <2> HIDE DEF last
  <2>10. \A f \in InCrate : items[f] \in Range(items)
    BY DEF Range, InCrate
  <2> QED  BY <2>6, <2>7, <2>8, <2>9, <2>10
<1> QED  BY <1>1, <1>2

\* After a reorder, what it names comes first, in its order, and the rest
\* behind it, as it stood.
LEMMA RenumberedFacts ==
    ASSUME IsFiniteSet(InCrate), Positioned(items, InCrate),
           NEW order \in Seq(Tunes), IsInjective(order)
    PROVE  /\ DOMAIN Renumbered(order) = InCrate
           /\ \A i \in DOMAIN order : order[i] \in InCrate => Renumbered(order)[order[i]] = i
           /\ \A f \in InCrate \ ToSet(order) :
                 /\ Renumbered(order)[f] \in Nat /\ Renumbered(order)[f] > Len(order)
                 /\ \A g \in InCrate \ ToSet(order) :
                       items[f] < items[g] => Renumbered(order)[f] < Renumbered(order)[g]
<1> DEFINE S == InCrate \ ToSet(order)
           rest == ListedBy(items, S)
           c == Cardinality(S)
           at(f) == CHOOSE i \in DOMAIN rest : rest[i] = f
           new == Renumbered(order)
<1>1. IsFiniteSet(S) /\ Positioned(items, S)
  <2>1. S \in SUBSET InCrate
    OBVIOUS
  <2> QED  BY <2>1, FS_Subset DEF Positioned
<1>2. Sorts(rest, S, items)
  BY <1>1, ListedSorts
<1> HIDE DEF S
<1>3. /\ c \in Nat
      /\ \A i, j \in 1 .. c : items[rest[i]] < items[rest[j]] => i < j
      /\ \A x \in S : \E i \in 1 .. c : rest[i] = x
  <2> HIDE DEF rest
  <2> QED  BY <1>1, <1>2, SortedNamesAll
<1>4. DOMAIN rest = 1 .. c
  BY <1>2 DEF Sorts
<1>5. \A f \in S : at(f) \in 1 .. c /\ rest[at(f)] = f
  <2> HIDE DEF rest
  <2>1. \A f \in S : \E i \in DOMAIN rest : rest[i] = f
    BY <1>3, <1>4
  <2>2. \A f \in S : at(f) \in DOMAIN rest /\ rest[at(f)] = f
    BY <2>1, Zenon
  <2> QED  BY <2>2, <1>4
<1>6. /\ DOMAIN new = InCrate
      /\ \A f \in InCrate : f \in ToSet(order) => new[f] = CHOOSE i \in DOMAIN order : order[i] = f
      /\ \A f \in InCrate : f \notin ToSet(order) => new[f] = Len(order) + at(f)
  BY Zenon DEF Renumbered, ByPosition, ListedBy, S
<1> HIDE DEF at, rest, new, c
<1>7. \A i \in DOMAIN order : order[i] \in InCrate => new[order[i]] = i
  <2> SUFFICES ASSUME NEW i \in DOMAIN order, order[i] \in InCrate
               PROVE  new[order[i]] = i
    OBVIOUS
  <2> DEFINE k == CHOOSE k \in DOMAIN order : order[k] = order[i]
  <2>1. k \in DOMAIN order /\ order[k] = order[i]
    OBVIOUS
  <2>2. k = i
    BY <2>1 DEF IsInjective
  <2>3. new[order[i]] = k
    BY <1>6 DEF ToSet
  <2> QED  BY <2>2, <2>3
<1>8. ASSUME NEW f \in S
      PROVE  /\ new[f] \in Nat /\ new[f] > Len(order)
             /\ \A g \in S : items[f] < items[g] => new[f] < new[g]
  <2>1. \A g \in S : new[g] = Len(order) + at(g) /\ at(g) \in 1 .. c /\ Len(order) \in Nat
    BY <1>5, <1>6 DEF S
  <2>2. \A g \in S : items[f] < items[g] => at(f) < at(g)
    BY <1>3, <1>5
  <2> QED  BY <2>1, <2>2, <1>3
<1> QED  BY <1>6, <1>7, <1>8 DEF S, new

CrateCalls == [op : {"add", "reorder", "delete"}, id : Nat, file : Tunes \cup {NoTune},
               at : Nat, order : Seq(Tunes), step : {"read", "asked", "moved"},
               page : BOOLEAN, alone : BOOLEAN]

CrateShape ==
    /\ InCrate \in SUBSET Tunes /\ items \in [InCrate -> Nat] /\ Positioned(items, InCrate)
    /\ shown \in SUBSET Tunes /\ kept \in BOOLEAN /\ (~kept => items = <<>>)
    /\ made \in Nat /\ page \in Seq(Tunes)

CallsTyped ==
    calls \in SUBSET CrateCalls /\ \A c \in calls : c.op = "add" => c.file \in Tunes

\* The page has sent no order after this one and is told of it.
Newest(c) == \A d \in calls : d.page => d.id <= c.id

\* What a call in flight knows, and what of it is still true: an add that is
\* alone holds the next position; a reorder that has locked its rows names
\* items of the crate, each once, and all the visible ones if it is alone; the
\* page shows the last order it asked for, if that is alone.
CallsKnow ==
    \A c \in calls :
        /\ c.op = "add" <=> c.step = "read"
        /\ c.step = "moved" \/ c.page => c.op = "reorder"
        /\ c.id < made
        /\ c.page /\ c.alone /\ Newest(c) => page = c.order
        /\ c.step = "read" /\ c.alone => c.at = NextPosition
        /\ c.step = "moved" =>
              /\ kept /\ IsInjective(c.order) /\ ToSet(c.order) \subseteq InCrate
              /\ c.alone => ToSet(c.order) = InCrate \cap shown

\* Ids differ; and of two orders the page has sent, the later has seen no commit
\* but of those sent before it, if the earlier has not.
CallsApart ==
    \A c, d \in calls :
        /\ c.id = d.id => c = d
        /\ c.page /\ d.page /\ c.id < d.id /\ c.alone => d.alone

CratesInv == CrateShape /\ CallsTyped /\ CallsKnow /\ CallsApart /\ SaidInCrate

\* A call that is no longer alone, or still is, is otherwise the same.
LEMMA CallMarked ==
    ASSUME NEW c \in CrateCalls, NEW b \in BOOLEAN
    PROVE  LET e == [c EXCEPT !.alone = b]
           IN  /\ e \in CrateCalls
               /\ e.op = c.op /\ e.id = c.id /\ e.file = c.file
               /\ e.at = c.at /\ e.order = c.order /\ e.step = c.step
               /\ e.page = c.page /\ e.alone = b
               /\ c.id \in Nat
BY DEF CrateCalls

\* Another call commits: of the calls that are left, only orders that the page
\* has sent after it are still alone.
LEMMA CallsDemoted ==
    ASSUME CratesInv, NEW X \in SUBSET calls, NEW still \in [X -> BOOLEAN],
           calls' = {[c EXCEPT !.alone = still[c]] : c \in X},
           made' \in Nat, made' >= made,
           \A c \in X : still[c] => c.page /\ c.step = "asked",
           \A c, d \in X : c.page /\ d.page /\ c.id < d.id /\ still[c] => still[d],
           \A c \in X : still[c] /\ (\A d \in X : d.page => d.id <= c.id) => page' = c.order,
           \A c \in X : c.step = "moved" => kept' /\ ToSet(c.order) \subseteq InCrate'
    PROVE  /\ CallsTyped' /\ CallsKnow' /\ CallsApart'
           /\ \A c \in X : \E d \in calls' : d.id = c.id
<1> USE DEF CratesInv
<1> DEFINE Demoted(c) == [c EXCEPT !.alone = still[c]]
<1>1. \A c \in X :
         /\ Demoted(c) \in CrateCalls
         /\ Demoted(c).op = c.op /\ Demoted(c).id = c.id /\ Demoted(c).file = c.file
         /\ Demoted(c).at = c.at /\ Demoted(c).order = c.order /\ Demoted(c).step = c.step
         /\ Demoted(c).page = c.page /\ Demoted(c).alone = still[c]
         /\ c.id \in Nat /\ c \in calls
  <2> TAKE c \in X
  <2>1. c \in calls /\ c \in CrateCalls /\ still[c] \in BOOLEAN
    BY DEF CallsTyped
  <2> QED  BY ONLY <2>1, CallMarked DEF Demoted
<1>2. calls' = {Demoted(c) : c \in X}
  OBVIOUS
<1> HIDE DEF Demoted
<1>3. made \in Nat
  BY DEF CrateShape
<1>4. CallsTyped'
  BY <1>1, <1>2 DEF CallsTyped
<1>5. CallsKnow'
  <2> SUFFICES ASSUME NEW e \in calls'
               PROVE  /\ e.op = "add" <=> e.step = "read"
                      /\ e.step = "moved" \/ e.page => e.op = "reorder"
                      /\ e.id < made'
                      /\ e.page /\ e.alone /\ (\A d \in calls' : d.page => d.id <= e.id)
                             => page' = e.order
                      /\ e.alone => e.step = "asked"
                      /\ e.step = "moved" =>
                            kept' /\ IsInjective(e.order) /\ ToSet(e.order) \subseteq InCrate'
    <3>1. "asked" # "read" /\ "asked" # "moved"
      OBVIOUS
    <3> QED  BY <3>1 DEF CallsKnow, Newest
  <2>0. PICK c \in X : e = Demoted(c)
    BY <1>2
  <2>1. /\ c.op = "add" <=> c.step = "read"
        /\ c.step = "moved" \/ c.page => c.op = "reorder"
        /\ c.id < made /\ c.id \in Nat
        /\ c.step = "moved" => IsInjective(c.order)
    BY <1>1 DEF CallsKnow
  <2>2. e.id < made'
    BY <1>1, <1>3, <2>0, <2>1
  <2>3. ASSUME e.alone, \A d \in calls' : d.page => d.id <= e.id
        PROVE  page' = e.order
    <3>1. \A d \in X : d.page => d.id <= c.id
      BY <1>1, <1>2, <2>0, <2>3
    <3> QED  BY <1>1, <2>0, <2>3, <3>1
  <2> QED  BY <2>0, <2>1, <2>2, <2>3, <1>1
<1>6. CallsApart'
  <2> SUFFICES ASSUME NEW c \in X, NEW d \in X
               PROVE  /\ Demoted(c).id = Demoted(d).id => Demoted(c) = Demoted(d)
                      /\ Demoted(c).page /\ Demoted(d).page /\ Demoted(c).id < Demoted(d).id
                             /\ Demoted(c).alone => Demoted(d).alone
    BY <1>2 DEF CallsApart
  <2>1. c.id = d.id => c = d
    BY <1>1 DEF CallsApart
  <2> QED  BY <2>1, <1>1
<1>7. \A c \in X : \E d \in calls' : d.id = c.id
  BY <1>1, <1>2
<1> QED  BY <1>4, <1>5, <1>6, <1>7

\* Another call commits, and none of the page: no call that is left is alone.
LEMMA NoneAlone ==
    ASSUME CratesInv, NEW X \in SUBSET calls, calls' = {[c EXCEPT !.alone = FALSE] : c \in X},
           made' \in Nat, made' >= made,
           \A c \in X : c.step = "moved" => kept' /\ ToSet(c.order) \subseteq InCrate'
    PROVE  /\ CallsTyped' /\ CallsKnow' /\ CallsApart'
           /\ \A c \in X : \E d \in calls' : d.id = c.id
<1> DEFINE still == [c \in X |-> FALSE]
<1>1. still \in [X -> BOOLEAN] /\ \A c \in X : still[c] = FALSE
  OBVIOUS
<1>2. calls' = {[c EXCEPT !.alone = still[c]] : c \in X}
  BY <1>1
<1> HIDE DEF still
<1> QED  BY <1>1, <1>2, CallsDemoted

\* What a commit of a call that is not the page's leaves of the others.
LEMMA CommittedAlone ==
    ASSUME NEW call, ~call.page, Committed(call)
    PROVE  calls' = {[c EXCEPT !.alone = FALSE] : c \in calls \ {call}}
<1>1. \A c : (c.alone /\ Behind(c, call)) = FALSE
  BY DEF Behind
<1> QED  BY <1>1 DEF Committed

\* A call ends that the page does not wait for, and nothing is committed.
LEMMA CallsFewer ==
    ASSUME CratesInv, NEW call \in calls, ~call.page \/ ~call.alone,
           calls' = calls \ {call}, UNCHANGED <<items, shown, kept, made, page>>
    PROVE  /\ CallsTyped' /\ CallsKnow' /\ CallsApart'
           /\ \A c \in calls : c # call => \E d \in calls' : d.id = c.id
<1> USE DEF CratesInv
<1>1. NextPosition' = NextPosition /\ InCrate' = InCrate
  BY DEF NextPosition, InCrate
<1>2. CallsTyped' /\ CallsApart'
  BY DEF CallsTyped, CallsApart
<1>3. CallsKnow'
  <2> SUFFICES ASSUME NEW c \in calls, c # call,
                      c.page, c.alone, \A d \in calls' : d.page => d.id <= c.id
               PROVE  page = c.order
    BY <1>1 DEF CallsKnow, Newest
  <2>1. c.id \in Nat /\ call.id \in Nat
    BY DEF CallsTyped, CrateCalls
  <2>2. call.page => call.id < c.id
    BY <2>1 DEF CallsApart
  <2>3. Newest(c)
    BY <2>1, <2>2 DEF Newest
  <2> QED  BY <2>3 DEF CallsKnow
<1> QED  BY <1>2, <1>3

\* The page loads, and waits for none of the calls that are left.
LEMMA CallsForgotten ==
    ASSUME CratesInv, NEW X \in SUBSET calls, calls' = Forgotten(X),
           UNCHANGED <<items, shown, kept, made>>
    PROVE  /\ CallsTyped' /\ CallsKnow' /\ CallsApart'
           /\ \A c \in X : \E d \in calls' : d.id = c.id
           /\ \A c \in calls' : ~c.page
<1> USE DEF CratesInv
<1> DEFINE Left(c) == [c EXCEPT !.page = FALSE]
<1>1. \A c \in X :
         /\ Left(c) \in CrateCalls
         /\ Left(c).op = c.op /\ Left(c).id = c.id /\ Left(c).file = c.file
         /\ Left(c).at = c.at /\ Left(c).order = c.order /\ Left(c).step = c.step
         /\ ~Left(c).page /\ Left(c).alone = c.alone
         /\ c \in calls
  BY DEF CallsTyped, CrateCalls
<1>2. calls' = {Left(c) : c \in X}
  BY DEF Forgotten
<1> HIDE DEF Left
<1>3. NextPosition' = NextPosition /\ InCrate' = InCrate
  BY DEF NextPosition, InCrate
<1>4. CallsTyped'
  BY <1>1, <1>2 DEF CallsTyped
<1>5. CallsKnow'
  BY <1>1, <1>2, <1>3 DEF CallsKnow
<1>6. CallsApart'
  BY <1>1, <1>2 DEF CallsApart
<1> QED  BY <1>1, <1>2, <1>4, <1>5, <1>6

\* A call begins.
LEMMA CallsMore ==
    ASSUME CratesInv, NEW new \in CrateCalls, Begin(new), UNCHANGED <<items, shown, kept>>,
           new.id = made, new.step # "moved", new.op = "add" <=> new.step = "read",
           new.op = "add" => new.file \in Tunes, new.step = "read" => new.at = NextPosition,
           IF new.page THEN new.op = "reorder" /\ new.alone /\ page' = new.order
           ELSE page' = page
    PROVE  CallsTyped' /\ CallsKnow' /\ CallsApart' /\ made' \in Nat
           /\ \A c \in calls : \E d \in calls' : d.id = c.id
<1> USE DEF CratesInv
<1>1. calls' = calls \cup {new} /\ made' = made + 1 /\ made \in Nat
  BY DEF Begin, CrateShape
<1>2. NextPosition' = NextPosition /\ InCrate' = InCrate
  BY DEF NextPosition, InCrate
<1>3. CallsTyped'
  BY <1>1 DEF CallsTyped
<1>4. \A c \in calls : c.id < made /\ c.id \in Nat
  BY DEF CallsKnow, CallsTyped, CrateCalls
<1>5. CallsKnow'
  <2>1. ASSUME NEW c \in calls
        PROVE  /\ c.op = "add" <=> c.step = "read"
               /\ c.step = "moved" \/ c.page => c.op = "reorder"
               /\ c.id < made'
               /\ c.page /\ c.alone /\ (\A d \in calls' : d.page => d.id <= c.id)
                      => page' = c.order
               /\ c.step = "read" /\ c.alone => c.at = NextPosition'
               /\ c.step = "moved" =>
                     /\ kept' /\ IsInjective(c.order) /\ ToSet(c.order) \subseteq InCrate'
                     /\ c.alone => ToSet(c.order) = InCrate' \cap shown'
    <3>1. c.id < made'
      BY <1>1, <1>4
    <3>2. ASSUME c.page, c.alone, \A d \in calls' : d.page => d.id <= c.id
          PROVE  page' = c.order
      <4>1. ~new.page
        BY <1>1, <1>4, <3>2
      <4>2. Newest(c)
        BY <1>1, <3>2 DEF Newest
      <4> QED  BY <4>1, <4>2, <3>2 DEF CallsKnow
    <3> QED  BY <3>1, <3>2, <1>2 DEF CallsKnow
  <2>2. /\ new.op = "add" <=> new.step = "read"
        /\ new.page => new.op = "reorder" /\ page' = new.order
        /\ new.id < made'
        /\ new.step = "read" => new.at = NextPosition'
        /\ new.step # "moved"
    BY <1>1, <1>2
  <2> QED  BY <2>1, <2>2, <1>1 DEF CallsKnow, Newest
<1>6. CallsApart'
  <2>1. \A c \in calls : c.id # new.id /\ ~(new.id < c.id)
    BY <1>1, <1>4
  <2>2. new.page => new.alone
    OBVIOUS
  <2> QED  BY <2>1, <2>2, <1>1 DEF CallsApart
<1> QED  BY <1>1, <1>3, <1>5, <1>6

\* crate_get lists the visible items, by position.
LEMMA CrateGets ==
    ASSUME CrateShape
    PROVE  /\ IsFiniteSet(InCrate) /\ IsFiniteSet(InCrate \cap shown)
           /\ Positioned(items, InCrate \cap shown)
           /\ Sorts(CrateGet, InCrate \cap shown, items)
           /\ CrateGet \in Seq(Tunes)
<1> DEFINE S == InCrate \cap shown
<1>1. IsFiniteSet(InCrate) /\ IsFiniteSet(S) /\ S \in SUBSET Tunes
  <2>1. InCrate \in SUBSET Tunes /\ S \in SUBSET Tunes
    BY DEF CrateShape
  <2> HIDE DEF S
  <2> QED  BY <2>1, CratesAssumption, FS_Subset
<1>2. Positioned(items, S)
  BY DEF CrateShape, Positioned
<1> HIDE DEF S
<1>3. Sorts(ListedBy(items, S), S, items)
  BY <1>1, <1>2, ListedSorts
<1>4. CrateGet = ListedBy(items, S)
  BY Zenon DEF CrateGet, ByPosition, ListedBy, S
<1>5. Cardinality(S) \in Nat
  BY <1>1, FS_CardinalityType
<1>6. \A list \in [1 .. Cardinality(S) -> S] : list \in Seq(Tunes)
  BY <1>1, <1>5
<1>7. CrateGet \in Seq(Tunes)
  BY <1>3, <1>4, <1>6 DEF Sorts
<1> QED  BY <1>1, <1>2, <1>3, <1>4, <1>7 DEF S

\* Calls begin: an add that has read its position, a reorder from /move or from
\* the page.
LEMMA AddReadsStep ==
    ASSUME CratesInv, NEW f \in Tunes, AddReads(f)
    PROVE  CratesInv' /\ \A c \in calls : \E d \in calls' : d.id = c.id
<1> USE DEF CratesInv
<1> DEFINE new == [op |-> "add", id |-> made, file |-> f, at |-> NextPosition, order |-> <<>>,
                   step |-> "read", page |-> FALSE, alone |-> TRUE]
<1>1. Begin(new) /\ UNCHANGED <<items, shown, kept, page, said>>
  BY DEF AddReads
<1>2. NextPosition \in Nat
  BY CrateGets, NextIsFree DEF CrateShape
<1>3. new \in CrateCalls
  BY <1>2 DEF CrateCalls, CrateShape
<1>4. /\ new.id = made /\ new.step = "read" /\ new.op = "add" /\ new.at = NextPosition
      /\ new.file \in Tunes
      /\ ~new.page
  OBVIOUS
<1> HIDE DEF new
<1>5. /\ new.step # "moved" /\ (new.op = "add" <=> new.step = "read")
      /\ new.op = "add" => new.file \in Tunes
      /\ new.step = "read" => new.at = NextPosition
      /\ IF new.page THEN new.op = "reorder" /\ new.alone /\ page' = new.order
         ELSE page' = page
  BY <1>1, <1>4
<1>6. CallsTyped' /\ CallsKnow' /\ CallsApart' /\ made' \in Nat
      /\ \A c \in calls : \E d \in calls' : d.id = c.id
  BY <1>1, <1>3, <1>4, <1>5, CallsMore
<1>7. CrateShape'
  BY <1>1, <1>6 DEF CrateShape, InCrate, Positioned
<1>8. SaidInCrate'
  BY <1>1 DEF SaidInCrate
<1> QED  BY <1>6, <1>7, <1>8

\* A reorder is asked for.
LEMMA ReorderBegins ==
    ASSUME CratesInv, NEW order \in Seq(Tunes), NEW fromPage \in BOOLEAN,
           Reorder(order, fromPage), UNCHANGED <<items, shown, kept, said>>,
           page' = IF fromPage THEN order ELSE page
    PROVE  CratesInv' /\ \A c \in calls : \E d \in calls' : d.id = c.id
<1> USE DEF CratesInv
<1> DEFINE new == [op |-> "reorder", id |-> made, file |-> NoTune, at |-> 0, order |-> order,
                   step |-> "asked", page |-> fromPage, alone |-> TRUE]
<1>1. Begin(new)
  BY DEF Reorder
<1>2. new \in CrateCalls
  BY DEF CrateCalls, CrateShape
<1>3. /\ new.id = made /\ new.step = "asked" /\ new.op = "reorder" /\ new.order = order
      /\ (new.page <=> fromPage) /\ new.alone
  OBVIOUS
<1> HIDE DEF new
<1>4. /\ new.step # "moved" /\ (new.op = "add" <=> new.step = "read")
      /\ new.op = "add" => new.file \in Tunes
      /\ new.step = "read" => new.at = NextPosition
      /\ IF new.page THEN new.op = "reorder" /\ new.alone /\ page' = new.order
         ELSE page' = page
  BY <1>3
<1>5. CallsTyped' /\ CallsKnow' /\ CallsApart' /\ made' \in Nat
      /\ \A c \in calls : \E d \in calls' : d.id = c.id
  BY <1>1, <1>2, <1>3, <1>4, CallsMore
<1>6. page' \in Seq(Tunes)
  BY DEF CrateShape
<1>7. CrateShape'
  BY <1>5, <1>6 DEF CrateShape, InCrate, Positioned
<1>8. SaidInCrate'
  BY DEF SaidInCrate
<1> QED  BY <1>5, <1>7, <1>8

\* By a move of one row up or down.
LEMMA MoveStep ==
    ASSUME CratesInv, NEW f \in Tunes, NEW down \in BOOLEAN, Move(f, down)
    PROVE  CratesInv' /\ \A c \in calls : \E d \in calls' : d.id = c.id
<1>1. PICK i, j \in DOMAIN CrateGet : Reorder(Swapped(CrateGet, i, j), FALSE)
  BY DEF Move
<1>2. UNCHANGED <<items, shown, kept, page, said>>
  BY DEF Move
<1>3. CrateGet \in Seq(Tunes)
  BY CrateGets DEF CratesInv
<1>4. Swapped(CrateGet, i, j) \in Seq(Tunes)
  <2> DEFINE s == CrateGet
  <2>1. DOMAIN s = 1 .. Len(s) /\ Len(s) \in Nat /\ \A k \in DOMAIN s : s[k] \in Tunes
    BY <1>3
  <2> HIDE DEF s
  <2>2. \A k \in DOMAIN s : (IF k = i THEN s[j] ELSE IF k = j THEN s[i] ELSE s[k]) \in Tunes
    BY <1>1, <2>1 DEF s
  <2>3. [k \in DOMAIN s |-> IF k = i THEN s[j] ELSE IF k = j THEN s[i] ELSE s[k]] \in Seq(Tunes)
    BY <2>1, <2>2
  <2> QED  BY <2>3 DEF Swapped, s
<1> QED  BY <1>1, <1>2, <1>4, ReorderBegins

\* By a drag on the page.
LEMMA DragStep ==
    ASSUME CratesInv, NEW from, NEW to, Drag(from, to)
    PROVE  CratesInv' /\ \A c \in calls : \E d \in calls' : d.id = c.id
<1>1. /\ from \in DOMAIN page /\ to \in DOMAIN page
      /\ page' = InsertAt(RemoveAt(page, from), to, page[from])
      /\ Reorder(page', TRUE)
      /\ UNCHANGED <<items, shown, kept, said>>
  BY DEF Drag
<1>2. page \in Seq(Tunes) /\ Len(page) \in Nat
  BY DEF CratesInv, CrateShape
<1>3. from \in 1 .. Len(page) /\ to \in 1 .. Len(page) /\ page[from] \in Tunes
  BY <1>1, <1>2
<1>4. RemoveAt(page, from) \in Seq(Tunes) /\ Len(RemoveAt(page, from)) = Len(page) - 1
  BY <1>2, <1>3, RemoveAtFacts
<1>5. to \in 1 .. Len(RemoveAt(page, from)) + 1
  BY <1>2, <1>3, <1>4
<1>6. page' \in Seq(Tunes)
  BY <1>1, <1>3, <1>4, <1>5, InsertAtFacts
<1> DEFINE order == page'
<1> HIDE DEF order
<1> QED  BY <1>1, <1>6, ReorderBegins

\* An add lands, or is refused with 23505, or finds the crate gone.
LEMMA AddLandsStep ==
    ASSUME CratesInv, NEW call \in calls, AddLands(call)
    PROVE  CratesInv' /\ \A c \in calls : c # call => \E d \in calls' : d.id = c.id
<1> USE DEF CratesInv
<1> DEFINE isIn == call.file \in InCrate
           taken == isIn \/ call.at \in Range(items)
<1>1. /\ call.op = "add"
      /\ said' = [file |-> call.file, alone |-> call.alone, held |-> isIn,
                  answer |-> IF ~kept THEN "gone" ELSE IF taken THEN "already" ELSE "added"]
      /\ UNCHANGED <<shown, kept, made, page>>
  BY DEF AddLands
<1>2. call \in CrateCalls /\ call.step = "read" /\ ~call.page
  BY <1>1 DEF CallsTyped, CallsKnow
<1>3. call.alone => call.at \notin Range(items)
  <2>1. call.alone => call.at = NextPosition
    BY <1>2 DEF CallsKnow
  <2>2. NextPosition \in Nat /\ \A f \in InCrate : items[f] < NextPosition /\ items[f] \in Nat
    BY CrateGets, NextIsFree DEF CrateShape, Positioned
  <2> QED  BY <2>1, <2>2 DEF Range, InCrate
<1>4. SaidInCrate'
  <2>1. said'.answer = "already" => taken
    BY <1>1
  <2>2. said'.alone = call.alone /\ said'.held = isIn
    BY <1>1
  <2>3. isIn \in BOOLEAN
    OBVIOUS
  <2>4. taken /\ call.alone => isIn
    BY <1>3
  <2> HIDE DEF isIn, taken
  <2> QED  BY <2>1, <2>2, <2>3, <2>4 DEF SaidInCrate
<1>5. CASE kept /\ ~taken
  <2>1. /\ items' = [f \in InCrate \cup {call.file} |-> IF f = call.file THEN call.at ELSE items[f]]
        /\ calls' = {[c EXCEPT !.alone = FALSE] : c \in calls \ {call}}
    BY <1>2, <1>5, CommittedAlone DEF AddLands
  <2>2. /\ call.file \notin InCrate /\ call.at \in Nat
        /\ \A f \in InCrate : items[f] \in Nat /\ items[f] # call.at
    BY <1>2, <1>5 DEF CrateCalls, Range, InCrate, CrateShape, Positioned
  <2>3. call.file \in Tunes
    BY <1>1 DEF CallsTyped
  <2>4. /\ InCrate' = InCrate \cup {call.file} /\ items'[call.file] = call.at
        /\ \A f \in InCrate : items'[f] = items[f]
    BY <2>1, <2>2 DEF InCrate
  <2>5. items' \in [InCrate' -> Nat]
    BY <2>1, <2>2, <2>4
  <2>6. Positioned(items', InCrate')
    BY <2>2, <2>4 DEF CrateShape, Positioned
  <2>7. CrateShape'
    BY <1>1, <1>5, <2>3, <2>4, <2>5, <2>6 DEF CrateShape
  <2> DEFINE X == calls \ {call}
  <2>8. X \in SUBSET calls /\ calls' = {[c EXCEPT !.alone = FALSE] : c \in X}
    BY <2>1
  <2>9. /\ made' \in Nat /\ made' >= made
        /\ \A c \in X : c.step = "moved" => kept' /\ ToSet(c.order) \subseteq InCrate'
    BY <1>1, <1>5, <2>4 DEF CrateShape, CallsKnow
  <2>10. \A c \in calls : c # call => c \in X
    OBVIOUS
  <2> HIDE DEF X
  <2>11. /\ CallsTyped' /\ CallsKnow' /\ CallsApart'
         /\ \A c \in X : \E d \in calls' : d.id = c.id
    BY <2>8, <2>9, NoneAlone
  <2> QED  BY <2>7, <2>10, <2>11, <1>4
<1>6. CASE ~(kept /\ ~taken)
  <2>1. calls' = calls \ {call} /\ items' = items
    BY <1>6 DEF AddLands
  <2>2. /\ CallsTyped' /\ CallsKnow' /\ CallsApart'
        /\ \A c \in calls : c # call => \E d \in calls' : d.id = c.id
    BY <2>1, <1>1, <1>2, CallsFewer
  <2>3. CrateShape'
    BY <2>1, <1>1 DEF CrateShape, InCrate, Positioned
  <2> QED  BY <2>2, <2>3, <1>4
<1> QED  BY <1>5, <1>6

\* A file is removed, behind the locks of a reorder that names it.
LEMMA RemoveFromStep ==
    ASSUME CratesInv, NEW f \in Tunes, RemoveFrom(f)
    PROVE  CratesInv' /\ \A c \in calls : \E d \in calls' : d.id = c.id
<1> USE DEF CratesInv
<1>1. /\ kept /\ ~Locked(f) /\ made' = made + 1
      /\ items' = [g \in InCrate \ {f} |-> items[g]]
      /\ calls' = {[c EXCEPT !.alone = FALSE] : c \in calls}
      /\ UNCHANGED <<shown, kept, page, said>>
  BY DEF RemoveFrom
<1>2. InCrate' = InCrate \ {f} /\ \A g \in InCrate' : items'[g] = items[g]
  BY <1>1 DEF InCrate
<1>3. items' \in [InCrate' -> Nat] /\ Positioned(items', InCrate')
  BY <1>1, <1>2 DEF CrateShape, Positioned
<1>4. CrateShape'
  BY <1>1, <1>2, <1>3 DEF CrateShape
<1>5. /\ made' \in Nat /\ made' >= made
      /\ \A c \in calls : c.step = "moved" => kept' /\ ToSet(c.order) \subseteq InCrate'
  BY <1>1, <1>2 DEF CrateShape, CallsKnow, Locked
<1>6. /\ CallsTyped' /\ CallsKnow' /\ CallsApart'
      /\ \A c \in calls : \E d \in calls' : d.id = c.id
  BY <1>1, <1>5, NoneAlone
<1>7. SaidInCrate'
  BY <1>1 DEF SaidInCrate
<1> QED  BY <1>4, <1>6, <1>7

\* A deletion is asked for.
LEMMA DeleteBeginsStep ==
    ASSUME CratesInv, DeleteBegins
    PROVE  CratesInv' /\ \A c \in calls : \E d \in calls' : d.id = c.id
<1> USE DEF CratesInv
<1> DEFINE new == [op |-> "delete", id |-> made, file |-> NoTune, at |-> 0, order |-> <<>>,
                   step |-> "asked", page |-> FALSE, alone |-> TRUE]
<1>1. Begin(new) /\ UNCHANGED <<items, shown, kept, page, said>>
  BY DEF DeleteBegins
<1>2. new \in CrateCalls
  BY DEF CrateCalls, CrateShape
<1>3. new.id = made /\ new.step = "asked" /\ new.op = "delete" /\ ~new.page
  OBVIOUS
<1> HIDE DEF new
<1>4. /\ new.step # "moved" /\ (new.op = "add" <=> new.step = "read")
      /\ new.op = "add" => new.file \in Tunes
      /\ new.step = "read" => new.at = NextPosition
      /\ IF new.page THEN new.op = "reorder" /\ new.alone /\ page' = new.order
         ELSE page' = page
  BY <1>1, <1>3
<1>5. CallsTyped' /\ CallsKnow' /\ CallsApart' /\ made' \in Nat
      /\ \A c \in calls : \E d \in calls' : d.id = c.id
  BY <1>1, <1>2, <1>3, <1>4, CallsMore
<1>6. CrateShape'
  BY <1>1, <1>5 DEF CrateShape, InCrate, Positioned
<1>7. SaidInCrate'
  BY <1>1 DEF SaidInCrate
<1> QED  BY <1>5, <1>6, <1>7

\* The crate is deleted, when no reorder holds its rows.
LEMMA DeleteLandsStep ==
    ASSUME CratesInv, NEW call \in calls, DeleteLands(call)
    PROVE  CratesInv' /\ \A c \in calls : c # call => \E d \in calls' : d.id = c.id
<1> USE DEF CratesInv
<1> DEFINE X == calls \ {call}
<1>1. /\ call.op = "delete" /\ \A c \in calls : c.step # "moved"
      /\ kept' = FALSE /\ items' = <<>>
      /\ UNCHANGED <<shown, made, page, said>>
  BY DEF DeleteLands
<1>2. ~call.page
  BY <1>1 DEF CallsKnow
<1>3. SaidInCrate'
  BY <1>1 DEF SaidInCrate
<1>4. InCrate' = {} /\ items' \in [InCrate' -> Nat] /\ Positioned(items', InCrate')
  BY <1>1 DEF InCrate, Positioned
<1>5. CrateShape'
  BY <1>1, <1>4 DEF CrateShape
<1>6. CASE kept
  <2>1. calls' = {[c EXCEPT !.alone = FALSE] : c \in X}
    BY <1>2, <1>6, CommittedAlone DEF DeleteLands
  <2>2. /\ X \in SUBSET calls /\ made' \in Nat /\ made' >= made
        /\ \A c \in X : c.step = "moved" => kept' /\ ToSet(c.order) \subseteq InCrate'
        /\ \A c \in calls : c # call => c \in X
    BY <1>1 DEF CrateShape
  <2> HIDE DEF X
  <2>3. /\ CallsTyped' /\ CallsKnow' /\ CallsApart'
        /\ \A c \in X : \E d \in calls' : d.id = c.id
    BY <2>1, <2>2, NoneAlone
  <2> QED  BY <2>2, <2>3, <1>3, <1>5
<1>7. CASE ~kept
  <2>1. calls' = calls \ {call} /\ UNCHANGED <<items, shown, kept, made, page>>
    BY <1>1, <1>7 DEF DeleteLands, CrateShape
  <2>2. /\ CallsTyped' /\ CallsKnow' /\ CallsApart'
        /\ \A c \in calls : c # call => \E d \in calls' : d.id = c.id
    BY <2>1, <1>2, CallsFewer
  <2> QED  BY <2>2, <1>3, <1>5
<1> QED  BY <1>6, <1>7 DEF CrateShape

\* A file enters or leaves the pool.
LEMMA PoolChangesStep ==
    ASSUME CratesInv, NEW f \in Tunes, PoolChanges(f)
    PROVE  CratesInv' /\ \A c \in calls : \E d \in calls' : d.id = c.id
<1> USE DEF CratesInv
<1>1. /\ shown' = (IF f \in shown THEN shown \ {f} ELSE shown \cup {f})
      /\ made' = made + 1
      /\ calls' = {[c EXCEPT !.alone = FALSE] : c \in calls}
      /\ UNCHANGED <<items, kept, page, said>>
  BY DEF PoolChanges
<1>2. shown' \in SUBSET Tunes /\ InCrate' = InCrate
  BY <1>1 DEF CrateShape, InCrate
<1>3. CrateShape'
  BY <1>1, <1>2 DEF CrateShape, InCrate, Positioned
<1>4. /\ made' \in Nat /\ made' >= made
      /\ \A c \in calls : c.step = "moved" => kept' /\ ToSet(c.order) \subseteq InCrate'
  BY <1>1, <1>2 DEF CrateShape, CallsKnow
<1>5. /\ CallsTyped' /\ CallsKnow' /\ CallsApart'
      /\ \A c \in calls : \E d \in calls' : d.id = c.id
  BY <1>1, <1>4, NoneAlone
<1>6. SaidInCrate'
  BY <1>1 DEF SaidInCrate
<1> QED  BY <1>3, <1>5, <1>6

\* The page loads.
LEMMA LoadPageStep ==
    ASSUME CratesInv, LoadPage
    PROVE  CratesInv' /\ \A c \in calls : \E d \in calls' : d.id = c.id
<1> USE DEF CratesInv
<1>1. /\ page' = CrateGet /\ calls' = Forgotten(calls)
      /\ UNCHANGED <<items, shown, kept, made, said>>
  BY DEF LoadPage
<1>2. page' \in Seq(Tunes)
  BY <1>1, CrateGets
<1>3. CrateShape'
  BY <1>1, <1>2 DEF CrateShape, InCrate, Positioned
<1>4. /\ CallsTyped' /\ CallsKnow' /\ CallsApart'
      /\ \A c \in calls : \E d \in calls' : d.id = c.id
  BY <1>1, CallsForgotten
<1>5. SaidInCrate'
  BY <1>1 DEF SaidInCrate
<1> QED  BY <1>3, <1>4, <1>5

\* A refused reorder ends, and the page that asked for it reloads.
LEMMA RefusedStep ==
    ASSUME CratesInv, NEW call \in calls, Refused(call), UNCHANGED <<shown, kept, made, said>>
    PROVE  CratesInv' /\ \A c \in calls : c # call => \E d \in calls' : d.id = c.id
<1> USE DEF CratesInv
<1> DEFINE X == calls \ {call}
<1>1. /\ calls' = (IF call.page THEN Forgotten(X) ELSE X)
      /\ page' = (IF call.page THEN CrateGet ELSE page)
      /\ UNCHANGED items
  BY DEF Refused
<1>2. page' \in Seq(Tunes)
  BY <1>1, CrateGets DEF CrateShape
<1>3. CrateShape'
  BY <1>1, <1>2 DEF CrateShape, InCrate, Positioned
<1>4. /\ CallsTyped' /\ CallsKnow' /\ CallsApart'
      /\ \A c \in calls : c # call => \E d \in calls' : d.id = c.id
  <2>1. CASE call.page
    <3>1. X \in SUBSET calls /\ calls' = Forgotten(X) /\ \A c \in calls : c # call => c \in X
      BY <1>1, <2>1
    <3> HIDE DEF X
    <3> QED  BY <1>1, <3>1, CallsForgotten
  <2>2. CASE ~call.page
    BY <1>1, <2>2, CallsFewer
  <2> QED  BY <2>1, <2>2
<1>5. SaidInCrate'
  BY DEF SaidInCrate
<1> QED  BY <1>3, <1>4, <1>5

\* A reorder is refused, or moves what it names behind its locks.
LEMMA ReorderMovesStep ==
    ASSUME CratesInv, NEW call \in calls, ReorderMoves(call)
    PROVE  CratesInv' /\ \A c \in calls : c # call => \E d \in calls' : d.id = c.id
<1> USE DEF CratesInv
<1>1. /\ call.op = "reorder" /\ call.step = "asked"
      /\ UNCHANGED <<shown, kept, made, said>>
  BY DEF ReorderMoves
<1>2. CASE Refused(call)
  BY <1>1, <1>2, RefusedStep
<1>3. CASE /\ Permutes(call.order)
           /\ calls' = (calls \ {call}) \cup {[call EXCEPT !.step = "moved"]}
           /\ UNCHANGED <<items, page>>
  <2> DEFINE new == [call EXCEPT !.step = "moved"]
  <2>1. /\ calls' = (calls \ {call}) \cup {new}
        /\ UNCHANGED <<items, page>>
    BY <1>3
  <2>2. /\ new \in CrateCalls
        /\ new.op = "reorder" /\ new.id = call.id /\ new.order = call.order
        /\ new.step = "moved" /\ new.page = call.page /\ new.alone = call.alone
    BY <1>1 DEF CallsTyped, CrateCalls
  <2> HIDE DEF new
  <2>3. NextPosition' = NextPosition /\ InCrate' = InCrate
    BY <2>1 DEF NextPosition, InCrate
  <2>4. CrateShape'
    BY <1>1, <2>1 DEF CrateShape, InCrate, Positioned
  <2>5. CallsTyped'
    BY <2>1, <2>2 DEF CallsTyped
  <2>6. CallsKnow'
    <3>1. /\ new.id < made'
          /\ kept' /\ IsInjective(new.order) /\ ToSet(new.order) = InCrate' \cap shown'
      BY <1>1, <1>3, <2>1, <2>2, <2>3 DEF CallsKnow, Permutes
    <3>2. ToSet(new.order) \subseteq InCrate'
      BY <3>1
    <3>3. /\ \A c \in calls : c # call /\ Newest(c)' => Newest(c)
          /\ Newest(new)' => Newest(call)
      BY <2>1, <2>2 DEF Newest
    <3>4. new.page /\ new.alone /\ Newest(new)' => page' = new.order
      BY <2>1, <2>2, <3>3 DEF CallsKnow
    <3>5. ASSUME NEW c \in calls, c # call
          PROVE  /\ c.op = "add" <=> c.step = "read"
                 /\ c.step = "moved" \/ c.page => c.op = "reorder"
                 /\ c.id < made'
                 /\ c.page /\ c.alone /\ Newest(c)' => page' = c.order
                 /\ c.step = "read" /\ c.alone => c.at = NextPosition'
                 /\ c.step = "moved" =>
                       /\ kept' /\ IsInjective(c.order) /\ ToSet(c.order) \subseteq InCrate'
                       /\ c.alone => ToSet(c.order) = InCrate' \cap shown'
      BY <1>1, <2>1, <2>3, <3>3, <3>5 DEF CallsKnow
    <3> QED  BY <2>1, <2>2, <3>1, <3>2, <3>4, <3>5 DEF CallsKnow
  <2>7. CallsApart'
    BY <2>1, <2>2 DEF CallsApart
  <2>8. SaidInCrate'
    BY <1>1 DEF SaidInCrate
  <2>9. \A c \in calls : c # call => \E d \in calls' : d.id = c.id
    BY <2>1
  <2> QED  BY <2>4, <2>5, <2>6, <2>7, <2>8, <2>9
<1>4. CASE ~call.alone /\ calls' = calls \ {call} /\ UNCHANGED <<items, page>>
  <2>1. /\ CallsTyped' /\ CallsKnow' /\ CallsApart'
        /\ \A c \in calls : c # call => \E d \in calls' : d.id = c.id
    BY <1>1, <1>4, CallsFewer
  <2>2. CrateShape'
    BY <1>1, <1>4 DEF CrateShape, InCrate, Positioned
  <2>3. SaidInCrate'
    BY <1>1 DEF SaidInCrate
  <2> QED  BY <2>1, <2>2, <2>3
<1> QED  BY <1>2, <1>3, <1>4 DEF ReorderMoves

\* Positioned after a reorder differ, so the constraint never refuses one.
LEMMA RenumberedApart ==
    ASSUME CratesInv, NEW call \in calls, call.step = "moved"
    PROVE  /\ Renumbered(call.order) \in [InCrate -> Nat]
           /\ Positioned(Renumbered(call.order), InCrate)
           /\ IsInjective(Renumbered(call.order))
           /\ \A i \in DOMAIN call.order : Renumbered(call.order)[call.order[i]] = i
           /\ \A f \in InCrate \ ToSet(call.order) : Renumbered(call.order)[f] > Len(call.order)
           /\ \A f, g \in InCrate \ ToSet(call.order) :
                 items[f] < items[g] => Renumbered(call.order)[f] < Renumbered(call.order)[g]
<1> USE DEF CratesInv
<1> DEFINE order == call.order
           new == Renumbered(order)
<1>1. /\ order \in Seq(Tunes) /\ IsInjective(order) /\ ToSet(order) \subseteq InCrate
      /\ Positioned(items, InCrate) /\ IsFiniteSet(InCrate)
  BY CrateGets DEF CallsTyped, CrateCalls, CallsKnow, CrateShape
<1> HIDE DEF order
<1>2. /\ DOMAIN new = InCrate
      /\ \A i \in DOMAIN order : order[i] \in InCrate => new[order[i]] = i
      /\ \A f \in InCrate \ ToSet(order) :
            /\ new[f] \in Nat /\ new[f] > Len(order)
            /\ \A g \in InCrate \ ToSet(order) : items[f] < items[g] => new[f] < new[g]
  BY <1>1, RenumberedFacts
<1>3. new = [f \in InCrate |-> new[f]]
  <2> DEFINE rest == ByPosition(InCrate \ ToSet(order))
             h(f) == IF f \in ToSet(order) THEN CHOOSE i \in DOMAIN order : order[i] = f
                     ELSE Len(order) + CHOOSE i \in DOMAIN rest : rest[i] = f
  <2>1. new = [f \in InCrate |-> h(f)]
    BY DEF Renumbered
  <2> HIDE DEF h, new
  <2>2. \A f \in InCrate : new[f] = h(f)
    BY <2>1
  <2> QED  BY <2>1, <2>2, Zenon
<1> HIDE DEF new
<1>4. DOMAIN order = 1 .. Len(order) /\ Len(order) \in Nat
  BY <1>1
<1>5. \A i \in DOMAIN order : order[i] \in ToSet(order) /\ order[i] \in InCrate /\ new[order[i]] = i
  BY <1>1, <1>2 DEF ToSet
<1>6. \A f \in ToSet(order) : new[f] \in 1 .. Len(order) /\ order[new[f]] = f
  BY <1>4, <1>5 DEF ToSet
<1>7. \A f \in InCrate : new[f] \in Nat
  BY <1>2, <1>4, <1>6
<1>8. ASSUME NEW f \in InCrate, NEW g \in InCrate, new[f] = new[g]
      PROVE  f = g
  <2>1. CASE f \in ToSet(order) /\ g \in ToSet(order)
    BY <1>6, <1>8, <2>1
  <2>2. CASE f \in ToSet(order) /\ g \notin ToSet(order)
    BY <1>2, <1>4, <1>6, <1>8, <2>2
  <2>3. CASE f \notin ToSet(order) /\ g \in ToSet(order)
    BY <1>2, <1>4, <1>6, <1>8, <2>3
  <2>4. CASE f \notin ToSet(order) /\ g \notin ToSet(order)
    <3>1. items[f] \in Nat /\ items[g] \in Nat /\ (items[f] = items[g] => f = g)
      BY <1>1 DEF Positioned
    <3>2. ~(items[f] < items[g]) /\ ~(items[g] < items[f])
      BY <1>2, <1>7, <1>8, <2>4
    <3> QED  BY <3>1, <3>2
  <2> QED  BY <2>1, <2>2, <2>3, <2>4
<1>9. new \in [InCrate -> Nat]
  BY <1>2, <1>3, <1>7
<1>10. Positioned(new, InCrate) /\ IsInjective(new)
  BY <1>2, <1>7, <1>8 DEF Positioned, IsInjective
<1> QED  BY <1>2, <1>5, <1>9, <1>10 DEF new, order

\* A reorder commits.
LEMMA ReorderLandsStep ==
    ASSUME CratesInv, NEW call \in calls, ReorderLands(call)
    PROVE  /\ CratesInv' /\ \A c \in calls : c # call => \E d \in calls' : d.id = c.id
           /\ items' = Renumbered(call.order)
           /\ UNCHANGED <<page, shown>>
<1> USE DEF CratesInv
<1> DEFINE new == Renumbered(call.order)
           X == calls \ {call}
<1>1. call.step = "moved" /\ UNCHANGED <<shown, kept, made, said>>
  BY DEF ReorderLands
<1>2. new \in [InCrate -> Nat] /\ Positioned(new, InCrate) /\ IsInjective(new)
  BY <1>1, RenumberedApart
<1> DEFINE still == [c \in X |-> c.alone /\ Behind(c, call)]
<1>3. items' = new /\ calls' = {[c EXCEPT !.alone = still[c]] : c \in X} /\ UNCHANGED page
  BY <1>2 DEF ReorderLands, Committed
<1>4. InCrate' = InCrate
  BY <1>2, <1>3 DEF InCrate
<1>5. kept
  BY <1>1 DEF CallsKnow
<1>6. CrateShape'
  <2> HIDE DEF new
  <2> QED  BY <1>1, <1>2, <1>3, <1>4, <1>5 DEF CrateShape
<1>7. X \in SUBSET calls /\ \A c \in calls : c # call => c \in X
  OBVIOUS
<1>8. /\ made' \in Nat /\ made' >= made
      /\ \A c \in X : c.step = "moved" => kept' /\ ToSet(c.order) \subseteq InCrate'
  BY <1>1, <1>3, <1>4, <1>5 DEF CrateShape, CallsKnow
<1>9. /\ still \in [X -> BOOLEAN]
      /\ \A c \in X : still[c] => c.alone /\ c.page /\ call.page /\ call.id < c.id
      /\ \A c \in X : c.alone /\ c.page /\ call.page /\ call.id < c.id => still[c]
  BY DEF CallsTyped, CrateCalls, Behind
<1>10. \A c \in X : c \in calls /\ c.step # "moved" /\ c.id \in Nat /\ call.id \in Nat
  BY DEF ReorderLands, CallsTyped, CrateCalls
<1> HIDE DEF new, X, still
<1>11. \A c \in X : still[c] => c.page /\ c.step = "asked"
  BY <1>9, <1>10 DEF CallsKnow, CallsTyped, CrateCalls
<1>12. \A c, d \in X : c.page /\ d.page /\ c.id < d.id /\ still[c] => still[d]
  BY <1>9, <1>10 DEF CallsApart
<1>13. ASSUME NEW c \in X, still[c], \A d \in X : d.page => d.id <= c.id
       PROVE  page' = c.order
  <2>1. Newest(c)
    BY <1>7, <1>9, <1>10, <1>13 DEF Newest
  <2> QED  BY <2>1, <1>3, <1>9, <1>10, <1>13 DEF CallsKnow
<1>14. /\ CallsTyped' /\ CallsKnow' /\ CallsApart'
       /\ \A c \in X : \E d \in calls' : d.id = c.id
  BY <1>3, <1>7, <1>8, <1>9, <1>11, <1>12, <1>13, CallsDemoted
<1>15. SaidInCrate'
  BY <1>1 DEF SaidInCrate
<1> QED  BY <1>1, <1>3, <1>6, <1>7, <1>14, <1>15 DEF new

\* A deadlock ends one of the calls in it, and commits nothing.
LEMMA DeadlockedStep ==
    ASSUME CratesInv, NEW call \in calls, Deadlocked(call)
    PROVE  CratesInv' /\ \A c \in calls : c # call => \E d \in calls' : d.id = c.id
<1> USE DEF CratesInv
<1>1. UNCHANGED <<shown, kept, made, said>>
  BY DEF Deadlocked
<1>2. CASE call.op = "reorder"
  BY <1>1, <1>2, RefusedStep DEF Deadlocked
<1>3. CASE call.op # "reorder"
  <2>1. calls' = calls \ {call} /\ UNCHANGED <<items, page>> /\ ~call.page
    BY <1>3 DEF Deadlocked, CallsKnow
  <2>2. /\ CallsTyped' /\ CallsKnow' /\ CallsApart'
        /\ \A c \in calls : c # call => \E d \in calls' : d.id = c.id
    BY <1>1, <2>1, CallsFewer
  <2>3. CrateShape'
    BY <1>1, <2>1 DEF CrateShape, InCrate, Positioned
  <2>4. SaidInCrate'
    BY <1>1 DEF SaidInCrate
  <2> QED  BY <2>2, <2>3, <2>4
<1> QED  BY <1>2, <1>3

\* The crate starts with some of the files, in some order.
LEMMA CratesStart == CratesInit => CratesInv
<1> SUFFICES ASSUME CratesInit PROVE CratesInv
  OBVIOUS
<1> DEFINE c == Cardinality(Tunes)
           s == SetToSeq(Tunes)
<1>1. PICK n \in 0 .. c : items = AntiFunction(SubSeq(s, 1, n))
  BY DEF CratesInit
<1>2. /\ shown = Tunes /\ kept = TRUE
      /\ calls = {} /\ made = 0 /\ page = <<>> /\ said = NothingSaid
  BY DEF CratesInit
<1>3. c \in Nat /\ s \in [1 .. c -> Tunes]
  <2>1. c \in Nat /\ ExistsBijection(1 .. c, Tunes)
    BY CratesAssumption, FS_CardinalityType
  <2>2. \E g \in [1 .. c -> Tunes] : IsInjective(g)
    BY <2>1 DEF ExistsBijection, Bijection, Injection, IsInjective
  <2> QED  BY <2>1, <2>2, Zenon DEF SetToSeq
<1> DEFINE t == SubSeq(s, 1, n)
<1>4. DOMAIN t = 1 .. n /\ n \in Nat
  <2> HIDE DEF s, c
  <2>1. s \in Seq(Tunes) /\ Len(s) = c
    BY <1>3
  <2> QED  BY <2>1, <1>3
<1> HIDE DEF t
<1>5. items = [x \in Range(t) |-> CHOOSE i \in DOMAIN t : x \in Range(t) => t[i] = x]
  BY <1>1, Zenon DEF t, AntiFunction, Inverse
<1>6. InCrate = Range(t) /\ \A x \in Range(t) : items[x] \in DOMAIN t /\ t[items[x]] = x
  <2>1. InCrate = Range(t)
    BY <1>5 DEF InCrate
  <2>2. \A x \in Range(t) : \E i \in DOMAIN t : x \in Range(t) => t[i] = x
    BY DEF Range
  <2>3. \A x \in Range(t) : items[x] = CHOOSE i \in DOMAIN t : x \in Range(t) => t[i] = x
    BY <1>5
  <2>4. \A x \in Range(t) : items[x] \in DOMAIN t /\ (x \in Range(t) => t[items[x]] = x)
    BY <2>2, <2>3, Zenon
  <2> QED  BY <2>1, <2>4
<1>7. Range(t) \in SUBSET Tunes
  <2> HIDE DEF s, c
  <2>1. s \in Seq(Tunes) /\ Len(s) = c
    BY <1>3
  <2>2. \A i \in 1 .. n : t[i] \in Tunes
    BY <2>1, <1>3 DEF t
  <2> QED  BY <1>4, <2>2 DEF Range
<1>8. items \in [InCrate -> Nat] /\ Positioned(items, InCrate)
  BY <1>4, <1>5, <1>6 DEF Positioned
<1>9. CrateShape
  BY <1>2, <1>6, <1>7, <1>8 DEF CrateShape
<1> QED  BY <1>2, <1>9 DEF CratesInv, CallsTyped, CallsKnow, CallsApart, SaidInCrate, NothingSaid

\* Every step keeps the invariant, and only its own step answers a call.
LEMMA CratesStep ==
    ASSUME CratesInv, [CratesNext]_cratesVars
    PROVE  /\ CratesInv'
           /\ \A c \in calls : \/ AddLands(c) \/ ReorderMoves(c) \/ ReorderLands(c)
                               \/ DeleteLands(c) \/ Deadlocked(c)
                               \/ \E d \in calls' : d.id = c.id
<1>1. CASE \E f \in Tunes : AddReads(f)
  BY <1>1, AddReadsStep
<1>2. CASE \E f \in Tunes : RemoveFrom(f)
  BY <1>2, RemoveFromStep
<1>3. CASE \E f \in Tunes : PoolChanges(f)
  BY <1>3, PoolChangesStep
<1>4. CASE \E f \in Tunes, down \in BOOLEAN : Move(f, down)
  BY <1>4, MoveStep
<1>5. CASE \E from, to \in 1 .. Cardinality(Tunes) : Drag(from, to)
  BY <1>5, DragStep
<1>6. CASE \E c \in calls : AddLands(c)
  BY <1>6, AddLandsStep
<1>7. CASE \E c \in calls : ReorderMoves(c)
  BY <1>7, ReorderMovesStep
<1>8. CASE \E c \in calls : ReorderLands(c)
  BY <1>8, ReorderLandsStep
<1>9. CASE DeleteBegins
  BY <1>9, DeleteBeginsStep
<1>10. CASE LoadPage
  BY <1>10, LoadPageStep
<1>11. CASE UNCHANGED cratesVars
  <2>1. UNCHANGED <<items, shown, kept, calls, made, page, said>>
    BY <1>11 DEF cratesVars
  <2>2. NextPosition' = NextPosition /\ InCrate' = InCrate
    BY <2>1 DEF NextPosition, InCrate
  <2> QED
    BY <2>1, <2>2 DEF CratesInv, CrateShape, CallsTyped, CallsKnow, CallsApart, Newest,
                      SaidInCrate
<1>12. CASE \E c \in calls : DeleteLands(c)
  BY <1>12, DeleteLandsStep
<1>13. CASE \E c \in calls : Deadlocked(c)
  BY <1>13, DeadlockedStep
<1> QED
  BY <1>1, <1>2, <1>3, <1>4, <1>5, <1>6, <1>7, <1>8, <1>9, <1>10, <1>11, <1>12, <1>13
  DEF CratesNext

\* However the calls on a crate interleave, their invariant holds.
THEOREM CratesInvariant == CratesSpec => []CratesInv
<1>1. CratesInv /\ [CratesNext]_cratesVars => CratesInv'
  BY CratesStep
<1> QED  BY CratesStart, <1>1, PTL DEF CratesSpec

\* A crate holds each file at one position of its own (the deferred unique
\* constraint on crate_items is never broken by a commit), and a deleted crate
\* holds none.
THEOREM CratesTypes == CratesSpec => []CratesTypeOK
<1>1. ASSUME CratesInv
      PROVE  CratesTypeOK
  <2>1. IsInjective(items) /\ Range(items) \subseteq Nat
    BY <1>1 DEF CratesInv, CrateShape, Positioned, InCrate, IsInjective, Range
  <2> QED  BY <1>1, <2>1 DEF CratesTypeOK, CratesInv, CrateShape, CallsTyped, CrateCalls
<1> QED  BY CratesInvariant, <1>1, PTL

\* An add that no other call overlapped is told "already in crate" only of a
\* file that is in the crate (crate_add behind add.ts, which answers any 23505
\* so): the position it read is still free when it writes.
THEOREM AlreadyMeansInside == CratesSpec => []SaidInCrate
<1>1. CratesInv => SaidInCrate
  BY DEF CratesInv
<1> QED  BY CratesInvariant, <1>1, PTL

\* Where a reorder that lands puts each file, named or not.
LEMMA LandsInOrder ==
    ASSUME CratesInv, NEW c \in calls, ReorderLands(c),
           NEW f \in InCrate', NEW g \in InCrate',
           NEW place, \A h \in InCrate' :
              place[h] = IF h \in ToSet(c.order) THEN CHOOSE i \in DOMAIN c.order : c.order[i] = h
                         ELSE Len(c.order) + items[h],
           place[f] < place[g]
    PROVE  items'[f] < items'[g]
<1> DEFINE order == c.order
           named == ToSet(order)
<1>1. c.step = "moved" /\ items' = Renumbered(order)
  BY ReorderLandsStep DEF ReorderLands
<1>2. /\ items' \in [InCrate -> Nat]
      /\ \A i \in DOMAIN order : items'[order[i]] = i
      /\ \A h \in InCrate \ named : items'[h] > Len(order)
      /\ \A h, k \in InCrate \ named : items[h] < items[k] => items'[h] < items'[k]
  BY <1>1, RenumberedApart
<1>3. InCrate' = InCrate
  BY <1>2 DEF InCrate
<1>4. order \in Seq(Tunes)
  BY DEF CratesInv, CallsTyped, CrateCalls
<1>5. DOMAIN order = 1 .. Len(order) /\ Len(order) \in Nat
  BY <1>4
<1>6. \A h \in InCrate : items[h] \in Nat /\ items'[h] \in Nat
  BY <1>2 DEF CratesInv, CrateShape
<1>7. ASSUME NEW h \in InCrate, h \in named
      PROVE  place[h] = items'[h] /\ items'[h] <= Len(order)
  <2>1. \E i \in DOMAIN order : order[i] = h
    BY <1>7 DEF ToSet
  <2> DEFINE i == CHOOSE i \in DOMAIN order : order[i] = h
  <2>2. i \in DOMAIN order /\ order[i] = h
    BY <2>1, Zenon
  <2>3. place[h] = i
    BY <1>3, <1>7
  <2> HIDE DEF i
  <2> QED  BY <2>2, <2>3, <1>2, <1>5
<1>8. ASSUME NEW h \in InCrate, h \notin named
      PROVE  place[h] = Len(order) + items[h] /\ items'[h] > Len(order)
  BY <1>2, <1>3, <1>8
<1>9. f \in InCrate /\ g \in InCrate
  BY <1>3
<1> HIDE DEF order, named
<1>10. CASE f \in named /\ g \in named
  BY <1>7, <1>9, <1>10
<1>11. CASE f \in named /\ g \notin named
  BY <1>5, <1>6, <1>7, <1>8, <1>9, <1>11
<1>12. CASE f \notin named /\ g \in named
  BY <1>5, <1>6, <1>7, <1>8, <1>9, <1>12
<1>13. CASE f \notin named /\ g \notin named
  <2>1. items[f] < items[g]
    BY <1>5, <1>6, <1>8, <1>9, <1>13
  <2> QED  BY <2>1, <1>2, <1>9, <1>13
<1> QED  BY <1>10, <1>11, <1>12, <1>13

\* A reorder that has begun to write puts what it names first, in the order
\* asked, and everything else, hidden from its member or just added, behind it in
\* the order it had (crate_reorder's second update); only a deadlock with another
\* call refuses it, and then it changes no position.
THEOREM HiddenFollow == CratesSpec => HiddenStayBehind
<1>1. ASSUME CratesInv, NEW c \in calls, ReorderLands(c)
      PROVE  PutsFirst(c.order)
  <2> DEFINE place == [h \in InCrate' |->
                 IF h \in ToSet(c.order) THEN CHOOSE i \in DOMAIN c.order : c.order[i] = h
                 ELSE Len(c.order) + items[h]]
  <2>1. \A h \in InCrate' :
           place[h] = IF h \in ToSet(c.order) THEN CHOOSE i \in DOMAIN c.order : c.order[i] = h
                      ELSE Len(c.order) + items[h]
    BY Zenon
  <2> HIDE DEF place
  <2>2. \A f, g \in InCrate' : place[f] < place[g] => items'[f] < items'[g]
    BY <1>1, <2>1, LandsInOrder
  <2> QED  BY <2>1, <2>2, Zenon DEF InCrate, PutsFirst
<1>2. ASSUME CratesInv, [CratesNext]_cratesVars, NEW c \in calls, c.step = "moved", Answered(c)
      PROVE  PutsFirst(c.order) \/ (items' = items /\ \E d \in calls : Crosses(c, d))
  <2>1. ~\E d \in calls' : d.id = c.id
    BY <1>2 DEF Answered
  <2>2. \/ AddLands(c) \/ ReorderMoves(c) \/ ReorderLands(c)
        \/ DeleteLands(c) \/ Deadlocked(c)
    BY <1>2, <2>1, CratesStep
  <2>3. c.op = "reorder"
    BY <1>2 DEF CratesInv, CallsKnow
  <2>4. CASE ReorderLands(c)
    BY <1>1, <1>2, <2>4
  <2>5. CASE Deadlocked(c)
    BY <2>3, <2>5 DEF Deadlocked, Refused
  <2> QED  BY <1>2, <2>2, <2>3, <2>4, <2>5 DEF AddLands, ReorderMoves, DeleteLands
<1>3. CratesInv /\ [CratesNext]_cratesVars =>
        [\A c \in calls : c.step = "moved" /\ Answered(c) =>
            PutsFirst(c.order) \/ (items' = items /\ \E d \in calls : Crosses(c, d))]_cratesVars
  BY <1>2
<1> QED  BY CratesInvariant, <1>3, PTL DEF CratesSpec, HiddenStayBehind

\* The same of the state after a step.
Listing ==
    /\ IsFiniteSet(InCrate \cap shown)
    /\ Positioned(items, InCrate \cap shown)
    /\ Sorts(CrateGet, InCrate \cap shown, items)

\* A crate of the right shape, after a step, is listed by its new positions.
LEMMA CrateGetsAfter == CrateShape' => Listing'
<1>1. CrateShape => Listing
  BY CrateGets DEF Listing
<1> QED  BY <1>1, PTL

\* After a reorder that names all the visible files, crate_get answers with the
\* order it asked for.
LEMMA AskedIsListed ==
    ASSUME CratesInv, NEW c \in calls, ReorderLands(c), c.alone
    PROVE  CrateGet' = c.order
<1> DEFINE order == c.order
           S == ToSet(order)
           n == Len(order)
<1>1. /\ c.step = "moved" /\ items' = Renumbered(order) /\ CratesInv' /\ UNCHANGED shown
  BY ReorderLandsStep DEF ReorderLands
<1>2. items' \in [InCrate -> Nat] /\ \A i \in DOMAIN order : items'[order[i]] = i
  BY <1>1, RenumberedApart
<1>3. InCrate' = InCrate
  BY <1>2 DEF InCrate
<1>4. S = InCrate \cap shown /\ IsInjective(order) /\ order \in Seq(Tunes)
  BY <1>1 DEF CratesInv, CallsKnow, CallsTyped, CrateCalls
<1>5. InCrate' \cap shown' = S
  BY <1>1, <1>3, <1>4
<1>6. /\ IsFiniteSet(S) /\ Positioned(items', S) /\ Sorts(CrateGet', S, items')
  <2>1. CratesInv'
    BY <1>1
  <2>2. CrateShape'
    BY <2>1, Zenon DEF CratesInv
  <2> QED  BY <2>2, <1>5, CrateGetsAfter, Zenon DEF Listing
<1> HIDE DEF S, n, order
<1>7. DOMAIN order = 1 .. n /\ n \in Nat /\ order \in [1 .. n -> S]
  BY <1>4 DEF S, n, ToSet
<1>8. Cardinality(S) = n
  <2>1. order \in Injection(1 .. n, S)
    BY <1>4, <1>7 DEF Injection, IsInjective
  <2>2. order \in Surjection(1 .. n, S)
    BY <1>7 DEF Surjection, S, ToSet
  <2>3. ExistsBijection(1 .. n, S)
    BY <2>1, <2>2 DEF Bijection, ExistsBijection
  <2> QED  BY <1>7, <2>3, FS_CountingElements
<1>9. \A i, j \in 1 .. Cardinality(S) : i < j => items'[order[i]] < items'[order[j]]
  BY <1>2, <1>7, <1>8 DEF order
<1>10. Sorts(order, S, items')
  BY <1>7, <1>8, <1>9 DEF Sorts
<1> DEFINE listed == CrateGet'
           at == items'
<1>11. Sorts(listed, S, at) /\ Sorts(order, S, at) /\ Positioned(at, S)
  BY <1>6, <1>10
<1> HIDE DEF listed, at
<1>12. listed = order
  BY <1>6, <1>11, SortedIsOne
<1> QED  BY <1>12 DEF listed, order

\* When the server has answered the last drag that the page waits for, and no
\* call committed since it was sent but drags sent before it, the page shows the
\* order the database holds: the one dragged when it was committed, and the one
\* reloaded when it was refused or aborted (submitCrateOrder in site.ts).
THEOREM PageIsTrue == CratesSpec => PageShowsCommitted
<1>1. ASSUME CratesInv, [CratesNext]_cratesVars, NEW c \in calls, c.page, c.alone, Answered(c),
             \A d \in calls' : ~d.page
      PROVE  page' = CrateGet'
  <2>1. ~\E d \in calls' : d.id = c.id
    BY <1>1 DEF Answered
  <2>2. c.op = "reorder" /\ c \in CrateCalls
    BY <1>1 DEF CratesInv, CallsKnow, CallsTyped
  <2>3. ReorderMoves(c) \/ ReorderLands(c) \/ Deadlocked(c)
    <3>1. \/ AddLands(c) \/ ReorderMoves(c) \/ ReorderLands(c)
          \/ DeleteLands(c) \/ Deadlocked(c)
      BY <1>1, <2>1, CratesStep
    <3> QED  BY <2>2, <3>1 DEF AddLands, DeleteLands
  <2>4. CASE ReorderLands(c)
    <3>1. \A d \in calls : d # c => ~d.page
      <4> SUFFICES ASSUME NEW d \in calls, d # c, d.page PROVE FALSE
        OBVIOUS
      <4> DEFINE e == [d EXCEPT !.alone = @ /\ Behind(d, c)]
      <4>1. e \in calls'
        <5>1. IsInjective(Renumbered(c.order))
          BY <1>1, <2>4, RenumberedApart DEF ReorderLands
        <5> QED  BY <2>4, <5>1 DEF ReorderLands, Committed
      <4>2. e.page = d.page
        BY <1>1 DEF CratesInv, CallsTyped, CrateCalls
      <4> QED  BY <1>1, <4>1, <4>2
    <3>2. Newest(c)
      BY <2>2, <3>1 DEF Newest, CrateCalls
    <3>3. page = c.order
      BY <1>1, <3>2 DEF CratesInv, CallsKnow
    <3>4. CrateGet' = c.order
      BY <1>1, <2>4, AskedIsListed
    <3>5. page' = page
      BY <1>1, <2>4, ReorderLandsStep
    <3> QED  BY <3>3, <3>4, <3>5
  <2>5. ASSUME Refused(c), UNCHANGED shown
        PROVE  page' = CrateGet'
    <3>1. page' = CrateGet /\ UNCHANGED <<items, shown>>
      BY <1>1, <2>5 DEF Refused
    <3>2. CrateGet' = CrateGet
      BY <3>1, Zenon DEF CrateGet, ByPosition, InCrate
    <3> QED  BY <3>1, <3>2
  <2>6. CASE ReorderMoves(c)
    <3>1. Refused(c)
      <4> SUFFICES ASSUME ~Refused(c) PROVE FALSE
        OBVIOUS
      <4>1. [c EXCEPT !.step = "moved"] \in calls'
        BY <1>1, <2>6 DEF ReorderMoves
      <4>2. [c EXCEPT !.step = "moved"].id = c.id
        BY <2>2 DEF CrateCalls
      <4> QED  BY <2>1, <4>1, <4>2
    <3> QED  BY <2>5, <2>6, <3>1 DEF ReorderMoves
  <2>7. CASE Deadlocked(c)
    BY <2>2, <2>5, <2>7 DEF Deadlocked
  <2> QED  BY <2>3, <2>4, <2>6, <2>7
<1>2. CratesInv /\ [CratesNext]_cratesVars =>
        [\A c \in calls : c.page /\ c.alone /\ Answered(c) /\ (\A d \in calls' : ~d.page)
            => page' = CrateGet']_cratesVars
  BY <1>1
<1> QED  BY CratesInvariant, <1>2, PTL DEF CratesSpec, PageShowsCommitted

(***************************************************************************)
(* The upload list.                                                        *)
(***************************************************************************)

ListRows == [key : Keys, named : BOOLEAN, status : Statuses, resumed : BOOLEAN,
             discarded : BOOLEAN]
ListChecks == [key : Keys, pick : Nat, step : {"reading", "lookup"}, found : BOOLEAN]
Transfers == [key : Keys, named : BOOLEAN]

\* indexOf says where each row of the list is.
Indexed(list) ==
    /\ list \in Seq(ListRows) /\ indexOf \in [Keys -> Nat]
    /\ \A k \in Keys : HasRow(k) => indexOf[k] \in DOMAIN list /\ list[indexOf[k]].key = k
    /\ \A i \in DOMAIN list : indexOf[list[i].key] = i

ListShape ==
    /\ Indexed(rows)
    /\ handles \in SUBSET Keys /\ haunted \in SUBSET Keys /\ evicted \in SUBSET Keys
    /\ disk \in SUBSET Keys /\ memory \in SUBSET disk
    /\ checks \in SUBSET ListChecks
    /\ fresh # NoFresh => fresh.key \in Keys
    /\ retry \in Keys \cup {NoKey} /\ picks \in Nat

\* The run: its pump is full or has no task left, and it is over when nothing
\* is sent.
RunInv ==
    /\ tasks \in Seq(Keys) /\ active \in SUBSET Transfers /\ IsFiniteSet(active)
    /\ batch \in BOOLEAN /\ running \in BOOLEAN /\ creating \in BOOLEAN /\ aborted \in BOOLEAN
    /\ creating => running /\ active = {}
    /\ running => creating \/ active # {}
    /\ ~running => tasks = <<>>
    /\ OneRun

\* A file's row says it uploads exactly while a transfer sends the file, under
\* the id the row was given when its check ended.
SendsIt(k, row, sending) ==
    /\ \A t \in sending : t.key = k => HasRow(k) /\ row.status = "uploading" /\ t.named
    /\ HasRow(k) /\ row.status = "uploading" => \E t \in sending : t.key = k
    /\ HasRow(k) /\ row.status \notin {"checking", "skipped"} => row.named

\* A check that is not over is the only one of its file, and its row waits for
\* it; what the journal had told it before an eviction is not told again.
ChecksIt(k, row) ==
    \A c \in checks : c.key = k =>
        /\ HasRow(k) => row.status = "checking" /\ (k \in evicted => ~c.found)
        /\ \A d \in checks : d.key = k => d = c

\* A file is one task of the run at most, and not sent while it waits.
WaitsOnce(k, row, pending) ==
    \A i \in DOMAIN pending : pending[i] = k =>
        /\ HasRow(k) => row.status \in {"queued", "failed", "cancelled"}
        /\ \A j \in DOMAIN pending : pending[j] = k => j = i

\* What was evicted is in no journal, and its row is not one to resume.
StaysForgotten(k, row) ==
    k \in evicted => k \notin disk \cup memory /\ (HasRow(k) => ~row.resumed)

Tells(k, row, pending, sending) ==
    /\ SendsIt(k, row, sending)
    /\ ChecksIt(k, row)
    /\ WaitsOnce(k, row, pending)
    /\ StaysForgotten(k, row)

\* A row whose retry is suspended has not been run meanwhile.
RetryWaits(k, row) ==
    retry = k => ~running /\ HasRow(k) /\ row.status \in {"failed", "cancelled"}

FilesTell ==
    \A k \in Keys \ haunted : Tells(k, RowOf(k), tasks, active) /\ RetryWaits(k, RowOf(k))

ListInv == ListShape /\ RunInv /\ FilesTell

\* A patch changes one row and leaves the others where they are.
LEMMA PatchedFacts ==
    ASSUME NEW list, Indexed(list), NEW k \in Keys, NEW row,
           HasRow(k) => row \in ListRows /\ row.key = k
    PROVE  /\ Indexed(Patched(list, k, row))
           /\ \A j \in Keys : HasRow(j) =>
                 Patched(list, k, row)[indexOf[j]] = IF j = k THEN row ELSE list[indexOf[j]]
<1> DEFINE new == Patched(list, k, row)
<1>1. /\ list \in Seq(ListRows) /\ indexOf \in [Keys -> Nat]
      /\ \A j \in Keys : HasRow(j) => indexOf[j] \in DOMAIN list /\ list[indexOf[j]].key = j
      /\ \A i \in DOMAIN list : indexOf[list[i].key] = i
  BY DEF Indexed
<1>2. /\ DOMAIN list = 1 .. Len(list) /\ Len(list) \in Nat
      /\ \A i \in DOMAIN list : list[i] \in ListRows /\ list[i].key \in Keys
  <2>1. list \in Seq(ListRows)
    BY DEF Indexed
  <2>2. \A row1 \in ListRows : row1.key \in Keys
    BY DEF ListRows
  <2> QED  BY <2>1, <2>2
<1>3. new = [i \in DOMAIN list |-> IF i = indexOf[k] THEN row ELSE list[i]]
  BY DEF Patched
<1> HIDE DEF new
<1>4. ASSUME NEW i \in DOMAIN list
      PROVE  new[i] \in ListRows /\ new[i].key = list[i].key
  <2>1. CASE i = indexOf[k]
    <3>1. HasRow(k)
      BY <1>2, <2>1 DEF HasRow
    <3> QED  BY <1>1, <1>3, <2>1, <3>1
  <2>2. CASE i # indexOf[k]
    BY <1>2, <1>3, <2>2
  <2> QED  BY <2>1, <2>2
<1>5. DOMAIN new = 1 .. Len(list) /\ new \in Seq(ListRows)
  BY <1>2, <1>3, <1>4
<1>6. \A j \in Keys : HasRow(j) => new[indexOf[j]] = IF j = k THEN row ELSE list[indexOf[j]]
  <2> SUFFICES ASSUME NEW j \in Keys, HasRow(j)
               PROVE  new[indexOf[j]] = IF j = k THEN row ELSE list[indexOf[j]]
    OBVIOUS
  <2>1. j # k => indexOf[j] # indexOf[k]
    <3> SUFFICES ASSUME indexOf[j] = indexOf[k] PROVE j = k
      OBVIOUS
    <3>1. HasRow(k)
      BY DEF HasRow
    <3> QED  BY <1>1, <3>1
  <2>2. indexOf[j] \in DOMAIN list
    BY <1>1
  <2> QED  BY <1>3, <2>1, <2>2
<1>7. Indexed(new)
  BY <1>1, <1>2, <1>4, <1>5 DEF Indexed
<1> QED  BY <1>6, <1>7 DEF new

\* The pump stops at the first task that fills it, or at the end.
LEMMA PumpStops ==
    ASSUME NEW pending \in Seq(Keys), NEW sending, NEW list
    PROVE  LET n == PumpTakes(pending, sending, list)
               full(m) == Cardinality(sending \cup Begun(pending, m, list)) >= FileConcurrency
           IN  /\ n \in 0 .. Len(pending)
               /\ full(n) \/ n = Len(pending)
               /\ \A m \in 0 .. Len(pending) : m < n => ~full(m)
<1> DEFINE full(m) == Cardinality(sending \cup Begun(pending, m, list)) >= FileConcurrency
           l == Len(pending)
           T == {m \in 0 .. l : full(m) \/ m = l}
           n == PumpTakes(pending, sending, list)
<1>1. l \in Nat
  OBVIOUS
<1> HIDE DEF l
<1>2. PICK m \in T : \A i \in T : m <= i
  <2>1. T \in SUBSET Nat /\ l \in T
    BY <1>1
  <2> HIDE DEF T
  <2> QED  BY <2>1, LeastNatural
<1>3. \A i \in 0 .. l : i < m => ~full(i)
  BY <1>2
<1>4. /\ m \in 0 .. l
      /\ (full(m) \/ m = l)
  BY <1>2
<1>5. n = CHOOSE i \in 0 .. l :
             /\ full(i) \/ i = l
             /\ \A j \in 0 .. l : j < i => ~full(j)
  BY Zenon DEF PumpTakes, Looked, l
<1> HIDE DEF full, n
<1>6. /\ n \in 0 .. l /\ (full(n) \/ n = l)
      /\ \A j \in 0 .. l : j < n => ~full(j)
  BY <1>3, <1>4, <1>5, Zenon
<1> QED  BY <1>6, Zenon DEF full, n, l

\* What a pump begins has a row and was a task of the first n.
LEMMA BegunFacts ==
    ASSUME NEW pending \in Seq(Keys), NEW list, Indexed(list), NEW n \in 0 .. Len(pending)
    PROVE  /\ Begun(pending, n, list) \in SUBSET Transfers
           /\ \A t \in Begun(pending, n, list) :
                 /\ HasRow(t.key) /\ t.named = list[indexOf[t.key]].named
                 /\ \E i \in 1 .. n : pending[i] = t.key
           /\ Begun(pending, 0, list) = {}
           /\ n > 0 => \E x : Begun(pending, n, list) \subseteq Begun(pending, n - 1, list) \cup {x}
<1> DEFINE r(k) == [key |-> k, named |-> list[indexOf[k]].named]
           able == {k \in handles : HasRow(k) /\ ~aborted'}
<1>1. n \in Nat /\ \A i \in 1 .. n : pending[i] \in Keys
  OBVIOUS
<1>2. \A m : Begun(pending, m, list) = {r(k) : k \in {pending[i] : i \in 1 .. m} \cap able}
  BY Zenon DEF Begun
<1>3. \A k \in Keys : HasRow(k) => list[indexOf[k]].named \in BOOLEAN
  <2>1. \A k \in Keys : HasRow(k) => list[indexOf[k]] \in ListRows
    BY DEF Indexed
  <2>2. \A row \in ListRows : row.named \in BOOLEAN
    BY DEF ListRows
  <2> QED  BY <2>1, <2>2, Zenon
<1>4. ASSUME NEW t \in Begun(pending, n, list)
      PROVE  /\ t \in Transfers /\ HasRow(t.key) /\ t.named = list[indexOf[t.key]].named
             /\ \E i \in 1 .. n : pending[i] = t.key
  <2>1. PICK k \in {pending[i] : i \in 1 .. n} \cap able : t = r(k)
    BY <1>2
  <2>2. k \in Keys /\ HasRow(k) /\ \E i \in 1 .. n : pending[i] = k
    BY <1>1, <2>1
  <2> QED  BY <1>3, <2>1, <2>2 DEF Transfers
<1>5. Begun(pending, 0, list) = {}
  BY <1>2
<1>6. ASSUME n > 0
      PROVE  \E x : Begun(pending, n, list) \subseteq Begun(pending, n - 1, list) \cup {x}
  <2>1. \A i \in 1 .. n : i = n \/ i \in 1 .. n - 1
    BY <1>1
  <2> HIDE DEF r, able
  <2>2. Begun(pending, n, list) \subseteq Begun(pending, n - 1, list) \cup {r(pending[n])}
    BY <1>2, <2>1
  <2> QED  BY <2>2
<1> QED  BY <1>4, <1>5, <1>6

\* What a pump begins is finite, of any number of tasks.
LEMMA BegunFinite ==
    ASSUME NEW pending \in Seq(Keys), NEW list, NEW n \in Nat
    PROVE  IsFiniteSet(Begun(pending, n, list))
<1> DEFINE f == [i \in 1 .. n |-> [key |-> pending[i], named |-> list[indexOf[pending[i]]].named]]
           T == {f[i] : i \in 1 .. n}
<1>1. Begun(pending, n, list) \subseteq T
  BY DEF Begun
<1>2. IsFiniteSet(1 .. n)
  BY FS_Interval
<1>3. f \in Surjection(1 .. n, T)
  BY DEF Surjection
<1> HIDE DEF f, T
<1>4. IsFiniteSet(T)
  BY <1>2, <1>3, FS_Surjection
<1> QED  BY <1>1, <1>4, FS_Subset

\* A pump leaves a run of FILE_CONCURRENCY transfers at most, of exactly so
\* many while a task is left.
LEMMA PumpRuns ==
    ASSUME NEW pending \in Seq(Keys), NEW sending \in SUBSET Transfers, IsFiniteSet(sending),
           Cardinality(sending) <= FileConcurrency, NEW list, Indexed(list),
           Pump(pending, sending, list)
    PROVE  /\ tasks' \in Seq(Keys) /\ active' \in SUBSET Transfers /\ IsFiniteSet(active')
           /\ running' = (active' # {})
           /\ Cardinality(active') <= FileConcurrency
           /\ tasks' # <<>> => Cardinality(active') = FileConcurrency
<1> DEFINE n == PumpTakes(pending, sending, list)
           A(m) == sending \cup Begun(pending, m, list)
<1>1. /\ n \in 0 .. Len(pending)
      /\ Cardinality(A(n)) >= FileConcurrency \/ n = Len(pending)
      /\ \A m \in 0 .. Len(pending) : m < n => ~(Cardinality(A(m)) >= FileConcurrency)
  BY PumpStops, Zenon
<1>2. /\ tasks' = SubSeq(pending, n + 1, Len(pending))
      /\ active' = A(n) /\ running' = (active' # {})
  BY Zenon DEF Pump
<1> HIDE DEF n
<1>3. Len(pending) \in Nat /\ n \in Nat /\ FileConcurrency \in Nat /\ FileConcurrency > 0
  BY <1>1, UploadListAssumption
<1>4. \A m \in Nat : IsFiniteSet(A(m)) /\ Cardinality(A(m)) \in Nat
  <2> TAKE m \in Nat
  <2>1. IsFiniteSet(Begun(pending, m, list))
    BY BegunFinite
  <2>2. IsFiniteSet(A(m))
    BY <2>1, FS_Union
  <2> QED  BY <2>2, FS_CardinalityType
<1>5. Begun(pending, n, list) \in SUBSET Transfers
  BY <1>1, BegunFacts
<1>6. Cardinality(A(n)) <= FileConcurrency
  <2>1. CASE n = 0
    <3>1. Begun(pending, n, list) = {}
      BY <1>1, <2>1, BegunFacts
    <3> QED  BY <3>1
  <2>2. CASE n > 0
    <3>1. PICK x : Begun(pending, n, list) \subseteq Begun(pending, n - 1, list) \cup {x}
      BY <1>1, <2>2, BegunFacts
    <3>2. n - 1 \in Nat /\ n - 1 \in 0 .. Len(pending) /\ n - 1 < n
      BY <1>1, <1>3, <2>2
    <3>3. IsFiniteSet(A(n - 1)) /\ Cardinality(A(n - 1)) \in Nat
      BY <1>4, <3>2
    <3>4. Cardinality(A(n - 1)) < FileConcurrency
      <4>1. ~(Cardinality(A(n - 1)) >= FileConcurrency)
        BY <1>1, <3>2, Zenon
      <4> HIDE DEF A
      <4> QED  BY <1>3, <3>3, <4>1
    <3>5. A(n) \in SUBSET (A(n - 1) \cup {x})
      BY <3>1
    <3> HIDE DEF A
    <3>6. /\ IsFiniteSet(A(n - 1) \cup {x})
          /\ \/ Cardinality(A(n - 1) \cup {x}) = Cardinality(A(n - 1)) + 1
             \/ Cardinality(A(n - 1) \cup {x}) = Cardinality(A(n - 1))
      BY <3>3, FS_AddElement
    <3>7. Cardinality(A(n)) <= Cardinality(A(n - 1) \cup {x})
      BY <3>5, <3>6, FS_Subset
    <3>8. Cardinality(A(n)) \in Nat
      BY <1>3, <1>4
    <3> QED  BY <1>3, <3>3, <3>4, <3>6, <3>7, <3>8
  <2> QED  BY <1>3, <2>1, <2>2
<1>7. \A i \in n + 1 .. Len(pending) : pending[i] \in Keys
  BY <1>1, <1>3
<1>8. tasks' \in Seq(Keys)
  BY <1>2, <1>3, <1>7, SubSeqProperties
<1>9. ASSUME tasks' # <<>> PROVE Cardinality(A(n)) = FileConcurrency
  <2>1. n # Len(pending)
    <3> SUFFICES ASSUME n = Len(pending) PROVE FALSE
      OBVIOUS
    <3>1. SubSeq(pending, n + 1, Len(pending)) = <<>>
      BY <1>3, SubSeqEmpty
    <3> QED  BY <1>2, <1>9, <3>1
  <2> HIDE DEF A
  <2> QED  BY <1>1, <1>3, <1>4, <1>6, <2>1
<1>10. IsFiniteSet(active') /\ active' \in SUBSET Transfers
  BY <1>2, <1>3, <1>4, <1>5
<1> QED  BY <1>2, <1>6, <1>8, <1>9, <1>10

\* The journal and the list keep their shape while a pump begins transfers.
LEMMA PumpShape ==
    ASSUME NEW pending \in Seq(Keys), NEW sending \in SUBSET Transfers, NEW list, Indexed(list),
           Pump(pending, sending, list), UNCHANGED indexOf,
           disk \in SUBSET Keys, memory \in SUBSET disk, evicted \in SUBSET Keys
    PROVE  /\ Indexed(rows)'
           /\ disk' \in SUBSET Keys /\ memory' \in SUBSET disk' /\ evicted' \in SUBSET Keys
<1> DEFINE n == PumpTakes(pending, sending, list)
           begun == Begun(pending, n, list)
           taken == {t.key : t \in begun \ sending}
<1>1. n \in 0 .. Len(pending)
  BY PumpStops, Zenon
<1>2. /\ rows' = [i \in DOMAIN list |->
                     IF \E t \in begun : i = indexOf[t.key]
                     THEN [list[i] EXCEPT !.status = "uploading"] ELSE list[i]]
      /\ disk' = disk \cup taken /\ memory' = memory \cup taken
      /\ evicted' = evicted \ taken
  BY Zenon DEF Pump
<1> HIDE DEF n
<1>3. begun \in SUBSET Transfers
  BY <1>1, BegunFacts
<1> HIDE DEF begun
<1>4. taken \in SUBSET Keys
  BY <1>3 DEF Transfers
<1>5. DOMAIN list = 1 .. Len(list) /\ Len(list) \in Nat /\ \A i \in DOMAIN list : list[i] \in ListRows
  BY DEF Indexed
<1>6. \A row \in ListRows :
         /\ [row EXCEPT !.status = "uploading"] \in ListRows
         /\ [row EXCEPT !.status = "uploading"].key = row.key
  BY DEF ListRows, Statuses
<1>7. /\ DOMAIN rows' = 1 .. Len(list)
      /\ \A i \in DOMAIN list : rows'[i] \in ListRows /\ rows'[i].key = list[i].key
  BY <1>2, <1>5, <1>6
<1>8. rows' \in Seq(ListRows)
  BY <1>2, <1>5, <1>7
<1>9. Indexed(rows)'
  <2>1. /\ indexOf' = indexOf /\ DOMAIN rows' = DOMAIN list
        /\ \A i \in DOMAIN list : rows'[i].key = list[i].key
    BY <1>5, <1>7
  <2>2. /\ indexOf \in [Keys -> Nat]
        /\ \A j \in Keys : HasRow(j) => indexOf[j] \in DOMAIN list /\ list[indexOf[j]].key = j
        /\ \A i \in DOMAIN list : indexOf[list[i].key] = i
    BY DEF Indexed
  <2>3. \A j \in Keys : HasRow(j)' <=> HasRow(j)
    BY <2>1 DEF HasRow
  <2> QED  BY <1>8, <2>1, <2>2, <2>3 DEF Indexed
<1> QED  BY <1>2, <1>4, <1>9

\* What the list told of a file before its pump it tells after: a task that is
\* begun is one whose row was not sent, and it is a task no more.
LEMMA PumpTells ==
    ASSUME NEW pending \in Seq(Keys), NEW sending \in SUBSET Transfers, NEW list, Indexed(list),
           Pump(pending, sending, list), UNCHANGED <<indexOf, checks>>,
           memory \in SUBSET disk, NEW k \in Keys,
           Tells(k, list[indexOf[k]], pending, sending)
    PROVE  Tells(k, RowOf(k), tasks, active)'
<1> DEFINE n == PumpTakes(pending, sending, list)
           begun == Begun(pending, n, list)
           taken == {t.key : t \in begun \ sending}
           row == list[indexOf[k]]
           new == rows'[indexOf[k]]
           starts == \E t \in begun : t.key = k
<1>1. n \in 0 .. Len(pending)
  BY PumpStops, Zenon
<1>2. /\ tasks' = SubSeq(pending, n + 1, Len(pending))
      /\ active' = sending \cup begun
      /\ rows' = [i \in DOMAIN list |->
                     IF \E t \in begun : i = indexOf[t.key]
                     THEN [list[i] EXCEPT !.status = "uploading"] ELSE list[i]]
      /\ disk' = disk \cup taken /\ memory' = memory \cup taken
      /\ evicted' = evicted \ taken
  BY Zenon DEF Pump
<1> HIDE DEF n
<1>3. /\ begun \in SUBSET Transfers
      /\ \A t \in begun : /\ HasRow(t.key) /\ t.named = list[indexOf[t.key]].named
                          /\ \E i \in 1 .. n : pending[i] = t.key
  BY <1>1, BegunFacts
<1> HIDE DEF begun
<1>4. /\ n \in Nat /\ Len(pending) \in Nat /\ n <= Len(pending) /\ DOMAIN pending = 1 .. Len(pending)
      /\ \A i \in 1 .. Len(pending) : pending[i] \in Keys
  BY <1>1
<1>5. /\ DOMAIN tasks' = 1 .. Len(pending) - n
      /\ \A i \in 1 .. Len(pending) - n : tasks'[i] = pending[n + i] /\ n + i \in DOMAIN pending
  <2>1. \A i \in n + 1 .. Len(pending) : pending[i] \in Keys
    BY <1>4
  <2>2. /\ tasks' \in Seq(Keys)
        /\ Len(tasks') = IF n + 1 <= Len(pending) THEN Len(pending) - (n + 1) + 1 ELSE 0
        /\ \A i \in 1 .. Len(pending) - (n + 1) + 1 : tasks'[i] = pending[(n + 1) + i - 1]
    BY <1>2, <1>4, <2>1, SubSeqProperties
  <2>3. \A x, y \in Nat : x <= y => (IF x + 1 <= y THEN y - (x + 1) + 1 ELSE 0) = y - x
    OBVIOUS
  <2>4. Len(tasks') = Len(pending) - n
    BY ONLY <1>4, <2>2, <2>3
  <2>5. DOMAIN tasks' = 1 .. Len(pending) - n
    BY ONLY <2>2, <2>4
  <2>6. \A x, y \in Nat : \A i \in 1 .. y - x :
            i \in 1 .. y - (x + 1) + 1 /\ (x + 1) + i - 1 = x + i /\ x + i \in 1 .. y
    OBVIOUS
  <2> QED  BY ONLY <1>4, <2>2, <2>5, <2>6
<1>6. ASSUME HasRow(k)
      PROVE  row \in ListRows /\ new = IF starts THEN [row EXCEPT !.status = "uploading"] ELSE row
  <2>1. indexOf[k] \in DOMAIN list /\ row \in ListRows /\ row.key = k
    BY <1>6 DEF Indexed
  <2>2. \A t \in begun : indexOf[t.key] = indexOf[k] => t.key = k
    <3> TAKE t \in begun
    <3>1. t.key \in Keys /\ HasRow(t.key)
      BY <1>3 DEF Transfers
    <3>2. list[indexOf[t.key]].key = t.key
      BY <3>1 DEF Indexed
    <3> QED  BY <2>1, <3>2
  <2>3. (\E t \in begun : indexOf[k] = indexOf[t.key]) <=> starts
    BY <2>2
  <2> QED  BY <1>2, <2>1, <2>3
<1>7. SendsIt(k, row, sending) /\ ChecksIt(k, row) /\ WaitsOnce(k, row, pending) /\ StaysForgotten(k, row)
  BY DEF Tells
<1> HIDE DEF row
<1>8. ASSUME starts
      PROVE  /\ HasRow(k) /\ row.status \in {"queued", "failed", "cancelled"}
             /\ \E i \in 1 .. n : pending[i] = k
             /\ \A t \in begun : t.key = k => t.named
             /\ \A t \in sending : t.key # k
             /\ k \in taken
  <2>1. PICK t \in begun : t.key = k
    BY <1>8
  <2>2. HasRow(k) /\ \E i \in 1 .. n : pending[i] = k
    BY <1>3, <2>1
  <2>3. row.status \in {"queued", "failed", "cancelled"}
    BY <1>4, <1>7, <2>2 DEF WaitsOnce
  <2>4. row.named
    BY <1>7, <2>2, <2>3 DEF SendsIt
  <2>5. \A u \in begun : u.key = k => u.named
    BY <1>3, <2>4 DEF row
  <2>6. \A u \in sending : u.key # k
    BY <1>7, <2>3 DEF SendsIt
  <2>7. k \in taken
    BY <2>1, <2>6
  <2> QED  BY <2>2, <2>3, <2>5, <2>6, <2>7
<1>9. k \in taken => starts
  OBVIOUS
<1> HIDE DEF taken, starts
<1>10. (HasRow(k)' <=> HasRow(k)) /\ RowOf(k)' = new
  BY DEF HasRow, RowOf
<1>11. /\ starts => new.status = "uploading"
       /\ HasRow(k) => new.resumed = row.resumed
       /\ HasRow(k) => new.named = row.named
       /\ HasRow(k) /\ ~starts => new.status = row.status
  BY <1>6, <1>8 DEF ListRows
<1> HIDE DEF new
<1>12. SendsIt(k, RowOf(k), active)'
  BY <1>2, <1>7, <1>8, <1>10, <1>11 DEF SendsIt, starts
<1>13. ChecksIt(k, RowOf(k))'
  BY <1>2, <1>7, <1>8, <1>10, <1>11 DEF ChecksIt
<1>14. WaitsOnce(k, RowOf(k), tasks)'
  <2> SUFFICES ASSUME NEW i \in DOMAIN tasks', tasks'[i] = k
               PROVE  /\ HasRow(k)' => RowOf(k)'.status \in {"queued", "failed", "cancelled"}
                      /\ \A j \in DOMAIN tasks' : tasks'[j] = k => j = i
    BY DEF WaitsOnce
  <2>1. ~starts
    <3> SUFFICES ASSUME starts PROVE FALSE
      OBVIOUS
    <3>1. PICK j \in 1 .. n : pending[j] = k
      BY <1>8
    <3>2. j \in DOMAIN pending /\ n + i \in DOMAIN pending /\ pending[n + i] = k /\ j # n + i
      BY <1>4, <1>5, <3>1
    <3> QED  BY <1>7, <3>1, <3>2 DEF WaitsOnce
  <2>2. \A j \in DOMAIN tasks' : tasks'[j] = k => j = i
    <3> SUFFICES ASSUME NEW j \in DOMAIN tasks', tasks'[j] = k
                 PROVE  j = i
      OBVIOUS
    <3>1. n + i \in DOMAIN pending /\ n + j \in DOMAIN pending /\ pending[n + i] = k /\ pending[n + j] = k
      BY <1>5
    <3>2. n + i = n + j
      BY <1>7, <3>1 DEF WaitsOnce
    <3> QED  BY <1>4, <1>5, <3>2
  <2>3. HasRow(k) => row.status \in {"queued", "failed", "cancelled"}
    <3>1. n + i \in DOMAIN pending /\ pending[n + i] = k
      BY <1>5
    <3> QED  BY <1>7, <3>1 DEF WaitsOnce
  <2> QED  BY <1>10, <1>11, <2>1, <2>2, <2>3
<1>15. StaysForgotten(k, RowOf(k))'
  BY <1>2, <1>7, <1>10, <1>11 DEF StaysForgotten
<1> QED  BY <1>12, <1>13, <1>14, <1>15 DEF Tells

\* A pump leaves the invariant when what it starts from tells the truth.
LEMMA PumpStep ==
    ASSUME ListInv, NEW pending \in Seq(Keys), NEW sending \in SUBSET Transfers,
           IsFiniteSet(sending), Cardinality(sending) <= FileConcurrency,
           NEW list, Indexed(list), Pump(pending, sending, list),
           UNCHANGED <<indexOf, handles, checks, fresh, picks>>,
           creating' = FALSE, batch' \in BOOLEAN, aborted' \in BOOLEAN,
           haunted' \in SUBSET Keys, retry' \in Keys \cup {NoKey},
           \A k \in Keys \ haunted' : Tells(k, list[indexOf[k]], pending, sending) /\ retry' # k
    PROVE  ListInv'
<1>1. /\ handles \in SUBSET Keys /\ disk \in SUBSET Keys /\ memory \in SUBSET disk
      /\ evicted \in SUBSET Keys /\ checks \in SUBSET ListChecks /\ picks \in Nat
      /\ fresh # NoFresh => fresh.key \in Keys
  BY Zenon DEF ListInv, ListShape
<1>2. /\ tasks' \in Seq(Keys) /\ active' \in SUBSET Transfers /\ IsFiniteSet(active')
      /\ running' = (active' # {})
      /\ Cardinality(active') <= FileConcurrency
      /\ tasks' # <<>> => Cardinality(active') = FileConcurrency
  BY PumpRuns
<1>3. /\ indexOf' = indexOf /\ handles' = handles /\ checks' = checks
      /\ fresh' = fresh /\ picks' = picks
  OBVIOUS
<1>4. /\ Indexed(rows)'
      /\ disk' \in SUBSET Keys /\ memory' \in SUBSET disk' /\ evicted' \in SUBSET Keys
  BY <1>1, <1>3, PumpShape
<1>5. ListShape'
  BY <1>1, <1>3, <1>4, Zenon DEF ListShape, NoFresh
<1>6. RunInv'
  <2>1. running' \in BOOLEAN /\ (running' <=> active' # {})
    BY <1>2
  <2>2. ~running' => tasks' = <<>>
    <3> SUFFICES ASSUME active' = {}, tasks' # <<>> PROVE FALSE
      BY <2>1
    <3>1. Cardinality(active') = FileConcurrency /\ Cardinality(active') = 0
      BY <1>2, FS_EmptySet
    <3> QED  BY <3>1, UploadListAssumption
  <2> QED  BY <1>2, <2>1, <2>2, Zenon DEF RunInv, OneRun
<1>7. FilesTell'
  <2> SUFFICES ASSUME NEW k \in Keys \ haunted'
               PROVE  Tells(k, RowOf(k), tasks, active)' /\ RetryWaits(k, RowOf(k))'
    BY Zenon DEF FilesTell
  <2>1. Tells(k, list[indexOf[k]], pending, sending) /\ retry' # k /\ k \in Keys
    OBVIOUS
  <2>2. UNCHANGED <<indexOf, checks>>
    OBVIOUS
  <2>3. Tells(k, RowOf(k), tasks, active)'
    BY <1>1, <2>1, <2>2, PumpTells
  <2> QED  BY <2>1, <2>3 DEF RetryWaits
<1> QED  BY <1>5, <1>6, <1>7 DEF ListInv

\* A run that begins, with a batch or to create one, leaves the invariant.
LEMMA RunKeysStep ==
    ASSUME ListInv, ~running, NEW keys \in Seq(Keys), keys # <<>>,
           NEW list, Indexed(list), RunKeys(keys, list),
           UNCHANGED <<indexOf, handles, checks, fresh, picks>>,
           haunted' \in SUBSET Keys, retry' \in Keys \cup {NoKey},
           \A k \in Keys \ haunted' : Tells(k, list[indexOf[k]], keys, {}) /\ retry' # k
    PROVE  ListInv'
<1>1. /\ handles \in SUBSET Keys /\ disk \in SUBSET Keys /\ memory \in SUBSET disk
      /\ evicted \in SUBSET Keys /\ checks \in SUBSET ListChecks /\ picks \in Nat
      /\ fresh # NoFresh => fresh.key \in Keys
      /\ batch \in BOOLEAN /\ creating \in BOOLEAN /\ active = {}
      /\ creating = FALSE
  BY Zenon DEF ListInv, ListShape, RunInv, OneRun
<1>2. aborted' = FALSE
  BY DEF RunKeys
<1>3. IsFiniteSet({}) /\ Cardinality({}) = 0
  BY FS_EmptySet
<1>4. Cardinality({}) <= FileConcurrency
  BY <1>3, UploadListAssumption
<1>5. CASE batch
  <2>1. Pump(keys, {}, list) /\ batch' = batch /\ creating' = creating
    BY <1>5 DEF RunKeys
  <2>2. /\ creating' = FALSE /\ batch' \in BOOLEAN /\ aborted' \in BOOLEAN
        /\ {} \in SUBSET Transfers
    BY <1>1, <1>2, <2>1
  <2> QED  BY <1>3, <1>4, <2>1, <2>2, PumpStep
<1>6. CASE ~batch
  <2>1. /\ creating' = TRUE /\ running' = TRUE /\ tasks' = keys /\ rows' = list
        /\ batch' = batch /\ active' = active /\ disk' = disk /\ memory' = memory
        /\ evicted' = evicted
    BY <1>6 DEF RunKeys
  <2>2. /\ indexOf' = indexOf /\ handles' = handles /\ checks' = checks
        /\ fresh' = fresh /\ picks' = picks
    OBVIOUS
  <2>3. Indexed(rows)'
    BY <2>1, <2>2 DEF Indexed, HasRow
  <2>4. ListShape'
    BY <1>1, <2>1, <2>2, <2>3, Zenon DEF ListShape, NoFresh
  <2>5. RunInv'
    BY <1>1, <1>2, <1>3, <1>4, <2>1 DEF RunInv, OneRun
  <2>6. ASSUME NEW k \in Keys \ haunted'
        PROVE  Tells(k, RowOf(k), tasks, active)' /\ RetryWaits(k, RowOf(k))'
    <3>1. Tells(k, list[indexOf[k]], keys, {}) /\ retry' # k
      OBVIOUS
    <3>2. RowOf(k)' = list[indexOf[k]] /\ (HasRow(k)' <=> HasRow(k))
      BY <2>1, <2>2 DEF RowOf, HasRow
    <3>3. Tells(k, RowOf(k), tasks, active)'
      BY <1>1, <2>1, <2>2, <3>1, <3>2
         DEF Tells, SendsIt, ChecksIt, WaitsOnce, StaysForgotten
    <3> QED  BY <3>1, <3>3 DEF RetryWaits
  <2> QED  BY <2>4, <2>5, <2>6 DEF ListInv, FilesTell
<1> QED  BY <1>5, <1>6

\* A step that leaves the pump alone leaves the run.
LEMMA RunKept ==
    ASSUME RunInv, UNCHANGED <<batch, running, creating, tasks, active>>, aborted' \in BOOLEAN
    PROVE  RunInv'
BY DEF RunInv, OneRun

\* What is told of a file holds on when its row, checks, tasks and transfers
\* are left alone and nothing of it is remembered anew.
LEMMA FileKept ==
    ASSUME NEW k, Tells(k, RowOf(k), tasks, active), RetryWaits(k, RowOf(k)),
           UNCHANGED <<tasks, active, running>>, retry' = k => retry = k,
           HasRow(k)' <=> HasRow(k), HasRow(k) => RowOf(k)' = RowOf(k),
           \A c \in checks' : c.key = k => c \in checks,
           k \in evicted' => k \in evicted,
           k \in disk' \cup memory' => k \in disk \cup memory
    PROVE  Tells(k, RowOf(k), tasks, active)' /\ RetryWaits(k, RowOf(k))'
<1>1. /\ SendsIt(k, RowOf(k), active) /\ ChecksIt(k, RowOf(k))
      /\ WaitsOnce(k, RowOf(k), tasks) /\ StaysForgotten(k, RowOf(k))
  BY DEF Tells
<1> DEFINE row == RowOf(k)
           new == RowOf(k)'
<1>2. HasRow(k) => new = row
  OBVIOUS
<1> HIDE DEF row, new
<1>3. SendsIt(k, RowOf(k), active)'
  BY <1>1, <1>2 DEF SendsIt, row, new
<1>4. ChecksIt(k, RowOf(k))'
  BY <1>1, <1>2 DEF ChecksIt, row, new
<1>5. WaitsOnce(k, RowOf(k), tasks)'
  BY <1>1, <1>2 DEF WaitsOnce, row, new
<1>6. StaysForgotten(k, RowOf(k))'
  BY <1>1, <1>2 DEF StaysForgotten, row, new
<1>7. RetryWaits(k, RowOf(k))'
  BY <1>2 DEF RetryWaits, row, new
<1> QED  BY <1>3, <1>4, <1>5, <1>6, <1>7 DEF Tells

\* What the shape says, in the parts the steps use.
LEMMA ListTyped ==
    ASSUME ListInv
    PROVE  /\ Indexed(rows) /\ indexOf \in [Keys -> Nat] /\ rows \in Seq(ListRows)
           /\ handles \in SUBSET Keys /\ haunted \in SUBSET Keys /\ evicted \in SUBSET Keys
           /\ disk \in SUBSET Keys /\ memory \in SUBSET disk
           /\ checks \in SUBSET ListChecks /\ picks \in Nat
           /\ \A c \in checks : c.key \in Keys /\ c.found \in BOOLEAN
           /\ fresh # NoFresh => fresh.key \in Keys
           /\ retry \in Keys \cup {NoKey} /\ NoKey \notin Keys
           /\ \A k \in Keys : HasRow(k) => RowOf(k) \in ListRows /\ RowOf(k).key = k
           /\ \A k \in Keys \ haunted : Tells(k, RowOf(k), tasks, active) /\ RetryWaits(k, RowOf(k))
<1>1. ListShape /\ FilesTell
  BY DEF ListInv
<1>2. Indexed(rows)
  BY <1>1 DEF ListShape
<1>3. \A c \in ListChecks : c.key \in Keys /\ c.found \in BOOLEAN
  BY DEF ListChecks
<1>4. \A k \in Keys : HasRow(k) => RowOf(k) \in ListRows /\ RowOf(k).key = k
  BY <1>2 DEF Indexed, RowOf
<1>5. /\ indexOf \in [Keys -> Nat] /\ rows \in Seq(ListRows)
  BY <1>2 DEF Indexed
<1>6. \A k \in Keys \ haunted : Tells(k, RowOf(k), tasks, active) /\ RetryWaits(k, RowOf(k))
  BY <1>1, Zenon DEF FilesTell
<1>7. NoKey \notin Keys
  BY UploadListAssumption
<1>8. /\ handles \in SUBSET Keys /\ haunted \in SUBSET Keys /\ evicted \in SUBSET Keys
      /\ disk \in SUBSET Keys /\ memory \in SUBSET disk
      /\ checks \in SUBSET ListChecks /\ picks \in Nat
      /\ fresh # NoFresh => fresh.key \in Keys
      /\ retry \in Keys \cup {NoKey}
  BY <1>1, Zenon DEF ListShape
<1> QED  BY <1>2, <1>3, <1>4, <1>5, <1>6, <1>7, <1>8

\* A file picked has a new row, whose check is the only one of the file unless
\* an older one is pending.
LEMMA PickFile == ASSUME ListInv, NEW k \in Keys, Pick(k) PROVE ListInv'
<1> DEFINE row == [key |-> k, named |-> FALSE, status |-> "checking",
                   resumed |-> FALSE, discarded |-> FALSE]
           check == [key |-> k, pick |-> picks', step |-> "reading", found |-> FALSE]
<1>1. /\ picks' = picks + 1 /\ ~HasRow(k) /\ handles' = handles \cup {k}
      /\ rows' = Append(rows, row) /\ indexOf' = [indexOf EXCEPT ![k] = Len(rows) + 1]
      /\ checks' = checks \cup {check}
      /\ haunted' = (IF Pending(k) THEN haunted \cup {k} ELSE haunted)
      /\ evicted' = evicted /\ disk' = disk /\ memory' = memory /\ fresh' = fresh
      /\ retry' = retry
      /\ batch' = batch /\ running' = running /\ creating' = creating /\ tasks' = tasks
      /\ active' = active /\ aborted' = aborted
  BY DEF Pick, runVars
<1>2. row \in ListRows /\ row.status = "checking" /\ row.resumed = FALSE /\ row.key = k
  BY DEF ListRows, Statuses
<1>3. check \in ListChecks /\ check.key = k /\ check.found = FALSE
  BY <1>1, ListTyped DEF ListChecks
<1> HIDE DEF row, check
<1>4. /\ rows \in Seq(ListRows) /\ Len(rows) \in Nat /\ DOMAIN rows = 1 .. Len(rows)
      /\ indexOf \in [Keys -> Nat]
      /\ \A j \in Keys : HasRow(j) => indexOf[j] \in DOMAIN rows /\ rows[indexOf[j]].key = j
      /\ \A i \in DOMAIN rows : rows[i].key \in Keys /\ indexOf[rows[i].key] = i
  <2>1. Indexed(rows) /\ \A r \in ListRows : r.key \in Keys
    BY ListTyped DEF ListRows
  <2> QED  BY <2>1 DEF Indexed
<1>5. /\ rows' \in Seq(ListRows) /\ Len(rows') = Len(rows) + 1
      /\ \A i \in 1 .. Len(rows) : rows'[i] = rows[i]
      /\ rows'[Len(rows) + 1] = row
  BY <1>1, <1>2, <1>4, AppendProperties
<1>6. /\ indexOf' \in [Keys -> Nat] /\ indexOf'[k] = Len(rows) + 1
      /\ \A j \in Keys : j # k => indexOf'[j] = indexOf[j]
  BY <1>1, <1>4
<1>7. HasRow(k)' /\ RowOf(k)' = row
  BY <1>4, <1>5, <1>6 DEF HasRow, RowOf
<1>8. \A j \in Keys : j # k => (HasRow(j)' <=> HasRow(j)) /\ (HasRow(j) => RowOf(j)' = RowOf(j))
  BY <1>4, <1>5, <1>6 DEF HasRow, RowOf
<1>9. Indexed(rows)'
  <2>1. DOMAIN rows' = 1 .. Len(rows) + 1
    BY <1>5, <1>4
  <2>2. \A j \in Keys : HasRow(j)' => indexOf'[j] \in DOMAIN rows' /\ rows'[indexOf'[j]].key = j
    BY <1>2, <1>4, <1>5, <1>6, <1>8, <2>1
  <2>3. ASSUME NEW i \in DOMAIN rows' PROVE indexOf'[rows'[i].key] = i
    <3>1. CASE i = Len(rows) + 1
      BY <1>2, <1>5, <1>6, <3>1
    <3>2. CASE i \in 1 .. Len(rows)
      <4>1. rows'[i] = rows[i] /\ rows[i].key \in Keys /\ indexOf[rows[i].key] = i
        BY <1>4, <1>5, <3>2
      <4>2. rows[i].key # k
        BY <1>1, <1>4, <3>2, <4>1 DEF HasRow
      <4> QED  BY <1>6, <4>1, <4>2
    <3> QED  BY <1>4, <2>1, <3>1, <3>2
  <2> QED  BY <1>5, <1>6, <2>2, <2>3 DEF Indexed
<1>10. ListShape'
  <2>1. /\ handles' \in SUBSET Keys /\ haunted' \in SUBSET Keys /\ evicted' \in SUBSET Keys
        /\ disk' \in SUBSET Keys /\ memory' \in SUBSET disk'
        /\ retry' \in Keys \cup {NoKey} /\ picks' \in Nat
        /\ fresh' # NoFresh => fresh'.key \in Keys
    BY <1>1, ListTyped
  <2>2. checks' \in SUBSET ListChecks
    BY <1>1, <1>3, ListTyped
  <2> QED  BY <1>9, <2>1, <2>2, Zenon DEF ListShape, NoFresh
<1>11. RunInv'
  <2>1. RunInv /\ aborted' \in BOOLEAN
    BY <1>1 DEF ListInv, RunInv
  <2> QED  BY <1>1, <2>1, RunKept
<1>12. ASSUME NEW j \in Keys \ haunted'
       PROVE  Tells(j, RowOf(j), tasks, active)' /\ RetryWaits(j, RowOf(j))'
  <2>1. j \in Keys /\ j \notin haunted
    BY <1>1
  <2>2. Tells(j, RowOf(j), tasks, active) /\ RetryWaits(j, RowOf(j))
    BY <2>1, ListTyped
  <2>3. CASE j # k
    <3>1. \A c \in checks' : c.key = j => c \in checks
      BY <1>1, <1>3, <2>3
    <3> QED  BY <1>1, <1>8, <2>1, <2>2, <2>3, <3>1, FileKept
  <2>4. CASE j = k
    <3>1. ~Pending(k)
      BY <1>1, <2>4
    <3>2. (\A c \in checks : c.key # k) /\ (\A i \in DOMAIN tasks : tasks[i] # k)
      BY <3>1 DEF Pending
    <3>3. \A t \in active : t.key # k
      BY <1>1, <2>2, <2>4 DEF Tells, SendsIt
    <3>4. SendsIt(k, RowOf(k), active)'
      BY <1>1, <1>2, <1>7, <3>3 DEF SendsIt
    <3>5. ChecksIt(k, RowOf(k))'
      BY <1>1, <1>2, <1>3, <1>7, <3>2 DEF ChecksIt
    <3>6. WaitsOnce(k, RowOf(k), tasks)'
      BY <1>1, <3>2 DEF WaitsOnce
    <3>7. StaysForgotten(k, RowOf(k))'
      BY <1>1, <1>2, <1>7, <2>2, <2>4 DEF StaysForgotten, Tells
    <3>8. RetryWaits(k, RowOf(k))'
      BY <1>1, <2>2, <2>4 DEF RetryWaits
    <3> QED  BY <2>4, <3>4, <3>5, <3>6, <3>7, <3>8 DEF Tells
  <2> QED  BY <2>3, <2>4
<1> QED  BY <1>10, <1>11, <1>12 DEF ListInv, FilesTell

\* A patch in place: the list is indexed as before, and one row is the new one.
LEMMA PatchLands ==
    ASSUME NEW k \in Keys, NEW row, HasRow(k) => row \in ListRows /\ row.key = k,
           Indexed(rows), rows' = Patched(rows, k, row), UNCHANGED indexOf
    PROVE  /\ Indexed(rows)'
           /\ \A j \in Keys : (HasRow(j)' <=> HasRow(j))
           /\ \A j \in Keys : HasRow(j) => RowOf(j)' = IF j = k THEN row ELSE RowOf(j)
<1>0. k \in Keys /\ (HasRow(k) => row \in ListRows /\ row.key = k) /\ Indexed(rows)
  OBVIOUS
<1>1. /\ Indexed(Patched(rows, k, row))
      /\ \A j \in Keys : HasRow(j) =>
            Patched(rows, k, row)[indexOf[j]] = IF j = k THEN row ELSE rows[indexOf[j]]
  BY ONLY <1>0, PatchedFacts
<1>2. rows' = Patched(rows, k, row) /\ indexOf' = indexOf
  OBVIOUS
<1>3. \A j \in Keys : (HasRow(j)' <=> HasRow(j))
  BY <1>2 DEF HasRow
<1>4. \A j \in Keys : HasRow(j) => RowOf(j)' = IF j = k THEN row ELSE RowOf(j)
  BY <1>1, <1>2 DEF RowOf
<1>5. Indexed(rows)'
  <2> DEFINE new == Patched(rows, k, row)
  <2>1. Indexed(new) /\ rows' = new
    BY <1>1, <1>2
  <2> HIDE DEF new
  <2> QED  BY <1>2, <2>1 DEF Indexed, HasRow
<1> QED  BY <1>3, <1>4, <1>5

\* The parts of the state a check leaves alone.
Beside == <<indexOf, haunted, evicted, runVars, disk, memory, fresh, retry, picks>>

\* A step that patches a row of a file, and ends or goes on with its checks,
\* leaves the invariant when it does so of this file.
LEMMA CheckStep ==
    ASSUME ListInv, NEW k \in Keys, NEW row, HasRow(k) => row \in ListRows /\ row.key = k,
           rows' = Patched(rows, k, row), UNCHANGED Beside,
           handles' \in SUBSET Keys, checks' \in SUBSET ListChecks,
           \A c \in checks' : c.key # k => c \in checks,
           k \notin haunted => Tells(k, RowOf(k), tasks, active)' /\ RetryWaits(k, RowOf(k))'
    PROVE  ListInv'
<1>1. /\ indexOf' = indexOf /\ haunted' = haunted /\ evicted' = evicted /\ disk' = disk
      /\ memory' = memory /\ fresh' = fresh /\ retry' = retry /\ picks' = picks
      /\ batch' = batch /\ running' = running /\ creating' = creating /\ tasks' = tasks
      /\ active' = active /\ aborted' = aborted
  BY DEF Beside, runVars
<1>2. Indexed(rows)
  BY ListTyped
<1>3. /\ Indexed(rows)'
      /\ \A j \in Keys : (HasRow(j)' <=> HasRow(j))
      /\ \A j \in Keys : HasRow(j) => RowOf(j)' = IF j = k THEN row ELSE RowOf(j)
  BY <1>1, <1>2, PatchLands
<1>4. ListShape'
  <2>1. /\ haunted' \in SUBSET Keys /\ evicted' \in SUBSET Keys
        /\ disk' \in SUBSET Keys /\ memory' \in SUBSET disk'
        /\ retry' \in Keys \cup {NoKey} /\ picks' \in Nat
        /\ fresh' # NoFresh => fresh'.key \in Keys
    BY <1>1, ListTyped
  <2> QED  BY <1>3, <2>1, Zenon DEF ListShape, NoFresh
<1>5. RunInv'
  <2>1. RunInv /\ aborted' \in BOOLEAN
    BY <1>1 DEF ListInv, RunInv
  <2> QED  BY <1>1, <2>1, RunKept
<1>6. ASSUME NEW j \in Keys \ haunted'
      PROVE  Tells(j, RowOf(j), tasks, active)' /\ RetryWaits(j, RowOf(j))'
  <2>1. j \in Keys /\ j \notin haunted
    BY <1>1
  <2>2. CASE j = k
    BY <2>1, <2>2
  <2>3. CASE j # k
    <3>1. Tells(j, RowOf(j), tasks, active) /\ RetryWaits(j, RowOf(j))
      BY <2>1, ListTyped
    <3>2. \A c \in checks' : c.key = j => c \in checks
      BY <2>3
    <3> QED  BY <1>1, <1>3, <2>1, <2>3, <3>1, <3>2, FileKept
  <2> QED  BY <2>2, <2>3
<1> QED  BY <1>4, <1>5, <1>6 DEF ListInv, FilesTell

\* A check that ends finds its row, if there is one, still waiting for it.
LEMMA CheckHasRow ==
    ASSUME ListInv, NEW c \in checks, c.key \notin haunted
    PROVE  /\ HasRow(c.key) => RowOf(c.key).status = "checking"
           /\ HasRow(c.key) /\ c.key \in evicted => ~c.found
           /\ \A d \in checks : d.key = c.key => d = c
           /\ \A t \in active : t.key # c.key
           /\ HasRow(c.key) => \A i \in DOMAIN tasks : tasks[i] # c.key
           /\ c.key \in evicted => c.key \notin disk \cup memory
           /\ retry # c.key
<1>1. c.key \in Keys \ haunted
  BY ListTyped
<1>2. Tells(c.key, RowOf(c.key), tasks, active) /\ RetryWaits(c.key, RowOf(c.key))
  BY <1>1, ListTyped
<1>3. /\ HasRow(c.key) => RowOf(c.key).status = "checking"
      /\ HasRow(c.key) /\ c.key \in evicted => ~c.found
      /\ \A d \in checks : d.key = c.key => d = c
  BY <1>2 DEF Tells, ChecksIt
<1> QED  BY <1>2, <1>3 DEF Tells, SendsIt, WaitsOnce, StaysForgotten, RetryWaits

\* The head of a file is read: it is refused, or the journal asked of it.
LEMMA ReadLandsStep ==
    ASSUME ListInv, NEW c \in checks, NEW accepted \in BOOLEAN, ReadLands(c, accepted)
    PROVE  ListInv'
<1> DEFINE k == c.key
           skipped == [RowOf(k) EXCEPT !.status = "skipped"]
           asked == [key |-> c.key, pick |-> c.pick, step |-> "lookup", found |-> c.key \in disk]
<1>1. /\ k \in Keys /\ c \in ListChecks /\ checks \in SUBSET ListChecks
      /\ handles \in SUBSET Keys /\ Indexed(rows)
  BY ListTyped
<1>2. UNCHANGED Beside
  BY DEF ReadLands, Beside, runVars
<1>3. /\ indexOf' = indexOf /\ haunted' = haunted /\ evicted' = evicted /\ disk' = disk
      /\ memory' = memory /\ retry' = retry /\ tasks' = tasks /\ active' = active
      /\ running' = running
  BY <1>2 DEF Beside, runVars
<1>4. CASE ~accepted
  <2>1. /\ handles' = handles \ {k} /\ rows' = Patched(rows, k, skipped)
        /\ checks' = checks \ {c}
    BY <1>4 DEF ReadLands
  <2>2. HasRow(k) => skipped \in ListRows /\ skipped.key = k /\ skipped.status = "skipped"
                     /\ skipped.resumed = RowOf(k).resumed
    <3>1. HasRow(k) => RowOf(k) \in ListRows /\ RowOf(k).key = k
      BY <1>1, ListTyped
    <3> QED  BY <3>1 DEF ListRows, Statuses
  <2> HIDE DEF skipped
  <2>3. /\ HasRow(k)' <=> HasRow(k)
        /\ HasRow(k) => RowOf(k)' = skipped
    BY <1>1, <1>3, <2>1, <2>2, PatchLands
  <2>4. ASSUME k \notin haunted
        PROVE  Tells(k, RowOf(k), tasks, active)' /\ RetryWaits(k, RowOf(k))'
    <3>1. /\ \A d \in checks : d.key = k => d = c
          /\ \A t \in active : t.key # k
          /\ HasRow(k) => \A i \in DOMAIN tasks : tasks[i] # k
          /\ retry # k
      BY <2>4, CheckHasRow
    <3>2. Tells(k, RowOf(k), tasks, active)
      BY <1>1, <2>4, ListTyped
    <3>3. SendsIt(k, RowOf(k), active)'
      BY <1>3, <2>2, <2>3, <3>1 DEF SendsIt
    <3>4. ChecksIt(k, RowOf(k))'
      BY <2>1, <3>1 DEF ChecksIt
    <3>5. WaitsOnce(k, RowOf(k), tasks)'
      BY <1>3, <2>3, <3>1, <3>2 DEF Tells, WaitsOnce
    <3>6. StaysForgotten(k, RowOf(k))'
      BY <1>3, <2>2, <2>3, <3>2 DEF Tells, StaysForgotten
    <3> QED  BY <1>3, <3>1, <3>3, <3>4, <3>5, <3>6 DEF Tells, RetryWaits
  <2>5. /\ handles' \in SUBSET Keys /\ checks' \in SUBSET ListChecks
        /\ \A d \in checks' : d.key # k => d \in checks
    BY <1>1, <2>1
  <2> HIDE DEF k
  <2> QED  BY <1>1, <1>2, <2>1, <2>2, <2>4, <2>5, CheckStep
<1>5. CASE accepted
  <2>1. /\ checks' = (checks \ {c}) \cup (IF HasRow(k) THEN {asked} ELSE {})
        /\ handles' = handles /\ rows' = rows
    BY <1>5 DEF ReadLands
  <2>2. asked \in ListChecks /\ asked.key = k /\ (asked.found <=> k \in disk)
    <3>1. c.pick \in Nat
      BY <1>1 DEF ListChecks
    <3>2. \A found \in BOOLEAN :
             LET a == [key |-> k, pick |-> c.pick, step |-> "lookup", found |-> found]
             IN  a \in ListChecks /\ a.key = k /\ a.found = found
      BY <1>1, <3>1 DEF ListChecks
    <3>3. (c.key \in disk) \in BOOLEAN
      OBVIOUS
    <3> QED  BY <3>2, <3>3, Zenon
  <2> HIDE DEF asked
  <2>3. rows = Patched(rows, k, RowOf(k))
    BY <1>1 DEF Patched, RowOf, Indexed
  <2>4. /\ HasRow(k)' <=> HasRow(k)
        /\ RowOf(k)' = RowOf(k)
    BY <1>3, <2>1 DEF HasRow, RowOf
  <2>5. ASSUME k \notin haunted
        PROVE  Tells(k, RowOf(k), tasks, active)' /\ RetryWaits(k, RowOf(k))'
    <3>1. /\ HasRow(k) => RowOf(k).status = "checking"
          /\ \A d \in checks : d.key = k => d = c
          /\ k \in evicted => k \notin disk \cup memory
      BY <2>5, CheckHasRow
    <3>2. Tells(k, RowOf(k), tasks, active) /\ RetryWaits(k, RowOf(k))
      BY <1>1, <2>5, ListTyped
    <3>3. SendsIt(k, RowOf(k), active)'
      BY <1>3, <2>4, <3>2 DEF Tells, SendsIt
    <3>4. ChecksIt(k, RowOf(k))'
      BY <1>3, <2>1, <2>2, <2>4, <3>1 DEF ChecksIt
    <3>5. WaitsOnce(k, RowOf(k), tasks)'
      BY <1>3, <2>4, <3>2 DEF Tells, WaitsOnce
    <3>6. StaysForgotten(k, RowOf(k))'
      BY <1>3, <2>4, <3>2 DEF Tells, StaysForgotten
    <3>7. RetryWaits(k, RowOf(k))'
      BY <1>3, <2>4, <3>2 DEF RetryWaits
    <3> QED  BY <3>3, <3>4, <3>5, <3>6, <3>7 DEF Tells
  <2>6. /\ handles' \in SUBSET Keys /\ checks' \in SUBSET ListChecks
        /\ \A d \in checks' : d.key # k => d \in checks
    BY <1>1, <2>1, <2>2
  <2>7. HasRow(k) => RowOf(k) \in ListRows /\ RowOf(k).key = k
    BY <1>1, ListTyped
  <2>8. rows' = Patched(rows, k, RowOf(k))
    BY <2>1, <2>3
  <2> HIDE DEF k
  <2> QED  BY <1>1, <1>2, <2>5, <2>6, <2>7, <2>8, CheckStep
<1> QED  BY <1>4, <1>5

\* The journal answers a check: its row, if it is still there, is queued.
LEMMA LookupLandsStep == ASSUME ListInv, NEW c \in checks, LookupLands(c) PROVE ListInv'
<1> DEFINE k == c.key
           found == c.found \/ c.key \in memory
           row == Changed(RowOf(k), "queued", TRUE, found, RowOf(k).discarded)
<1>1. /\ k \in Keys /\ checks \in SUBSET ListChecks /\ handles \in SUBSET Keys /\ Indexed(rows)
  BY ListTyped
<1>2. UNCHANGED Beside /\ checks' = checks \ {c} /\ handles' = handles
  BY DEF LookupLands, Beside, runVars
<1>3. rows' = Patched(rows, k, row)
  BY Zenon DEF LookupLands
<1>4. /\ indexOf' = indexOf /\ haunted' = haunted /\ evicted' = evicted /\ disk' = disk
      /\ memory' = memory /\ retry' = retry /\ tasks' = tasks /\ active' = active
      /\ running' = running
  BY <1>2 DEF Beside, runVars
<1>5. found \in BOOLEAN
  OBVIOUS
<1>6. HasRow(k) => /\ row \in ListRows /\ row.key = k /\ row.status = "queued"
                   /\ row.named = TRUE /\ row.resumed = found
  <2> SUFFICES ASSUME HasRow(k)
               PROVE  /\ row \in ListRows /\ row.key = k /\ row.status = "queued"
                      /\ row.named = TRUE /\ row.resumed = found
    OBVIOUS
  <2>1. RowOf(k) \in ListRows /\ RowOf(k).key = k
    BY <1>1, ListTyped
  <2>2. RowOf(k).discarded \in BOOLEAN /\ "queued" \in Statuses /\ TRUE \in BOOLEAN
    BY <2>1 DEF ListRows, Statuses
  <2> HIDE DEF found
  <2>3. row \in ListRows
    BY <1>5, <2>1, <2>2 DEF Changed, ListRows
  <2>4. row.key = k /\ row.status = "queued" /\ row.named = TRUE
    BY <2>1 DEF Changed
  <2>5. row.resumed = found
    BY Zenon DEF Changed
  <2> QED  BY <2>3, <2>4, <2>5
<1> HIDE DEF row
<1>7. /\ HasRow(k)' <=> HasRow(k)
      /\ HasRow(k) => RowOf(k)' = row
  BY <1>1, <1>3, <1>4, <1>6, PatchLands
<1>8. ASSUME k \notin haunted
      PROVE  Tells(k, RowOf(k), tasks, active)' /\ RetryWaits(k, RowOf(k))'
  <2>1. /\ \A d \in checks : d.key = k => d = c
        /\ \A t \in active : t.key # k
        /\ HasRow(k) => \A i \in DOMAIN tasks : tasks[i] # k
        /\ retry # k
        /\ HasRow(k) /\ k \in evicted => ~c.found
        /\ k \in evicted => k \notin disk \cup memory
    BY <1>8, CheckHasRow
  <2>2. Tells(k, RowOf(k), tasks, active)
    BY <1>1, <1>8, ListTyped
  <2>3. SendsIt(k, RowOf(k), active)'
    BY <1>4, <1>6, <1>7, <2>1 DEF SendsIt
  <2>4. ChecksIt(k, RowOf(k))'
    BY <1>2, <2>1 DEF ChecksIt
  <2>5. WaitsOnce(k, RowOf(k), tasks)'
    BY <1>4, <1>7, <2>1, <2>2 DEF Tells, WaitsOnce
  <2>6. StaysForgotten(k, RowOf(k))'
    <3>1. HasRow(k) /\ k \in evicted => ~found
      BY <2>1
    <3> QED  BY <1>4, <1>6, <1>7, <2>1, <3>1 DEF StaysForgotten
  <2> QED  BY <1>4, <2>1, <2>3, <2>4, <2>5, <2>6 DEF Tells, RetryWaits
<1>9. /\ handles' \in SUBSET Keys /\ checks' \in SUBSET ListChecks
      /\ \A d \in checks' : d.key # k => d \in checks
  BY <1>1, <1>2
<1>10. HasRow(k) => row \in ListRows /\ row.key = k
  BY <1>6
<1>11. UNCHANGED Beside
  BY <1>2
<1> HIDE DEF k
<1> QED  BY <1>1, <1>3, <1>8, <1>9, <1>10, <1>11, CheckStep

\* The index made anew from a list of different files is right.
LEMMA PositionsFacts ==
    ASSUME NEW list \in Seq(ListRows),
           \A i, j \in DOMAIN list : list[i].key = list[j].key => i = j
    PROVE  /\ Positions(list) \in [Keys -> Nat]
           /\ \A i \in DOMAIN list : Positions(list)[list[i].key] = i
           /\ \A k \in Keys : Positions(list)[k] > 0 =>
                 Positions(list)[k] \in DOMAIN list /\ list[Positions(list)[k]].key = k
<1>1. \A k \in Keys : Positions(list)[k] =
         IF \E i \in DOMAIN list : list[i].key = k
         THEN CHOOSE i \in DOMAIN list : list[i].key = k ELSE 0
  BY DEF Positions
<1>2. /\ DOMAIN list = 1 .. Len(list) /\ Len(list) \in Nat
      /\ \A i \in DOMAIN list : list[i] \in ListRows
  OBVIOUS
<1>3. \A i \in DOMAIN list : list[i].key \in Keys
  BY <1>2 DEF ListRows
<1>4. ASSUME NEW k \in Keys
      PROVE  \/ Positions(list)[k] = 0 /\ \A i \in DOMAIN list : list[i].key # k
             \/ Positions(list)[k] \in DOMAIN list /\ list[Positions(list)[k]].key = k
  <2>1. CASE \E i \in DOMAIN list : list[i].key = k
    <3>1. Positions(list)[k] = CHOOSE i \in DOMAIN list : list[i].key = k
      BY <1>1, <2>1
    <3> QED  BY <2>1, <3>1, Zenon
  <2>2. CASE ~\E i \in DOMAIN list : list[i].key = k
    BY <1>1, <2>2
  <2> QED  BY <2>1, <2>2
<1>5. DOMAIN Positions(list) = Keys /\ Positions(list) = [k \in Keys |-> Positions(list)[k]]
  BY Zenon DEF Positions
<1>6. \A k \in Keys : Positions(list)[k] \in Nat
  BY <1>2, <1>4
<1>7. Positions(list) \in [Keys -> Nat]
  BY <1>5, <1>6
<1>8. \A i \in DOMAIN list : Positions(list)[list[i].key] = i
  BY <1>3, <1>4
<1>9. \A k \in Keys : Positions(list)[k] > 0 =>
         Positions(list)[k] \in DOMAIN list /\ list[Positions(list)[k]].key = k
  BY <1>4
<1> QED  BY <1>7, <1>8, <1>9

\* A row removed leaves the others, each under its new index, and a file of
\* which nothing is remembered.
LEMMA RemoveRowStep == ASSUME ListInv, NEW k \in Keys, RemoveRow(k) PROVE ListInv'
<1> DEFINE a == indexOf[k]
           up(i) == IF i < a THEN i ELSE i + 1
<1>1. /\ HasRow(k) /\ RowOf(k).status \in {"checking", "queued", "skipped"}
      /\ handles' = handles \ {k} /\ rows' = RemoveAt(rows, a) /\ indexOf' = Positions(rows')
      /\ disk' = disk \ {k} /\ memory' = memory \ {k} /\ evicted' = evicted \cup {k}
      /\ haunted' = haunted /\ checks' = checks /\ fresh' = fresh /\ retry' = retry
      /\ picks' = picks
      /\ batch' = batch /\ running' = running /\ creating' = creating /\ tasks' = tasks
      /\ active' = active /\ aborted' = aborted
  BY DEF RemoveRow, Removable, Forget, runVars
<1>2. /\ rows \in Seq(ListRows) /\ Len(rows) \in Nat /\ DOMAIN rows = 1 .. Len(rows)
      /\ indexOf \in [Keys -> Nat]
      /\ \A j \in Keys : HasRow(j) => indexOf[j] \in DOMAIN rows /\ rows[indexOf[j]].key = j
      /\ \A i \in DOMAIN rows : rows[i].key \in Keys /\ indexOf[rows[i].key] = i
  <2>1. Indexed(rows) /\ \A r \in ListRows : r.key \in Keys
    BY ListTyped DEF ListRows
  <2> QED  BY <2>1 DEF Indexed
<1>3. a \in 1 .. Len(rows) /\ rows[a].key = k
  BY <1>1, <1>2
<1>4. /\ rows' \in Seq(ListRows) /\ Len(rows') = Len(rows) - 1
      /\ \A i \in 1 .. Len(rows) - 1 : rows'[i] = rows[up(i)]
  BY <1>1, <1>2, <1>3, RemoveAtFacts
<1>5. DOMAIN rows' = 1 .. Len(rows) - 1
  BY <1>2, <1>4
<1> HIDE DEF a
<1>6. \A i \in 1 .. Len(rows) - 1 : up(i) \in 1 .. Len(rows) /\ up(i) # a
  BY <1>2, <1>3
<1>7. \A i, j \in 1 .. Len(rows) - 1 : up(i) = up(j) => i = j
  BY <1>2, <1>3
<1>8. \A j \in 1 .. Len(rows) : j # a => \E i \in 1 .. Len(rows) - 1 : up(i) = j
  <2> SUFFICES ASSUME NEW j \in 1 .. Len(rows), j # a
               PROVE  \E i \in 1 .. Len(rows) - 1 : up(i) = j
    OBVIOUS
  <2>1. CASE j < a
    BY <1>2, <1>3, <2>1
  <2>2. CASE j > a
    <3>1. j - 1 \in 1 .. Len(rows) - 1 /\ up(j - 1) = j
      BY <1>2, <1>3, <2>2
    <3> QED  BY <3>1
  <2> QED  BY <1>3, <2>1, <2>2
<1> HIDE DEF up
<1>9. \A i, j \in DOMAIN rows' : rows'[i].key = rows'[j].key => i = j
  <2> SUFFICES ASSUME NEW i \in DOMAIN rows', NEW j \in DOMAIN rows', rows'[i].key = rows'[j].key
               PROVE  i = j
    OBVIOUS
  <2>1. up(i) \in DOMAIN rows /\ up(j) \in DOMAIN rows /\ rows[up(i)].key = rows[up(j)].key
    BY <1>2, <1>4, <1>5, <1>6
  <2>2. up(i) = up(j)
    BY <1>2, <2>1
  <2> QED  BY <1>5, <1>7, <2>2
<1>10. /\ indexOf' \in [Keys -> Nat]
       /\ \A i \in DOMAIN rows' : indexOf'[rows'[i].key] = i
       /\ \A j \in Keys : indexOf'[j] > 0 =>
             indexOf'[j] \in DOMAIN rows' /\ rows'[indexOf'[j]].key = j
  <2> DEFINE new == rows'
  <2>1. new \in Seq(ListRows) /\ \A i, j \in DOMAIN new : new[i].key = new[j].key => i = j
    BY <1>4, <1>9
  <2>2. indexOf' = Positions(new)
    BY <1>1
  <2> HIDE DEF new
  <2>3. /\ Positions(new) \in [Keys -> Nat]
        /\ \A i \in DOMAIN new : Positions(new)[new[i].key] = i
        /\ \A j \in Keys : Positions(new)[j] > 0 =>
              Positions(new)[j] \in DOMAIN new /\ new[Positions(new)[j]].key = j
    BY <2>1, PositionsFacts
  <2> QED  BY <2>2, <2>3 DEF new
<1>11. Indexed(rows)'
  BY <1>4, <1>10 DEF Indexed, HasRow
<1>12. ~HasRow(k)'
  <2> SUFFICES ASSUME indexOf'[k] > 0 PROVE FALSE
    BY DEF HasRow
  <2>1. indexOf'[k] \in DOMAIN rows' /\ rows'[indexOf'[k]].key = k
    BY <1>10
  <2>2. up(indexOf'[k]) \in DOMAIN rows /\ rows[up(indexOf'[k])].key = k /\ up(indexOf'[k]) # a
    BY <1>2, <1>4, <1>5, <1>6, <2>1
  <2> QED  BY <1>2, <2>2 DEF a
<1>13. ASSUME NEW j \in Keys, j # k
       PROVE  (HasRow(j)' <=> HasRow(j)) /\ (HasRow(j) => RowOf(j)' = RowOf(j))
  <2>1. ASSUME HasRow(j)
        PROVE  HasRow(j)' /\ RowOf(j)' = RowOf(j)
    <3>1. indexOf[j] \in 1 .. Len(rows) /\ rows[indexOf[j]].key = j /\ indexOf[j] # a
      BY <1>2, <1>3, <1>13, <2>1
    <3>2. PICK i \in 1 .. Len(rows) - 1 : up(i) = indexOf[j]
      BY <1>8, <3>1
    <3>3. rows'[i] = rows[indexOf[j]] /\ i \in DOMAIN rows' /\ i > 0
      BY <1>4, <1>5, <3>2
    <3>4. indexOf'[j] = i
      BY <1>10, <3>1, <3>3
    <3> QED  BY <3>3, <3>4 DEF HasRow, RowOf
  <2>2. ASSUME HasRow(j)'
        PROVE  HasRow(j)
    <3>1. indexOf'[j] \in DOMAIN rows' /\ rows'[indexOf'[j]].key = j
      BY <1>10, <2>2 DEF HasRow
    <3>2. up(indexOf'[j]) \in DOMAIN rows /\ rows[up(indexOf'[j])].key = j
      BY <1>2, <1>4, <1>5, <1>6, <3>1
    <3>3. indexOf[j] = up(indexOf'[j]) /\ up(indexOf'[j]) > 0
      BY <1>2, <3>2
    <3> QED  BY <3>3 DEF HasRow
  <2> QED  BY <2>1, <2>2
<1>14. ListShape'
  <2>1. /\ handles' \in SUBSET Keys /\ haunted' \in SUBSET Keys /\ evicted' \in SUBSET Keys
        /\ disk' \in SUBSET Keys /\ memory' \in SUBSET disk' /\ checks' \in SUBSET ListChecks
        /\ retry' \in Keys \cup {NoKey} /\ picks' \in Nat
        /\ fresh' # NoFresh => fresh'.key \in Keys
    BY <1>1, ListTyped
  <2> QED  BY <1>11, <2>1, Zenon DEF ListShape, NoFresh
<1>15. RunInv'
  <2>1. RunInv /\ aborted' \in BOOLEAN
    BY <1>1 DEF ListInv, RunInv
  <2> QED  BY <1>1, <2>1, RunKept
<1>16. ASSUME NEW j \in Keys \ haunted'
       PROVE  Tells(j, RowOf(j), tasks, active)' /\ RetryWaits(j, RowOf(j))'
  <2>1. j \in Keys /\ j \notin haunted
    BY <1>1
  <2>2. Tells(j, RowOf(j), tasks, active) /\ RetryWaits(j, RowOf(j))
    BY <2>1, ListTyped
  <2>3. CASE j # k
    BY <1>1, <1>13, <2>1, <2>2, <2>3, FileKept
  <2>4. CASE j = k
    <3>1. SendsIt(k, RowOf(k), active)'
      BY <1>1, <1>12, <2>2, <2>4 DEF Tells, SendsIt
    <3>2. ChecksIt(k, RowOf(k))'
      BY <1>1, <1>12, <2>2, <2>4 DEF Tells, ChecksIt
    <3>3. WaitsOnce(k, RowOf(k), tasks)'
      BY <1>1, <1>12, <2>2, <2>4 DEF Tells, WaitsOnce
    <3>4. StaysForgotten(k, RowOf(k))'
      BY <1>1, <1>12 DEF StaysForgotten
    <3>5. RetryWaits(k, RowOf(k))'
      BY <1>1, <2>2, <2>4 DEF RetryWaits
    <3> QED  BY <2>4, <3>1, <3>2, <3>3, <3>4, <3>5 DEF Tells
  <2> QED  BY <2>3, <2>4
<1> QED  BY <1>14, <1>15, <1>16 DEF ListInv, FilesTell

\* A run cancelled goes on until its transfers have ended.
LEMMA CancelStep == ASSUME ListInv, Cancel PROVE ListInv'
<1>1. /\ indexOf' = indexOf /\ rows' = rows /\ handles' = handles /\ haunted' = haunted
      /\ evicted' = evicted /\ disk' = disk /\ memory' = memory /\ checks' = checks
      /\ fresh' = fresh /\ retry' = retry /\ picks' = picks
      /\ batch' = batch /\ running' = running /\ creating' = creating /\ tasks' = tasks
      /\ active' = active /\ aborted' = TRUE
  BY DEF Cancel, listVars, otherVars
<1>2. ListShape'
  BY <1>1 DEF ListInv, ListShape, Indexed, HasRow
<1>3. RunInv'
  BY <1>1, RunKept DEF ListInv
<1>4. ASSUME NEW k \in Keys \ haunted'
      PROVE  Tells(k, RowOf(k), tasks, active)' /\ RetryWaits(k, RowOf(k))'
  <2>1. Tells(k, RowOf(k), tasks, active) /\ RetryWaits(k, RowOf(k))
    BY <1>1, ListTyped
  <2> QED  BY <1>1, <2>1, FileKept DEF HasRow, RowOf
<1> QED  BY <1>2, <1>3, <1>4 DEF ListInv, FilesTell

\* The batch is created and the pump starts; or it is refused and the run over.
LEMMA BatchLandsStep ==
    ASSUME ListInv, NEW created \in BOOLEAN, BatchLands(created)
    PROVE  ListInv'
<1>1. /\ creating /\ creating' = FALSE /\ batch' = created
      /\ indexOf' = indexOf /\ handles' = handles /\ haunted' = haunted /\ aborted' = aborted
      /\ checks' = checks /\ fresh' = fresh /\ retry' = retry /\ picks' = picks
  BY DEF BatchLands
<1>2. /\ RunInv /\ running /\ active = {} /\ tasks \in Seq(Keys)
      /\ aborted \in BOOLEAN
  BY <1>1, Zenon DEF ListInv, RunInv
<1>3. \A k \in Keys \ haunted : Tells(k, RowOf(k), tasks, {}) /\ retry # k
  BY <1>2, ListTyped DEF RetryWaits
<1>4. IsFiniteSet({}) /\ Cardinality({}) = 0
  BY FS_EmptySet
<1>5. CASE created
  <2>1. Pump(tasks, {}, rows)
    BY <1>5 DEF BatchLands
  <2>2. UNCHANGED <<indexOf, handles, checks, fresh, picks>>
    BY <1>1
  <2>3. /\ creating' = FALSE /\ batch' \in BOOLEAN /\ aborted' \in BOOLEAN
        /\ haunted' \in SUBSET Keys /\ retry' \in Keys \cup {NoKey}
        /\ Indexed(rows) /\ {} \in SUBSET Transfers
    BY <1>1, <1>2, ListTyped
  <2>4. \A k \in Keys \ haunted' : Tells(k, rows[indexOf[k]], tasks, {}) /\ retry' # k
    BY <1>1, <1>3 DEF RowOf
  <2>5. Cardinality({}) <= FileConcurrency
    BY <1>4, UploadListAssumption
  <2> QED  BY <1>2, <1>4, <2>1, <2>2, <2>3, <2>4, <2>5, PumpStep
<1>6. CASE ~created
  <2>1. /\ running' = FALSE /\ tasks' = <<>> /\ active' = active /\ rows' = rows
        /\ disk' = disk /\ memory' = memory /\ evicted' = evicted
    BY <1>6 DEF BatchLands
  <2>2. ListShape'
    BY <1>1, <2>1 DEF ListInv, ListShape, Indexed, HasRow
  <2>3. RunInv'
    <3>1. Cardinality(active') <= FileConcurrency
      BY <1>2, <1>4, <2>1, UploadListAssumption
    <3>2. /\ tasks' \in Seq(Keys) /\ active' \in SUBSET Transfers /\ IsFiniteSet(active')
          /\ batch' \in BOOLEAN /\ running' \in BOOLEAN /\ creating' \in BOOLEAN
          /\ aborted' \in BOOLEAN
      <4>1. tasks' \in Seq(Keys)
        BY <2>1
      <4>2. active' \in SUBSET Transfers /\ IsFiniteSet(active')
        BY <1>2, <1>4, <2>1
      <4>3. batch' \in BOOLEAN /\ running' \in BOOLEAN /\ creating' \in BOOLEAN
        BY <1>1, <2>1
      <4> QED  BY <1>1, <1>2, <4>1, <4>2, <4>3
    <3>3. active' = {} /\ ~running' /\ ~creating' /\ tasks' = <<>>
      BY <1>1, <1>2, <2>1
    <3> QED  BY <3>1, <3>2, <3>3, Zenon DEF RunInv, OneRun
  <2>4. ASSUME NEW k \in Keys \ haunted'
        PROVE  Tells(k, RowOf(k), tasks, active)' /\ RetryWaits(k, RowOf(k))'
    <3>1. Tells(k, RowOf(k), tasks, {}) /\ retry' # k
      BY <1>1, <1>3
    <3>2. RowOf(k)' = RowOf(k) /\ (HasRow(k)' <=> HasRow(k))
      BY <1>1, <2>1 DEF RowOf, HasRow
    <3>3. Tells(k, RowOf(k), tasks, active)'
      BY <1>1, <1>2, <2>1, <3>1, <3>2
         DEF Tells, SendsIt, ChecksIt, WaitsOnce, StaysForgotten
    <3> QED  BY <3>1, <3>3 DEF RetryWaits
  <2> QED  BY <2>2, <2>3, <2>4 DEF ListInv, FilesTell
<1> QED  BY <1>5, <1>6

\* A transfer that ends says how in its row, which is its own, and its worker
\* goes on.
LEMMA TransferEndsStep ==
    ASSUME ListInv, NEW t \in active, NEW status \in {"done", "failed", "cancelled"},
           NEW discarded \in BOOLEAN, NEW expired \in BOOLEAN,
           TransferEnds(t, status, discarded, expired)
    PROVE  ListInv'
<1> DEFINE k == t.key
           old == RowOf(k)
           row == Changed(old, status, old.named, old.resumed, old.discarded \/ discarded)
           list == Patched(rows, k, row)
           sending == active \ {t}
<1>1. /\ indexOf' = indexOf /\ handles' = handles /\ haunted' = haunted
      /\ batch' = batch /\ creating' = creating
      /\ checks' = checks /\ fresh' = fresh /\ retry' = retry /\ picks' = picks
      /\ aborted' = (aborted \/ expired)
  BY DEF TransferEnds
<1>2. Pump(tasks, sending, list)
  BY Zenon DEF TransferEnds
<1>3. /\ active \in SUBSET Transfers /\ IsFiniteSet(active) /\ tasks \in Seq(Keys)
      /\ Cardinality(active) <= FileConcurrency
      /\ creating \in BOOLEAN /\ (creating => active = {}) /\ running
      /\ batch \in BOOLEAN /\ aborted \in BOOLEAN
  <2>1. active # {}
    OBVIOUS
  <2> QED  BY <2>1, Zenon DEF ListInv, RunInv, OneRun
<1>4. /\ Indexed(rows) /\ haunted \in SUBSET Keys /\ retry \in Keys \cup {NoKey}
      /\ \A j \in Keys : HasRow(j) => RowOf(j) \in ListRows /\ RowOf(j).key = j
      /\ \A j \in Keys \ haunted : Tells(j, RowOf(j), tasks, active) /\ RetryWaits(j, RowOf(j))
  BY ListTyped
<1>5. k \in Keys
  BY <1>3 DEF Transfers
<1>6. /\ sending \in SUBSET Transfers /\ IsFiniteSet(sending)
      /\ Cardinality(sending) <= FileConcurrency
  <2>1. sending \in SUBSET active
    OBVIOUS
  <2>2. IsFiniteSet(sending) /\ Cardinality(sending) <= Cardinality(active)
    BY <1>3, <2>1, FS_Subset
  <2>3. Cardinality(sending) \in Nat /\ Cardinality(active) \in Nat /\ FileConcurrency \in Nat
    BY <1>3, <2>2, FS_CardinalityType, UploadListAssumption
  <2> HIDE DEF sending
  <2>4. Cardinality(sending) <= FileConcurrency
    BY <1>3, <2>2, <2>3
  <2> QED  BY <1>3, <2>1, <2>2, <2>4
<1>7. HasRow(k) => /\ row \in ListRows /\ row.key = k /\ row.status = status
                   /\ row.named = old.named /\ row.resumed = old.resumed
  <2> SUFFICES ASSUME HasRow(k)
               PROVE  /\ row \in ListRows /\ row.key = k /\ row.status = status
                      /\ row.named = old.named /\ row.resumed = old.resumed
    OBVIOUS
  <2>1. old \in ListRows /\ old.key = k
    BY <1>4, <1>5
  <2> DEFINE d == old.discarded \/ discarded
             n == old.named
             m == old.resumed
  <2>2. n \in BOOLEAN /\ m \in BOOLEAN /\ d \in BOOLEAN /\ status \in Statuses
    BY <2>1 DEF ListRows, Statuses
  <2>3. row = [key |-> old.key, named |-> n, status |-> status, resumed |-> m, discarded |-> d]
    BY Zenon DEF Changed
  <2> HIDE DEF n, m, d, row
  <2>4. row \in ListRows
    BY <2>1, <2>2, <2>3 DEF ListRows
  <2>5. row.key = k /\ row.status = status /\ row.named = n /\ row.resumed = m
    BY <2>1, <2>3, Zenon
  <2> QED  BY <2>4, <2>5 DEF n, m
<1> HIDE DEF row
<1>8. /\ Indexed(list)
      /\ \A j \in Keys : HasRow(j) => list[indexOf[j]] = IF j = k THEN row ELSE rows[indexOf[j]]
  <2>1. k \in Keys /\ (HasRow(k) => row \in ListRows /\ row.key = k) /\ Indexed(rows)
    BY <1>4, <1>5, <1>7
  <2> HIDE DEF k
  <2> QED  BY ONLY <2>1, PatchedFacts DEF list
<1>9. ASSUME NEW j \in Keys \ haunted'
      PROVE  Tells(j, list[indexOf[j]], tasks, sending) /\ retry' # j
  <2> DEFINE new == list[indexOf[j]]
  <2>1. Tells(j, RowOf(j), tasks, active) /\ RetryWaits(j, RowOf(j)) /\ j \in Keys
    BY <1>1, <1>4
  <2>2. /\ SendsIt(j, RowOf(j), active) /\ ChecksIt(j, RowOf(j))
        /\ WaitsOnce(j, RowOf(j), tasks) /\ StaysForgotten(j, RowOf(j))
    BY <2>1 DEF Tells
  <2>3. HasRow(j) => new = IF j = k THEN row ELSE RowOf(j)
    BY <1>8, <2>1 DEF RowOf
  <2> HIDE DEF new, list
  <2>4. CASE j # k
    <3>1. \A u \in active : u.key = j => u \in sending
      BY <2>4
    <3>2. HasRow(j) => new = RowOf(j)
      BY <2>3, <2>4
    <3>3. SendsIt(j, new, sending)
      BY <2>2, <3>1, <3>2 DEF SendsIt
    <3>4. ChecksIt(j, new)
      BY <2>2, <3>2 DEF ChecksIt
    <3>5. WaitsOnce(j, new, tasks)
      BY <2>2, <3>2 DEF WaitsOnce
    <3>6. StaysForgotten(j, new)
      BY <2>2, <3>2 DEF StaysForgotten
    <3> QED  BY <1>1, <1>3, <2>1, <3>3, <3>4, <3>5, <3>6 DEF Tells, RetryWaits, new
  <2>5. CASE j = k
    <3>1. HasRow(j) /\ RowOf(j).status = "uploading" /\ t.named
      BY <2>2, <2>5 DEF SendsIt
    <3>2. new.status = status /\ new.named = RowOf(j).named /\ new.resumed = RowOf(j).resumed
      BY <1>7, <2>3, <2>5, <3>1
    <3>3. \A u \in sending : u.key # j
      <4> SUFFICES ASSUME NEW u \in sending, u.key = j PROVE FALSE
        OBVIOUS
      <4>1. u \in Transfers /\ t \in Transfers /\ u.named /\ u.key = t.key /\ u # t
        BY <1>3, <2>2, <2>5 DEF SendsIt
      <4> QED  BY <3>1, <4>1 DEF Transfers
    <3>4. RowOf(j).named
      BY <2>2, <3>1 DEF SendsIt
    <3>5. SendsIt(j, new, sending)
      BY <3>2, <3>3, <3>4 DEF SendsIt
    <3>6. \A c \in checks : c.key # j
      BY <2>2, <3>1 DEF ChecksIt
    <3>7. \A i \in DOMAIN tasks : tasks[i] # j
      BY <2>2, <3>1 DEF WaitsOnce
    <3>8. ChecksIt(j, new) /\ WaitsOnce(j, new, tasks)
      BY <3>6, <3>7 DEF ChecksIt, WaitsOnce
    <3>9. StaysForgotten(j, new)
      BY <2>2, <3>2 DEF StaysForgotten
    <3> QED  BY <1>1, <1>3, <2>1, <3>5, <3>8, <3>9 DEF Tells, RetryWaits, new
  <2> QED  BY <2>4, <2>5
<1>10. UNCHANGED <<indexOf, handles, checks, fresh, picks>>
  BY <1>1
<1>11. /\ creating' = FALSE /\ batch' \in BOOLEAN /\ aborted' \in BOOLEAN
       /\ haunted' \in SUBSET Keys /\ retry' \in Keys \cup {NoKey}
  BY <1>1, <1>3, <1>4
<1> HIDE DEF sending, list
<1> QED  BY <1>2, <1>3, <1>6, <1>8, <1>9, <1>10, <1>11, PumpStep

\* The keys of the rows of some statuses: each once.
LEMMA KeysInFacts ==
    ASSUME Indexed(rows), NEW statuses
    PROVE  /\ KeysIn(statuses) \in Seq(Keys)
           /\ \A i \in DOMAIN KeysIn(statuses) :
                 HasRow(KeysIn(statuses)[i]) /\ RowOf(KeysIn(statuses)[i]).status \in statuses
           /\ \A i, j \in DOMAIN KeysIn(statuses) :
                 KeysIn(statuses)[i] = KeysIn(statuses)[j] => i = j
<1> DEFINE I == {i \in DOMAIN rows : rows[i].status \in statuses}
           chosen == Only(rows, I)
           keys == KeysIn(statuses)
           c == Cardinality(I)
<1>1. /\ rows \in Seq(ListRows) /\ I \in SUBSET DOMAIN rows
      /\ DOMAIN rows = 1 .. Len(rows)
      /\ \A i \in DOMAIN rows : rows[i] \in ListRows /\ indexOf[rows[i].key] = i
  BY DEF Indexed
<1>2. keys = [i \in DOMAIN chosen |-> chosen[i].key]
  BY Zenon DEF KeysIn
<1>3. \A i \in I : rows[i].status \in statuses
  OBVIOUS
<1> HIDE DEF I
<1>4. /\ DOMAIN chosen = 1 .. c /\ c \in Nat
      /\ \A n \in 1 .. c : Nth(I, n) \in I /\ chosen[n] = rows[Nth(I, n)]
      /\ \A a, b \in 1 .. c : a < b => Nth(I, a) < Nth(I, b)
  BY <1>1, OnlyKeeps
<1> HIDE DEF chosen, keys
<1>5. DOMAIN keys = 1 .. c /\ \A n \in 1 .. c : keys[n] = rows[Nth(I, n)].key
  BY <1>2, <1>4
<1>6. \A n \in 1 .. c : Nth(I, n) \in DOMAIN rows /\ Nth(I, n) \in Nat /\ Nth(I, n) > 0
  BY <1>1, <1>4
<1>7. \A r \in ListRows : r.key \in Keys
  BY DEF ListRows
<1>8. \A n \in 1 .. c : keys[n] \in Keys /\ indexOf[keys[n]] = Nth(I, n)
  BY <1>1, <1>5, <1>6, <1>7
<1>9. keys \in Seq(Keys)
  <2>1. keys = [i \in 1 .. c |-> keys[i]]
    <3> DEFINE h(x) == chosen[x].key
    <3>1. DOMAIN chosen = 1 .. c
      BY <1>4
    <3>2. keys = [i \in 1 .. c |-> h(i)]
      BY <1>2, <3>1
    <3> HIDE DEF h
    <3> QED  BY <3>2, Zenon
  <2> QED  BY <1>4, <1>8, <2>1
<1>10. \A n \in 1 .. c : HasRow(keys[n]) /\ RowOf(keys[n]).status \in statuses
  BY <1>3, <1>4, <1>6, <1>8 DEF HasRow, RowOf
<1>11. \A a, b \in 1 .. c : keys[a] = keys[b] => a = b
  <2> SUFFICES ASSUME NEW a \in 1 .. c, NEW b \in 1 .. c, keys[a] = keys[b]
               PROVE  a = b
    OBVIOUS
  <2>1. Nth(I, a) = Nth(I, b)
    BY <1>8
  <2>2. a \in Nat /\ b \in Nat /\ Nth(I, a) \in Nat
    BY <1>4, <1>6
  <2>3. ~(a < b) /\ ~(b < a)
    BY <1>4, <1>6, <2>1
  <2> QED  BY <2>2, <2>3
<1> QED  BY <1>5, <1>9, <1>10, <1>11 DEF keys

\* The rows a button runs are not sent, and no retry of theirs is suspended
\* but of a file from then on haunted.
LEMMA RunRowsStep ==
    ASSUME ListInv, NEW statuses \in SUBSET {"queued", "failed", "cancelled"}, RunRows(statuses)
    PROVE  ListInv'
<1> DEFINE keys == KeysIn(statuses)
<1>1. /\ ~running /\ keys # <<>> /\ RunKeys(keys, rows)
      /\ indexOf' = indexOf /\ handles' = handles
      /\ checks' = checks /\ fresh' = fresh /\ retry' = retry /\ picks' = picks
      /\ haunted' = haunted \cup ({retry} \cap {rows[i].key : i \in DOMAIN rows})
  BY DEF RunRows
<1>2. /\ Indexed(rows) /\ retry \in Keys \cup {NoKey} /\ haunted \in SUBSET Keys
      /\ NoKey \notin Keys
      /\ \A k \in Keys : HasRow(k) => RowOf(k) \in ListRows /\ RowOf(k).key = k
      /\ \A k \in Keys \ haunted : Tells(k, RowOf(k), tasks, active) /\ RetryWaits(k, RowOf(k))
  BY ListTyped
<1>3. /\ keys \in Seq(Keys)
      /\ \A i \in DOMAIN keys : HasRow(keys[i]) /\ RowOf(keys[i]).status \in statuses
      /\ \A i, j \in DOMAIN keys : keys[i] = keys[j] => i = j
  BY <1>2, KeysInFacts
<1> HIDE DEF keys
<1>4. active = {}
  BY <1>1 DEF ListInv, RunInv, OneRun
<1>5. \A k \in Keys : HasRow(k) => k \in {rows[i].key : i \in DOMAIN rows}
  BY <1>2 DEF Indexed
<1>6. haunted' \in SUBSET Keys
  <2>1. rows \in Seq(ListRows) /\ \A r \in ListRows : r.key \in Keys
    BY <1>2 DEF Indexed, ListRows
  <2>2. \A i \in DOMAIN rows : rows[i].key \in Keys
    BY <2>1
  <2> QED  BY <1>1, <1>2, <2>2
<1>7. ASSUME NEW k \in Keys \ haunted'
      PROVE  Tells(k, rows[indexOf[k]], keys, {}) /\ retry' # k
  <2>1. k \in Keys /\ k \notin haunted
    BY <1>1
  <2>2. Tells(k, RowOf(k), tasks, active) /\ RetryWaits(k, RowOf(k))
    BY <1>2, <2>1
  <2>3. retry # k
    BY <1>1, <1>5, <2>1, <2>2 DEF RetryWaits
  <2>4. WaitsOnce(k, RowOf(k), keys)
    BY <1>3 DEF WaitsOnce
  <2>5. SendsIt(k, RowOf(k), {}) /\ ChecksIt(k, RowOf(k)) /\ StaysForgotten(k, RowOf(k))
    BY <1>4, <2>2 DEF Tells
  <2> QED  BY <1>1, <2>3, <2>4, <2>5 DEF Tells, RowOf
<1>8. UNCHANGED <<indexOf, handles, checks, fresh, picks>>
  BY <1>1
<1>9. retry' \in Keys \cup {NoKey}
  BY <1>1, <1>2
<1> QED  BY <1>1, <1>2, <1>3, <1>6, <1>7, <1>8, <1>9, RunKeysStep

\* A row queued again to be run alone: the list tells the truth of it and of
\* the others.
LEMMA QueuedAgain ==
    ASSUME ListInv, ~running, NEW k \in Keys, NEW row,
           HasRow(k) => row \in ListRows /\ row.key = k,
           k \notin haunted =>
               /\ HasRow(k) /\ RowOf(k).status \in {"failed", "cancelled"}
               /\ row.status = "queued" /\ row.named = RowOf(k).named
               /\ row.resumed => RowOf(k).resumed
    PROVE  /\ Indexed(Patched(rows, k, row))
           /\ \A j \in Keys \ haunted :
                 Tells(j, Patched(rows, k, row)[indexOf[j]], <<k>>, {})
<1> DEFINE list == Patched(rows, k, row)
<1>1. /\ Indexed(rows)
      /\ \A j \in Keys \ haunted : Tells(j, RowOf(j), tasks, active) /\ RetryWaits(j, RowOf(j))
  BY ListTyped
<1>2. active = {}
  BY DEF ListInv, RunInv, OneRun
<1>3. /\ Indexed(list)
      /\ \A j \in Keys : HasRow(j) => list[indexOf[j]] = IF j = k THEN row ELSE rows[indexOf[j]]
  <2>1. k \in Keys /\ (HasRow(k) => row \in ListRows /\ row.key = k) /\ Indexed(rows)
    BY <1>1
  <2> QED  BY ONLY <2>1, PatchedFacts DEF list
<1>4. ASSUME NEW j \in Keys \ haunted
      PROVE  Tells(j, list[indexOf[j]], <<k>>, {})
  <2> DEFINE new == list[indexOf[j]]
  <2>1. /\ SendsIt(j, RowOf(j), {}) /\ ChecksIt(j, RowOf(j))
        /\ WaitsOnce(j, RowOf(j), tasks) /\ StaysForgotten(j, RowOf(j))
    BY <1>1, <1>2 DEF Tells
  <2>2. HasRow(j) => new = IF j = k THEN row ELSE RowOf(j)
    BY <1>3 DEF RowOf
  <2>3. DOMAIN <<k>> = {1} /\ <<k>>[1] = k
    OBVIOUS
  <2> HIDE DEF new, list
  <2>4. CASE j # k
    <3>1. HasRow(j) => new = RowOf(j)
      BY <2>2, <2>4
    <3>2. SendsIt(j, new, {})
      BY <2>1, <3>1 DEF SendsIt
    <3>3. ChecksIt(j, new)
      BY <2>1, <3>1 DEF ChecksIt
    <3>4. WaitsOnce(j, new, <<k>>)
      BY <2>3, <2>4 DEF WaitsOnce
    <3>5. StaysForgotten(j, new)
      BY <2>1, <3>1 DEF StaysForgotten
    <3> QED  BY <3>2, <3>3, <3>4, <3>5 DEF Tells, new
  <2>5. CASE j = k
    <3>1. /\ HasRow(j) /\ RowOf(j).status \in {"failed", "cancelled"} /\ new = row
          /\ row.status = "queued" /\ row.named = RowOf(j).named
          /\ row.resumed => RowOf(j).resumed
      BY <2>2, <2>5
    <3>2. SendsIt(j, new, {})
      BY <2>1, <3>1 DEF SendsIt
    <3>3. ChecksIt(j, new)
      BY <2>1, <3>1 DEF ChecksIt
    <3>4. WaitsOnce(j, new, <<k>>)
      BY <2>3, <3>1 DEF WaitsOnce
    <3>5. StaysForgotten(j, new)
      BY <2>1, <3>1 DEF StaysForgotten
    <3> QED  BY <3>2, <3>3, <3>4, <3>5 DEF Tells, new
  <2> QED  BY <2>4, <2>5
<1> QED  BY <1>3, <1>4 DEF list

\* A retry at once, or one that forgets the discarded row first.
LEMMA RetryStep == ASSUME ListInv, NEW k \in Keys, Retry(k) PROVE ListInv'
<1> DEFINE row == [RowOf(k) EXCEPT !.status = "queued"]
<1>1. /\ ~running /\ retry = NoKey /\ HasRow(k) /\ RowOf(k).status \in {"failed", "cancelled"}
      /\ indexOf' = indexOf /\ handles' = handles /\ haunted' = haunted
      /\ checks' = checks /\ fresh' = fresh /\ picks' = picks
  BY DEF Retry
<1>2. /\ Indexed(rows) /\ haunted \in SUBSET Keys /\ NoKey \notin Keys
      /\ RowOf(k) \in ListRows /\ RowOf(k).key = k
      /\ \A j \in Keys \ haunted : Tells(j, RowOf(j), tasks, active) /\ RetryWaits(j, RowOf(j))
  BY <1>1, ListTyped
<1>3. CASE RowOf(k).discarded
  <2>1. /\ retry' = k /\ disk' = disk \ {k} /\ memory' = memory \ {k}
        /\ rows' = rows /\ evicted' = evicted
        /\ batch' = batch /\ running' = running /\ creating' = creating /\ tasks' = tasks
        /\ active' = active /\ aborted' = aborted
    BY <1>3 DEF Retry, Forget, runVars
  <2>2. ListShape'
    <3>1. Indexed(rows)'
      BY <1>1, <1>2, <2>1 DEF Indexed, HasRow
    <3>2. /\ handles' \in SUBSET Keys /\ haunted' \in SUBSET Keys /\ evicted' \in SUBSET Keys
          /\ disk' \in SUBSET Keys /\ memory' \in SUBSET disk' /\ checks' \in SUBSET ListChecks
          /\ retry' \in Keys \cup {NoKey} /\ picks' \in Nat
          /\ fresh' # NoFresh => fresh'.key \in Keys
      BY <1>1, <2>1, ListTyped
    <3> QED  BY <3>1, <3>2, Zenon DEF ListShape, NoFresh
  <2>3. RunInv'
    <3>1. RunInv /\ aborted' \in BOOLEAN
      BY <2>1 DEF ListInv, RunInv
    <3> QED  BY <2>1, <3>1, RunKept
  <2>4. ASSUME NEW j \in Keys \ haunted'
        PROVE  Tells(j, RowOf(j), tasks, active)' /\ RetryWaits(j, RowOf(j))'
    <3>1. Tells(j, RowOf(j), tasks, active) /\ RetryWaits(j, RowOf(j))
      BY <1>1, <1>2
    <3>2. (HasRow(j)' <=> HasRow(j)) /\ RowOf(j)' = RowOf(j)
      BY <1>1, <2>1 DEF HasRow, RowOf
    <3>3. CASE j # k
      BY <1>1, <2>1, <3>1, <3>2, <3>3, FileKept
    <3>4. CASE j = k
      <4>1. /\ SendsIt(k, RowOf(k), active)' /\ ChecksIt(k, RowOf(k))'
            /\ WaitsOnce(k, RowOf(k), tasks)'
        BY <1>1, <2>1, <3>1, <3>2, <3>4 DEF Tells, SendsIt, ChecksIt, WaitsOnce
      <4>2. StaysForgotten(k, RowOf(k))'
        BY <1>1, <2>1, <3>1, <3>2, <3>4 DEF Tells, StaysForgotten
      <4>3. RetryWaits(k, RowOf(k))'
        BY <1>1, <2>1, <3>2, <3>4 DEF RetryWaits
      <4> QED  BY <3>4, <4>1, <4>2, <4>3 DEF Tells
    <3> QED  BY <3>3, <3>4
  <2> QED  BY <2>2, <2>3, <2>4 DEF ListInv, FilesTell
<1>4. CASE ~RowOf(k).discarded
  <2> DEFINE list == Patched(rows, k, row)
  <2>1. RunKeys(<<k>>, list) /\ retry' = retry
    BY <1>4 DEF Retry
  <2>2. /\ row \in ListRows /\ row.key = k /\ row.status = "queued"
        /\ row.named = RowOf(k).named /\ row.resumed = RowOf(k).resumed
    BY <1>2 DEF ListRows, Statuses
  <2> HIDE DEF row
  <2>3. /\ Indexed(list)
        /\ \A j \in Keys \ haunted : Tells(j, list[indexOf[j]], <<k>>, {})
    BY <1>1, <2>2, QueuedAgain
  <2> HIDE DEF list
  <2>4. /\ UNCHANGED <<indexOf, handles, checks, fresh, picks>>
        /\ haunted' \in SUBSET Keys /\ retry' \in Keys \cup {NoKey}
        /\ <<k>> \in Seq(Keys) /\ <<k>> # <<>>
        /\ \A j \in Keys \ haunted' : Tells(j, list[indexOf[j]], <<k>>, {}) /\ retry' # j
    BY <1>1, <1>2, <2>1, <2>3
  <2> QED  BY <1>1, <2>1, <2>3, <2>4, RunKeysStep
<1> QED  BY <1>3, <1>4

\* The discarded row is forgotten and queued under a new id; it is run unless
\* another run has begun meanwhile, which haunts it.
LEMMA RetryForgottenStep == ASSUME ListInv, RetryForgotten PROVE ListInv'
<1> DEFINE k == retry
           row == Changed(RowOf(k), "queued", RowOf(k).named, FALSE, FALSE)
           list == Patched(rows, k, row)
<1>1. /\ retry # NoKey /\ retry' = NoKey
      /\ indexOf' = indexOf /\ handles' = handles /\ haunted' = haunted
      /\ checks' = checks /\ fresh' = fresh /\ picks' = picks
      /\ RunKeys(<<k>>, list)
  BY Zenon DEF RetryForgotten
<1>2. /\ Indexed(rows) /\ haunted \in SUBSET Keys /\ NoKey \notin Keys /\ k \in Keys
      /\ HasRow(k) => RowOf(k) \in ListRows /\ RowOf(k).key = k
      /\ \A j \in Keys \ haunted : Tells(j, RowOf(j), tasks, active) /\ RetryWaits(j, RowOf(j))
  BY <1>1, ListTyped
<1>3. k \notin haunted => ~running /\ HasRow(k) /\ RowOf(k).status \in {"failed", "cancelled"}
  BY <1>2 DEF RetryWaits
<1>4. HasRow(k) => /\ row \in ListRows /\ row.key = k /\ row.status = "queued"
                   /\ row.named = RowOf(k).named /\ ~row.resumed
  <2> SUFFICES ASSUME HasRow(k)
               PROVE  /\ row \in ListRows /\ row.key = k /\ row.status = "queued"
                      /\ row.named = RowOf(k).named /\ ~row.resumed
    OBVIOUS
  <2> DEFINE n == RowOf(k).named
  <2>1. RowOf(k).key = k /\ n \in BOOLEAN /\ "queued" \in Statuses
    BY <1>2 DEF ListRows, Statuses
  <2>2. row = [key |-> RowOf(k).key, named |-> n, status |-> "queued", resumed |-> FALSE,
               discarded |-> FALSE]
    BY Zenon DEF Changed
  <2> HIDE DEF n, row
  <2>3. row \in ListRows
    BY <1>2, <2>1, <2>2 DEF ListRows
  <2>4. row.key = k /\ row.status = "queued" /\ row.named = n /\ row.resumed = FALSE
    BY <2>1, <2>2, Zenon
  <2> QED  BY <2>3, <2>4 DEF n
<1>5. UNCHANGED <<indexOf, handles, checks, fresh, picks>> /\ k # NoKey
  BY <1>1
<1> HIDE DEF row, k
<1>6. CASE ~running
  <2>1. /\ Indexed(list)
        /\ \A j \in Keys \ haunted : Tells(j, list[indexOf[j]], <<k>>, {})
    BY <1>2, <1>3, <1>4, <1>6, QueuedAgain
  <2> HIDE DEF list
  <2>2. /\ haunted' \in SUBSET Keys /\ retry' \in Keys \cup {NoKey}
        /\ <<k>> \in Seq(Keys) /\ <<k>> # <<>>
        /\ \A j \in Keys \ haunted' : Tells(j, list[indexOf[j]], <<k>>, {}) /\ retry' # j
    BY <1>1, <1>2, <2>1
  <2> QED  BY <1>1, <1>5, <1>6, <2>1, <2>2, RunKeysStep
<1>7. CASE running
  <2>1. /\ rows' = list /\ disk' = disk /\ memory' = memory /\ evicted' = evicted
        /\ batch' = batch /\ running' = running /\ creating' = creating /\ tasks' = tasks
        /\ active' = active /\ aborted' = aborted
    BY <1>1, <1>7 DEF RunKeys, runVars
  <2>2. k \in haunted
    BY <1>3, <1>7
  <2>3. k \in Keys /\ (HasRow(k) => row \in ListRows /\ row.key = k) /\ Indexed(rows)
        /\ rows' = Patched(rows, k, row) /\ UNCHANGED indexOf
    BY <1>1, <1>2, <1>4, <2>1
  <2>4. /\ Indexed(rows)'
        /\ \A j \in Keys : (HasRow(j)' <=> HasRow(j))
        /\ \A j \in Keys : HasRow(j) => RowOf(j)' = IF j = k THEN row ELSE RowOf(j)
    BY <2>3, PatchLands
  <2>5. ListShape'
    <3>1. /\ handles' \in SUBSET Keys /\ haunted' \in SUBSET Keys /\ evicted' \in SUBSET Keys
          /\ disk' \in SUBSET Keys /\ memory' \in SUBSET disk' /\ checks' \in SUBSET ListChecks
          /\ retry' \in Keys \cup {NoKey} /\ picks' \in Nat
          /\ fresh' # NoFresh => fresh'.key \in Keys
      BY <1>1, <2>1, ListTyped
    <3> QED  BY <2>4, <3>1, Zenon DEF ListShape, NoFresh
  <2>6. RunInv'
    <3>1. RunInv /\ aborted' \in BOOLEAN
      BY <2>1 DEF ListInv, RunInv
    <3> QED  BY <2>1, <3>1, RunKept
  <2>7. ASSUME NEW j \in Keys \ haunted'
        PROVE  Tells(j, RowOf(j), tasks, active)' /\ RetryWaits(j, RowOf(j))'
    <3>1. Tells(j, RowOf(j), tasks, active) /\ RetryWaits(j, RowOf(j)) /\ j # k
      BY <1>1, <1>2, <2>2
    <3>2. (HasRow(j)' <=> HasRow(j)) /\ (HasRow(j) => RowOf(j)' = RowOf(j))
      BY <2>4, <3>1
    <3>3. retry' # j
      BY <1>1, <1>2
    <3> QED  BY <1>1, <2>1, <3>1, <3>2, <3>3, FileKept
  <2> QED  BY <2>5, <2>6, <2>7 DEF ListInv, FilesTell
<1> QED  BY <1>6, <1>7

\* What startFresh goes on to is a row's file.
LEMMA NextResumableFacts ==
    ASSUME NEW list \in Seq(ListRows), NEW at, NextResumable(list, at) # NoFresh
    PROVE  NextResumable(list, at).key \in Keys
<1> DEFINE found == {i \in DOMAIN list : i > at /\ list[i].resumed /\ list[i].status = "queued"}
           next == CHOOSE i \in found : \A j \in found : i <= j
<1>1. found # {}
  BY DEF NextResumable
<1>2. found \in SUBSET Nat /\ found \subseteq DOMAIN list
  OBVIOUS
<1>3. NextResumable(list, at) = [at |-> next, key |-> list[next].key]
  BY <1>1 DEF NextResumable
<1> HIDE DEF found
<1>4. PICK least \in found : \A j \in found : least <= j
  BY <1>1, <1>2, LeastNatural
<1>5. next \in found
  BY <1>4, Zenon
<1> HIDE DEF next
<1>6. NextResumable(list, at).key = list[next].key
  BY <1>3
<1>7. list[next] \in ListRows
  BY <1>2, <1>5
<1> QED  BY <1>6, <1>7 DEF ListRows

\* Forgetting more leaves what is told of each file.
LEMMA ForgetStep ==
    ASSUME ListInv, NEW list \in Seq(ListRows), NEW at, ForgetNext(NextResumable(list, at))
    PROVE  /\ fresh' # NoFresh => fresh'.key \in Keys
           /\ disk' \in SUBSET disk /\ memory' \in SUBSET disk' /\ memory' \in SUBSET memory
<1> DEFINE next == NextResumable(list, at)
<1>1. next # NoFresh => next.key \in Keys
  BY NextResumableFacts
<1>2. memory \in SUBSET disk
  BY ListTyped
<1> HIDE DEF next
<1>3. fresh' = next /\ IF next = NoFresh THEN UNCHANGED <<disk, memory>> ELSE Forget(next.key)
  BY Zenon DEF ForgetNext, next
<1>4. /\ disk' \in SUBSET disk /\ memory' \in SUBSET disk' /\ memory' \in SUBSET memory
  BY <1>2, <1>3 DEF Forget
<1> QED  BY <1>1, <1>3, <1>4 DEF NoFresh

\* A fresh start forgets the first row that would resume.
LEMMA StartFreshStep == ASSUME ListInv, StartFresh PROVE ListInv'
<1>1. /\ ForgetNext(NextResumable(rows, 0))
      /\ rows' = rows /\ indexOf' = indexOf /\ handles' = handles /\ haunted' = haunted
      /\ evicted' = evicted /\ checks' = checks /\ retry' = retry /\ picks' = picks
      /\ batch' = batch /\ running' = running /\ creating' = creating /\ tasks' = tasks
      /\ active' = active /\ aborted' = aborted
  BY Zenon DEF StartFresh, listVars, runVars
<1>2. rows \in Seq(ListRows) /\ Indexed(rows) /\ disk \in SUBSET Keys
  BY ListTyped
<1>3. /\ fresh' # NoFresh => fresh'.key \in Keys
      /\ disk' \in SUBSET disk /\ memory' \in SUBSET disk' /\ memory' \in SUBSET memory
  BY <1>1, <1>2, ForgetStep
<1>4. ListShape'
  <2>1. Indexed(rows)'
    BY <1>1, <1>2 DEF Indexed, HasRow
  <2>2. /\ handles' \in SUBSET Keys /\ haunted' \in SUBSET Keys /\ evicted' \in SUBSET Keys
        /\ disk' \in SUBSET Keys /\ memory' \in SUBSET disk' /\ checks' \in SUBSET ListChecks
        /\ retry' \in Keys \cup {NoKey} /\ picks' \in Nat
    BY <1>1, <1>2, <1>3, ListTyped
  <2> QED  BY <1>3, <2>1, <2>2, Zenon DEF ListShape, NoFresh
<1>5. RunInv'
  <2>1. RunInv /\ aborted' \in BOOLEAN
    BY <1>1 DEF ListInv, RunInv
  <2> QED  BY <1>1, <2>1, RunKept
<1>6. ASSUME NEW k \in Keys \ haunted'
      PROVE  Tells(k, RowOf(k), tasks, active)' /\ RetryWaits(k, RowOf(k))'
  <2>1. Tells(k, RowOf(k), tasks, active) /\ RetryWaits(k, RowOf(k))
    BY <1>1, ListTyped
  <2>2. (HasRow(k)' <=> HasRow(k)) /\ RowOf(k)' = RowOf(k)
    BY <1>1 DEF HasRow, RowOf
  <2> QED  BY <1>1, <1>3, <2>1, <2>2, FileKept
<1> QED  BY <1>4, <1>5, <1>6 DEF ListInv, FilesTell

\* A row forgotten resumes nothing, and the next one is forgotten.
LEMMA FreshForgottenStep == ASSUME ListInv, FreshForgotten PROVE ListInv'
<1> DEFINE k == fresh.key
           row == [RowOf(k) EXCEPT !.resumed = FALSE]
<1>1. /\ fresh # NoFresh /\ rows' = Patched(rows, k, row)
      /\ ForgetNext(NextResumable(rows', fresh.at))
      /\ indexOf' = indexOf /\ handles' = handles /\ haunted' = haunted
      /\ evicted' = evicted /\ checks' = checks /\ retry' = retry /\ picks' = picks
      /\ batch' = batch /\ running' = running /\ creating' = creating /\ tasks' = tasks
      /\ active' = active /\ aborted' = aborted
  BY Zenon DEF FreshForgotten, runVars
<1>2. /\ Indexed(rows) /\ disk \in SUBSET Keys /\ k \in Keys
      /\ HasRow(k) => RowOf(k) \in ListRows /\ RowOf(k).key = k
  BY <1>1, ListTyped
<1>3. HasRow(k) => /\ row \in ListRows /\ row.key = k /\ row.status = RowOf(k).status
                   /\ row.named = RowOf(k).named /\ ~row.resumed
  BY <1>2 DEF ListRows
<1> HIDE DEF row, k
<1>4. /\ Indexed(rows)'
      /\ \A j \in Keys : (HasRow(j)' <=> HasRow(j))
      /\ \A j \in Keys : HasRow(j) => RowOf(j)' = IF j = k THEN row ELSE RowOf(j)
  <2>1. k \in Keys /\ (HasRow(k) => row \in ListRows /\ row.key = k) /\ Indexed(rows)
        /\ rows' = Patched(rows, k, row) /\ UNCHANGED indexOf
    BY <1>1, <1>2, <1>3
  <2> QED  BY <2>1, PatchLands
<1>5. /\ fresh' # NoFresh => fresh'.key \in Keys
      /\ disk' \in SUBSET disk /\ memory' \in SUBSET disk' /\ memory' \in SUBSET memory
  <2> DEFINE new == rows'
  <2>1. new \in Seq(ListRows) /\ ForgetNext(NextResumable(new, fresh.at))
    BY <1>1, <1>4 DEF Indexed
  <2> HIDE DEF new
  <2> QED  BY <2>1, ForgetStep
<1>6. ListShape'
  <2>1. /\ handles' \in SUBSET Keys /\ haunted' \in SUBSET Keys /\ evicted' \in SUBSET Keys
        /\ disk' \in SUBSET Keys /\ memory' \in SUBSET disk' /\ checks' \in SUBSET ListChecks
        /\ retry' \in Keys \cup {NoKey} /\ picks' \in Nat
    BY <1>1, <1>2, <1>5, ListTyped
  <2> QED  BY <1>4, <1>5, <2>1, Zenon DEF ListShape, NoFresh
<1>7. RunInv'
  <2>1. RunInv /\ aborted' \in BOOLEAN
    BY <1>1 DEF ListInv, RunInv
  <2> QED  BY <1>1, <2>1, RunKept
<1>8. ASSUME NEW j \in Keys \ haunted'
      PROVE  Tells(j, RowOf(j), tasks, active)' /\ RetryWaits(j, RowOf(j))'
  <2>1. Tells(j, RowOf(j), tasks, active) /\ RetryWaits(j, RowOf(j))
    BY <1>1, ListTyped
  <2>2. (HasRow(j)' <=> HasRow(j)) /\ (HasRow(j) => RowOf(j)' = IF j = k THEN row ELSE RowOf(j))
    BY <1>4
  <2>3. CASE j # k
    BY <1>1, <1>5, <2>1, <2>2, <2>3, FileKept
  <2>4. CASE j = k
    <3> DEFINE old == RowOf(j)
               new == RowOf(j)'
    <3>1. /\ SendsIt(j, old, active) /\ ChecksIt(j, old) /\ WaitsOnce(j, old, tasks)
          /\ StaysForgotten(j, old) /\ RetryWaits(j, old)
      BY <2>1, <2>4 DEF Tells
    <3>2. (HasRow(j)' <=> HasRow(j)) /\ (HasRow(j) => /\ new.status = old.status
                                                      /\ new.named = old.named /\ ~new.resumed)
      BY <1>3, <2>2, <2>4
    <3> HIDE DEF old, new
    <3>3. SendsIt(j, RowOf(j), active)'
      BY <1>1, <3>1, <3>2 DEF SendsIt, new
    <3>4. ChecksIt(j, RowOf(j))'
      BY <1>1, <3>1, <3>2 DEF ChecksIt, new
    <3>5. WaitsOnce(j, RowOf(j), tasks)'
      BY <1>1, <3>1, <3>2 DEF WaitsOnce, new
    <3>6. StaysForgotten(j, RowOf(j))'
      BY <1>1, <1>5, <3>1, <3>2 DEF StaysForgotten, new
    <3>7. RetryWaits(j, RowOf(j))'
      BY <1>1, <3>1, <3>2 DEF RetryWaits, new
    <3> QED  BY <2>4, <3>3, <3>4, <3>5, <3>6, <3>7 DEF Tells
  <2> QED  BY <2>3, <2>4
<1> QED  BY <1>6, <1>7, <1>8 DEF ListInv, FilesTell

\* An empty list tells the truth.
LEMMA UploadListStart == UploadListInit => ListInv
<1> SUFFICES ASSUME UploadListInit PROVE ListInv
  OBVIOUS
<1>1. /\ rows = <<>> /\ indexOf = [k \in Keys |-> 0] /\ handles = {}
      /\ disk = Started /\ memory = {} /\ checks = {}
      /\ batch = FALSE /\ running = FALSE /\ creating = FALSE
      /\ tasks = <<>> /\ active = {} /\ aborted = FALSE
      /\ fresh = NoFresh /\ retry = NoKey
      /\ picks = 0 /\ haunted = {} /\ evicted = {}
  BY DEF UploadListInit
<1>2. \A k \in Keys : ~HasRow(k)
  BY <1>1 DEF HasRow
<1>3. Indexed(rows)
  BY <1>1, <1>2 DEF Indexed
<1>4. ListShape
  BY <1>1, <1>3, UploadListAssumption DEF ListShape
<1>5. RunInv
  <2>1. IsFiniteSet(active) /\ Cardinality(active) <= FileConcurrency
    BY <1>1, FS_EmptySet, UploadListAssumption
  <2>2. tasks \in Seq(Keys) /\ active \in SUBSET Transfers
    BY <1>1
  <2>3. batch \in BOOLEAN /\ running \in BOOLEAN /\ creating \in BOOLEAN /\ aborted \in BOOLEAN
    BY <1>1
  <2>4. active = {} /\ ~running /\ ~creating /\ tasks = <<>>
    BY <1>1
  <2> QED  BY <2>1, <2>2, <2>3, <2>4, Zenon DEF RunInv, OneRun
<1>6. ASSUME NEW k \in Keys \ haunted
      PROVE  Tells(k, RowOf(k), tasks, active) /\ RetryWaits(k, RowOf(k))
  <2>1. retry # k
    BY <1>1, UploadListAssumption
  <2> QED  BY <1>1, <1>2, <2>1
           DEF Tells, SendsIt, ChecksIt, WaitsOnce, StaysForgotten, RetryWaits
<1> QED  BY <1>4, <1>5, <1>6 DEF ListInv, FilesTell

\* Every step leaves the invariant.
LEMMA UploadListStep == ListInv /\ [UploadListNext]_uploadListVars => ListInv'
<1> SUFFICES ASSUME ListInv, [UploadListNext]_uploadListVars PROVE ListInv'
  OBVIOUS
<1>1. ASSUME NEW k \in Keys, Pick(k) PROVE ListInv'
  BY <1>1, PickFile
<1>2. ASSUME NEW k \in Keys, RemoveRow(k) PROVE ListInv'
  BY <1>2, RemoveRowStep
<1>3. ASSUME NEW k \in Keys, Retry(k) PROVE ListInv'
  BY <1>3, RetryStep
<1>4. ASSUME NEW c \in checks, LookupLands(c) PROVE ListInv'
  BY <1>4, LookupLandsStep
<1>5. ASSUME NEW c \in checks, NEW accepted \in BOOLEAN, ReadLands(c, accepted) PROVE ListInv'
  BY <1>5, ReadLandsStep
<1>6. ASSUME RunRows({"queued"}) \/ RunRows({"failed", "cancelled"}) PROVE ListInv'
  <2>1. /\ {"queued"} \in SUBSET {"queued", "failed", "cancelled"}
        /\ {"failed", "cancelled"} \in SUBSET {"queued", "failed", "cancelled"}
    OBVIOUS
  <2> QED  BY <1>6, <2>1, RunRowsStep
<1>7. ASSUME NEW created \in BOOLEAN, BatchLands(created) PROVE ListInv'
  BY <1>7, BatchLandsStep
<1>8. ASSUME NEW t \in active,
             \/ TransferEnds(t, "done", FALSE, FALSE)
             \/ TransferEnds(t, "cancelled", FALSE, FALSE)
             \/ \E discarded \in BOOLEAN : TransferEnds(t, "failed", discarded, FALSE)
             \/ TransferEnds(t, "failed", FALSE, TRUE)
      PROVE  ListInv'
  <2>1. PICK status \in {"done", "failed", "cancelled"}, discarded \in BOOLEAN, expired \in BOOLEAN :
            TransferEnds(t, status, discarded, expired)
    BY <1>8
  <2> QED  BY <2>1, TransferEndsStep
<1>9. ASSUME Cancel PROVE ListInv'
  BY <1>9, CancelStep
<1>10. ASSUME RetryForgotten PROVE ListInv'
  BY <1>10, RetryForgottenStep
<1>11. ASSUME StartFresh PROVE ListInv'
  BY <1>11, StartFreshStep
<1>12. ASSUME FreshForgotten PROVE ListInv'
  BY <1>12, FreshForgottenStep
<1>13. ASSUME UNCHANGED uploadListVars PROVE ListInv'
  <2>1. /\ indexOf' = indexOf /\ rows' = rows /\ handles' = handles /\ haunted' = haunted
        /\ evicted' = evicted /\ disk' = disk /\ memory' = memory /\ checks' = checks
        /\ fresh' = fresh /\ retry' = retry /\ picks' = picks
        /\ batch' = batch /\ running' = running /\ creating' = creating /\ tasks' = tasks
        /\ active' = active /\ aborted' = aborted
    BY <1>13 DEF uploadListVars, listVars, runVars, otherVars
  <2>2. ListShape'
    BY <2>1 DEF ListInv, ListShape, Indexed, HasRow
  <2>3. RunInv'
    <3>1. RunInv /\ aborted' \in BOOLEAN
      BY <2>1 DEF ListInv, RunInv
    <3> QED  BY <2>1, <3>1, RunKept
  <2>4. ASSUME NEW k \in Keys \ haunted'
        PROVE  Tells(k, RowOf(k), tasks, active)' /\ RetryWaits(k, RowOf(k))'
    <3>1. Tells(k, RowOf(k), tasks, active) /\ RetryWaits(k, RowOf(k))
      BY <2>1, ListTyped
    <3>2. (HasRow(k)' <=> HasRow(k)) /\ RowOf(k)' = RowOf(k)
      BY <2>1 DEF HasRow, RowOf
    <3> QED  BY <2>1, <3>1, <3>2, FileKept
  <2> QED  BY <2>2, <2>3, <2>4 DEF ListInv, FilesTell
<1> QED  BY <1>1, <1>2, <1>3, <1>4, <1>5, <1>6, <1>7, <1>8, <1>9, <1>10, <1>11, <1>12, <1>13, Zenon
         DEF UploadListNext

\* The list, its run and what is told of each file, at every time.
THEOREM UploadListInvariant == UploadListSpec => []ListInv
BY UploadListStart, UploadListStep, PTL DEF UploadListSpec

\* One run at a time, of FILE_CONCURRENCY transfers at most, and no task left
\* while a worker is free (pump in upload-queue.ts).
THEOREM RunIsOne == UploadListSpec => []OneRun
<1>1. ListInv => OneRun
  BY DEF ListInv, RunInv
<1> QED  BY <1>1, UploadListInvariant, PTL

\* What a search of the rows finds is what the index holds.
LEMMA RowsAreIndexed == ASSUME ListInv PROVE RowsIndexed
<1> DEFINE listed == {k \in Keys : HasRow(k)}
           keyAt == [i \in 1 .. Len(rows) |-> rows[i].key]
<1>1. Indexed(rows)
  BY ListTyped
<1>2. \A r \in ListRows : r.key \in Keys
  BY DEF ListRows
<1>3. /\ DOMAIN rows = 1 .. Len(rows) /\ Len(rows) \in Nat
      /\ \A i \in DOMAIN rows : rows[i] \in ListRows
  BY <1>1 DEF Indexed
<1>4. \A i \in DOMAIN rows : rows[i].key \in Keys
  BY <1>2, <1>3
<1>5. /\ indexOf \in [Keys -> Nat]
      /\ \A k \in listed : indexOf[k] \in DOMAIN rows /\ rows[indexOf[k]].key = k
      /\ \A i \in DOMAIN rows : indexOf[rows[i].key] = i
  BY <1>1 DEF Indexed
<1>6. \A i \in DOMAIN rows : rows[i].key \in listed
  BY <1>3, <1>4, <1>5 DEF HasRow
<1>7. indexOf = Positions(rows)
  <2>1. ASSUME NEW k \in Keys
        PROVE  indexOf[k] = IF \E i \in DOMAIN rows : rows[i].key = k
                            THEN CHOOSE i \in DOMAIN rows : rows[i].key = k ELSE 0
    <3>1. CASE HasRow(k)
      <4>1. indexOf[k] \in DOMAIN rows /\ rows[indexOf[k]].key = k
        BY <1>5, <3>1
      <4>2. \A i \in DOMAIN rows : rows[i].key = k => i = indexOf[k]
        BY <1>5
      <4> QED  BY <4>1, <4>2
    <3>2. CASE ~HasRow(k)
      <4>1. indexOf[k] = 0
        BY <1>5, <3>2 DEF HasRow
      <4>2. ~\E i \in DOMAIN rows : rows[i].key = k
        BY <1>3, <1>5, <4>1
      <4> QED  BY <4>1, <4>2
    <3> QED  BY <3>1, <3>2
  <2> QED  BY <1>5, <2>1 DEF Positions
<1>8. Len(rows) = Cardinality(listed)
  <2>1. keyAt \in Bijection(1 .. Len(rows), listed)
    <3>1. keyAt \in [1 .. Len(rows) -> listed]
      BY <1>3, <1>6
    <3>2. \A i, j \in 1 .. Len(rows) : keyAt[i] = keyAt[j] => i = j
      BY <1>3, <1>5
    <3>3. \A k \in listed : \E i \in 1 .. Len(rows) : keyAt[i] = k
      BY <1>3, <1>5
    <3> QED  BY <3>1, <3>2, <3>3 DEF Bijection, Injection, Surjection, IsInjective
  <2>2. ExistsBijection(1 .. Len(rows), listed)
    BY <2>1 DEF ExistsBijection
  <2> QED  BY <1>3, <2>2, FS_CountingElements
<1> QED  BY <1>7, <1>8 DEF RowsIndexed

\* The list tells the truth of itself and of the run, whatever is removed, picked, checked,
\* retried, cancelled or started afresh meanwhile (upload-engine.ts); of the run it
\* tells of the files that have one check and one task at most.
THEOREM ListTellsTheRun == UploadListSpec => []ListTellsRun
<1>1. ListInv => ListTellsRun
  <2> SUFFICES ASSUME ListInv PROVE ListTellsRun
    OBVIOUS
  <2>1. \A k \in Keys \ haunted :
           SendsIt(k, RowOf(k), active) /\ StaysForgotten(k, RowOf(k))
    BY ListTyped DEF Tells
  <2>2. \A t \in active : t.key \in Keys
    <3>1. active \in SUBSET Transfers
      BY Zenon DEF ListInv, RunInv
    <3> QED  BY <3>1 DEF Transfers
  <2>3. ASSUME NEW k \in Keys \ haunted
        PROVE  (\E t \in active : t.key = k) <=> (HasRow(k) /\ RowOf(k).status = "uploading")
    BY <2>1 DEF SendsIt
  <2>4. ASSUME NEW t \in active, t.key \notin haunted
        PROVE  t.named /\ ChipPhase = "active"
    <3>1. HasRow(t.key) /\ RowOf(t.key).status = "uploading" /\ t.named
      BY <2>1, <2>2, <2>4 DEF SendsIt
    <3>2. indexOf[t.key] \in DOMAIN rows
      BY <2>2, <3>1, ListTyped DEF Indexed
    <3>3. indexOf[t.key] \in With({"checking", "queued", "uploading"})
      BY <3>1, <3>2 DEF With, RowOf
    <3> QED  BY <3>1, <3>3 DEF ChipPhase
  <2>5. EvictedIsForgotten
    BY <2>1, ListTyped DEF StaysForgotten, EvictedIsForgotten
  <2>6. RowTellsTransfer
    BY <2>3, <2>4 DEF RowTellsTransfer
  <2> QED  BY <2>5, <2>6, RowsAreIndexed DEF ListTellsRun
<1> QED  BY <1>1, UploadListInvariant, PTL

\* The list, its journal and its checks stay in their types, and createBatch is
\* waited for by a run that sends nothing yet (upload-store.ts, upload-queue.ts).
THEOREM UploadListTypes == UploadListSpec => []UploadListTypeOK
<1>1. ASSUME ListInv PROVE UploadListTypeOK
  <2>1. /\ rows \in Seq(ListRows) /\ disk \in SUBSET Keys /\ memory \in SUBSET disk
        /\ checks \in SUBSET ListChecks
    BY <1>1, ListTyped
  <2>2. creating => running /\ active = {}
    BY <1>1, Zenon DEF ListInv, RunInv
  <2>3. \A r \in ListRows : r.status \in Statuses
    BY DEF ListRows
  <2>4. \A i \in DOMAIN rows : rows[i].status \in Statuses
    BY <2>1, <2>3
  <2>5. \A c \in checks : c.step \in {"reading", "lookup"}
    BY <2>1 DEF ListChecks
  <2> QED  BY <2>1, <2>2, <2>4, <2>5 DEF UploadListTypeOK
<1> QED  BY <1>1, UploadListInvariant, PTL

(***************************************************************************)
(* What lies over the page, for any number of action sheets and of taps.   *)
(* overlay.ts counts its locks and each lock remembers what it made inert; *)
(* nothing in the code ties the count to the panels that are open.  The    *)
(* invariant does: a lock per open panel, the drawer's lock is all that is *)
(* inert, and no timer of an exit runs under an open drawer.               *)
(***************************************************************************)

Panels == {"page", "chip", "scrim"} \cup Sheets

Open    == IsDrawerOpen(drawer)
SheetUp == openSheet # NoSheet

Shapes ==
    /\ held.saved = "unset" /\ held.inert \subseteq Panels
    /\ kids \subseteq Panels /\ {"page", "chip"} \subseteq kids
    /\ drawer.hidden \in BOOLEAN /\ drawer.closing \in BOOLEAN
    /\ drawer.timer \in BOOLEAN /\ drawer.expanded \in BOOLEAN
    /\ drawerScrim.timer \in BOOLEAN
    /\ sheets \in [Sheets -> {"new", "open", "leaving", "gone"}]
    /\ openSheet \in Sheets \cup {NoSheet}
    /\ drags \subseteq Sheets \cup {"drawer"}
    /\ submitting \subseteq Sheets

\* overlay.ts: one lock per open panel, and the overflow hidden under any.
LocksCounted ==
    /\ held.depth = (IF Open THEN 1 ELSE 0) + (IF SheetUp THEN 1 ELSE 0)
    /\ held.overflow = IF Open \/ SheetUp THEN "hidden" ELSE "unset"
    /\ bodyClass \subseteq {"queueopen", "sheet-open"}
    /\ "queueopen" \in bodyClass <=> Open
    /\ "sheet-open" \in bodyClass <=> SheetUp

\* What is inert is what the drawer's lock would release; no sheet that may open
\* again is in it.
DrawerHolds ==
    /\ ~Open => held.inert = {} /\ drawerLock = NoLock
    /\ Open => /\ held.inert = drawerLock
               /\ {"page", "chip"} \subseteq drawerLock
               /\ \A s \in Sheets \cap drawerLock : sheets[s] \in {"leaving", "gone"}

\* A timer that takes the drawer or its scrim away never runs while it is open.
ExitsAreOver ==
    /\ drawer.expanded <=> Open
    /\ drawer.timer => ~Open
    /\ ~drawer.timer => (drawer.hidden <=> ~Open)
    /\ drawerScrim.timer => ~Open
    /\ ~drawerScrim.timer => ("scrim" \in kids <=> Open)

\* At most the last sheet opened is open, and a sheet is in the body until its
\* exit is over.
SheetsInBody ==
    /\ \A s \in Sheets : sheets[s] = "open" <=> s = openSheet
    /\ \A s \in Sheets : sheets[s] \in {"open", "leaving"} <=> s \in kids

OInv == Shapes /\ LocksCounted /\ DrawerHolds /\ ExitsAreOver /\ SheetsInBody

-----------------------------------------------------------------------------
\* The invariant says all that the run checks.
LEMMA OInvSuffices == OInv => OverlaysTypeOK /\ PageFollowsOverlays
<1> SUFFICES ASSUME OInv PROVE OverlaysTypeOK /\ PageFollowsOverlays
  OBVIOUS
<1>1. held.depth \in 0 .. 2
  BY DEF OInv, LocksCounted
<1>2. OverlaysTypeOK
  BY <1>1 DEF OInv, Shapes, LocksCounted, SheetsInBody, OverlaysTypeOK, Panels
<1>3. {s \in Sheets : sheets[s] = "open"} = {openSheet} \ {NoSheet}
  BY OverlaysAssumption DEF OInv, Shapes, SheetsInBody
<1>4. openSheet \notin held.inert
  BY OverlaysAssumption DEF OInv, Shapes, DrawerHolds, SheetsInBody, Panels
<1>5. {"page", "chip"} \cap held.inert = IF Open THEN {"page", "chip"} ELSE {}
  BY DEF OInv, DrawerHolds
<1>6. drawer.expanded = Open
  <2>1. drawer.expanded \in BOOLEAN
    BY DEF OInv, Shapes
  <2>2. drawer.expanded <=> Open
    BY DEF OInv, ExitsAreOver
  <2>3. QED
    BY <2>1, <2>2
<1>10. ~drawer.timer => drawer.hidden = ~Open
  <2>1. drawer.hidden \in BOOLEAN /\ (~drawer.timer => (drawer.hidden <=> ~Open))
    BY DEF OInv, Shapes, ExitsAreOver
  <2>2. QED
    BY <2>1
<1>7. /\ held.depth = (IF Open THEN 1 ELSE 0) + (IF SheetUp THEN 1 ELSE 0)
      /\ held.overflow = IF Open \/ SheetUp THEN "hidden" ELSE "unset"
      /\ bodyClass = (IF Open THEN {"queueopen"} ELSE {})
                       \cup (IF SheetUp THEN {"sheet-open"} ELSE {})
  BY DEF OInv, LocksCounted
<1>8. ~drawerScrim.timer => ("scrim" \in kids <=> Open)
  BY DEF OInv, ExitsAreOver
<1>9. QED
  BY <1>2, <1>3, <1>4, <1>5, <1>6, <1>7, <1>8, <1>10 DEF PageFollowsOverlays, Open, SheetUp

\* Nothing is open at the start.
LEMMA OverlaysStart == OverlaysInit => OInv
<1> SUFFICES ASSUME OverlaysInit PROVE OInv
  OBVIOUS
<1>1. /\ drawer.hidden = TRUE /\ drawer.closing = FALSE
      /\ drawer.timer = FALSE /\ drawer.expanded = FALSE
      /\ drawerScrim.timer = FALSE
  BY DEF OverlaysInit
<1>2. /\ held.depth = 0 /\ held.saved = "unset" /\ held.overflow = "unset" /\ held.inert = {}
      /\ kids = {"page", "chip"} /\ bodyClass = {} /\ drawerLock = NoLock
      /\ sheets = [s \in Sheets |-> "new"] /\ openSheet = NoSheet
      /\ drags = {} /\ submitting = {}
  BY DEF OverlaysInit
<1>3. ~Open /\ ~SheetUp
  BY <1>1, <1>2 DEF Open, IsDrawerOpen, SheetUp
<1>4. Shapes
  BY <1>1, <1>2 DEF Shapes, Panels
<1>5. LocksCounted /\ DrawerHolds
  BY <1>2, <1>3 DEF LocksCounted, DrawerHolds
<1>6. ExitsAreOver
  BY <1>1, <1>2, <1>3 DEF ExitsAreOver
<1>7. SheetsInBody
  BY <1>2, OverlaysAssumption DEF SheetsInBody
<1>8. QED
  BY <1>4, <1>5, <1>6, <1>7 DEF OInv

-----------------------------------------------------------------------------
(* The drawer.                                                             *)

\* Opening or shutting the drawer, in whatever state it is.
LEMMA DrawerSet ==
    ASSUME OInv, NEW b \in BOOLEAN, b => ~Open /\ ~SheetUp,
           SetDrawerOpen(b),
           drags' \subseteq Sheets \cup {"drawer"}, UNCHANGED submitting
    PROVE  OInv'
<1>1. /\ drawer' = [hidden |-> drawer.hidden /\ ~b, closing |-> ~b,
                    timer |-> ~b, expanded |-> b]
      /\ bodyClass' = IF b THEN bodyClass \cup {"queueopen"} ELSE bodyClass \ {"queueopen"}
      /\ b => ApplyDrawerOverlay(held, kids)
      /\ ~b => ClearDrawerOverlay(held, kids)
      /\ UNCHANGED <<sheets, openSheet>>
  BY DEF SetDrawerOpen
<1>2. /\ drawer'.hidden \in BOOLEAN /\ drawer'.closing \in BOOLEAN
      /\ drawer'.timer \in BOOLEAN /\ drawer'.expanded \in BOOLEAN
      /\ drawer'.hidden <=> drawer.hidden /\ ~b
      /\ drawer'.closing <=> ~b
      /\ drawer'.timer <=> ~b
      /\ drawer'.expanded <=> b
  BY <1>1, Zenon
<1>3. Open' <=> b
  BY <1>2 DEF Open, IsDrawerOpen
<1>4. SheetUp' <=> SheetUp
  BY <1>1 DEF SheetUp
<1>5. CASE b
  <2>1. /\ held.inert = {} /\ drawerLock = NoLock /\ held.saved = "unset"
        /\ ~Open /\ ~SheetUp /\ held.depth = 0 /\ held.overflow = "unset"
    BY <1>5 DEF OInv, DrawerHolds, Shapes, LocksCounted
  <2>2. ApplyDrawerOverlay(held, kids)
    BY <1>1, <1>5
  <2>3. /\ held' = LockPage(held, kids) /\ drawerLock' = kids
        /\ kids' = kids \cup {"scrim"}
        /\ drawerScrim' = [up |-> drawerScrim.up, timer |-> FALSE,
                           frame |-> drawerScrim.frame \/ ~drawerScrim.up]
    BY <2>1, <2>2 DEF ApplyDrawerOverlay, Released
  <2>4. /\ held'.depth = 1 /\ held'.saved = "unset" /\ held'.overflow = "hidden"
        /\ held'.inert = kids
    BY <2>1, <2>3 DEF LockPage
  <2>5. drawerScrim'.timer \in BOOLEAN /\ ~drawerScrim'.timer
    BY <2>3
  <2>6. Shapes'
    BY <1>1, <1>2, <2>3, <2>4, <2>5 DEF OInv, Shapes, Panels
  <2>7. LocksCounted'
    BY <1>1, <1>3, <1>4, <1>5, <2>1, <2>4 DEF OInv, LocksCounted
  <2>8. DrawerHolds'
    <3>1. \A s \in Sheets \cap kids : sheets[s] \in {"leaving", "gone"}
      BY <2>1, OverlaysAssumption DEF OInv, SheetsInBody, SheetUp
    <3>2. {"page", "chip"} \subseteq kids /\ sheets' = sheets
      BY <1>1 DEF OInv, Shapes
    <3>3. QED
      BY <1>3, <1>5, <2>3, <2>4, <3>1, <3>2 DEF DrawerHolds
  <2>9. ExitsAreOver'
    BY <1>2, <1>3, <1>5, <2>3, <2>5 DEF ExitsAreOver
  <2>10. SheetsInBody'
    BY <1>1, <2>3, OverlaysAssumption DEF OInv, SheetsInBody
  <2>11. QED
    BY <2>6, <2>7, <2>8, <2>9, <2>10 DEF OInv
<1>6. CASE ~b
  <2>1. /\ held' = Released(held, drawerLock) /\ drawerLock' = NoLock /\ kids' = kids
        /\ drawerScrim' = [up |-> FALSE, timer |-> TRUE, frame |-> drawerScrim.frame]
    BY <1>1, <1>6 DEF ClearDrawerOverlay
  <2>2. /\ held'.saved = "unset" /\ held'.inert = {}
        /\ held'.depth = (IF SheetUp THEN 1 ELSE 0)
        /\ held'.overflow = IF SheetUp THEN "hidden" ELSE "unset"
    <3>1. CASE Open
      <4>1. drawerLock # NoLock
        BY <3>1 DEF OInv, DrawerHolds, NoLock
      <4>2. held' = [depth    |-> held.depth - 1,
                     saved    |-> held.saved,
                     overflow |-> IF held.depth = 1 THEN held.saved ELSE held.overflow,
                     inert    |-> held.inert \ drawerLock]
        BY <2>1, <4>1 DEF Released
      <4>3. held.inert \ drawerLock = {}
        BY <3>1 DEF OInv, DrawerHolds
      <4>4. QED
        BY <3>1, <4>2, <4>3 DEF OInv, Shapes, LocksCounted
    <3>2. CASE ~Open
      <4>1. held' = held
        BY <2>1, <3>2 DEF OInv, DrawerHolds, Released
      <4>2. QED
        BY <3>2, <4>1 DEF OInv, Shapes, LocksCounted, DrawerHolds
    <3>3. QED
      BY <3>1, <3>2
  <2>3. drawerScrim'.timer \in BOOLEAN /\ drawerScrim'.timer
    BY <2>1
  <2>4. Shapes'
    BY <1>1, <1>2, <2>1, <2>2, <2>3 DEF OInv, Shapes
  <2>5. LocksCounted'
    BY <1>1, <1>3, <1>4, <1>6, <2>2 DEF OInv, LocksCounted
  <2>6. DrawerHolds'
    BY <1>3, <1>6, <2>1, <2>2 DEF DrawerHolds
  <2>7. ExitsAreOver'
    BY <1>2, <1>3, <1>6, <2>3 DEF ExitsAreOver
  <2>8. SheetsInBody'
    BY <1>1, <2>1 DEF OInv, SheetsInBody
  <2>9. QED
    BY <2>4, <2>5, <2>6, <2>7, <2>8 DEF OInv
<1>7. QED
  BY <1>5, <1>6

-----------------------------------------------------------------------------
(* The sheets.                                                             *)

\* What a step that leaves the drawer alone has to show.
LEMMA SheetStep ==
    ASSUME OInv, UNCHANGED <<drawer, drawerScrim, drawerLock>>,
           Shapes', LocksCounted', SheetsInBody', held'.inert = held.inert,
           "scrim" \in kids' <=> "scrim" \in kids,
           \A s \in Sheets : sheets[s] \in {"leaving", "gone"}
                                => sheets'[s] \in {"leaving", "gone"}
    PROVE  OInv'
<1>1. Open' <=> Open
  BY DEF Open
<1>2. DrawerHolds'
  BY <1>1 DEF OInv, DrawerHolds
<1>3. ExitsAreOver'
  BY <1>1 DEF OInv, ExitsAreOver
<1>4. QED
  BY <1>2, <1>3 DEF OInv

\* Closing a sheet, again or after another has opened, costs one lock at most.
LEMMA SheetCloses ==
    ASSUME OInv, NEW s \in Sheets, NEW immediate \in BOOLEAN, CloseSheet(s, immediate),
           drags' \subseteq Sheets \cup {"drawer"}, submitting' \subseteq Sheets,
           UNCHANGED <<drawer, drawerScrim, drawerLock>>
    PROVE  OInv'
<1>1. CASE sheets[s] # "open"
  <2>1. UNCHANGED <<held, kids, bodyClass, sheets, openSheet>>
    BY <1>1 DEF CloseSheet
  <2>2. (Open' <=> Open) /\ (SheetUp' <=> SheetUp)
    BY <2>1 DEF Open, SheetUp
  <2>3. Shapes' /\ LocksCounted' /\ SheetsInBody'
    BY <2>1, <2>2 DEF OInv, Shapes, LocksCounted, SheetsInBody
  <2>4. QED
    BY <2>1, <2>3, SheetStep
<1>2. CASE sheets[s] = "open"
  <2>1. /\ sheets' = [sheets EXCEPT ![s] = IF immediate THEN "gone" ELSE "leaving"]
        /\ openSheet' = NoSheet
        /\ held' = Released(held, {})
        /\ bodyClass' = bodyClass \ {"sheet-open"}
        /\ kids' = IF immediate THEN kids \ {s} ELSE kids
    BY <1>2 DEF CloseSheet
  <2>2. SheetUp /\ ~SheetUp' /\ openSheet = s /\ (Open' <=> Open)
    BY <1>2, <2>1, OverlaysAssumption DEF OInv, SheetsInBody, SheetUp, Open
  <2>3. held' = [depth    |-> held.depth - 1,
                 saved    |-> held.saved,
                 overflow |-> IF held.depth = 1 THEN held.saved ELSE held.overflow,
                 inert    |-> held.inert \ {}]
    BY <2>1 DEF Released, NoLock
  <2>4. /\ held'.depth = (IF Open THEN 1 ELSE 0) /\ held'.saved = "unset"
        /\ held'.overflow = (IF Open THEN "hidden" ELSE "unset")
        /\ held'.inert = held.inert
    BY <2>2, <2>3 DEF OInv, Shapes, LocksCounted
  <2>5. sheets \in [Sheets -> {"new", "open", "leaving", "gone"}]
    BY DEF OInv, Shapes
  <2>6. /\ sheets'[s] = IF immediate THEN "gone" ELSE "leaving"
        /\ \A t \in Sheets \ {s} : sheets'[t] = sheets[t]
        /\ sheets' \in [Sheets -> {"new", "open", "leaving", "gone"}]
    BY <2>1, <2>5
  <2>7. Shapes'
    BY <2>1, <2>4, <2>6, OverlaysAssumption DEF OInv, Shapes
  <2>8. LocksCounted'
    BY <2>1, <2>2, <2>4 DEF OInv, LocksCounted
  <2>9. SheetsInBody'
    BY <1>2, <2>1, <2>2, <2>6, OverlaysAssumption DEF OInv, SheetsInBody
  <2>10. "scrim" \in kids' <=> "scrim" \in kids
    BY <2>1, OverlaysAssumption
  <2>11. QED
    BY <2>4, <2>6, <2>7, <2>8, <2>9, <2>10, SheetStep
<1>3. QED
  BY <1>1, <1>2

\* A new sheet takes the place, and the lock, of the one before.
LEMMA SheetOpens ==
    ASSUME OInv, NEW s \in Sheets, OpenActionSheet(s), UNCHANGED submitting
    PROVE  OInv'
<1> DEFINE before == {openSheet} \ {NoSheet}
<1>1. /\ sheets[s] = "new"
      /\ sheets' = [t \in Sheets |-> IF t = s THEN "open"
                                     ELSE IF t \in before THEN "gone" ELSE sheets[t]]
      /\ openSheet' = s
      /\ held' = LockPage(IF before = {} THEN held ELSE Released(held, {}), {})
      /\ bodyClass' = bodyClass \cup {"sheet-open"}
      /\ kids' = (kids \ before) \cup {s}
      /\ UNCHANGED <<drawer, drawerScrim, drawerLock, drags>>
  BY DEF OpenActionSheet
<1>2. SheetUp' /\ (Open' <=> Open) /\ (before = {} <=> ~SheetUp) /\ before \subseteq Sheets
  BY <1>1, OverlaysAssumption DEF OInv, Shapes, SheetUp, Open
<1>3. /\ held'.depth = (IF Open THEN 2 ELSE 1) /\ held'.saved = "unset"
      /\ held'.overflow = "hidden" /\ held'.inert = held.inert
  <2>1. CASE ~SheetUp
    <3>1. held' = LockPage(held, {})
      BY <1>1, <1>2, <2>1
    <3>2. QED
      BY <2>1, <3>1 DEF LockPage, OInv, Shapes, LocksCounted
  <2>2. CASE SheetUp
    <3> DEFINE h == Released(held, {})
    <3>1. h = [depth    |-> held.depth - 1,
               saved    |-> held.saved,
               overflow |-> IF held.depth = 1 THEN held.saved ELSE held.overflow,
               inert    |-> held.inert \ {}]
      BY DEF Released, NoLock
    <3>2. /\ h.depth = (IF Open THEN 1 ELSE 0) /\ h.saved = "unset"
          /\ h.overflow = (IF Open THEN "hidden" ELSE "unset")
          /\ h.inert = held.inert
      BY <2>2, <3>1 DEF OInv, Shapes, LocksCounted
    <3>3. held' = LockPage(h, {})
      BY <1>1, <1>2, <2>2
    <3> HIDE DEF h
    <3>4. QED
      BY <3>2, <3>3 DEF LockPage
  <2>3. QED
    BY <2>1, <2>2
<1>4. /\ sheets' \in [Sheets -> {"new", "open", "leaving", "gone"}]
      /\ sheets'[s] = "open"
      /\ \A t \in Sheets \ {s} : sheets'[t] = IF t = openSheet THEN "gone" ELSE sheets[t]
  BY <1>1, OverlaysAssumption DEF OInv, Shapes
<1>5. Shapes'
  <2>1. kids' \subseteq Panels /\ {"page", "chip"} \subseteq kids'
    BY <1>1, <1>2, OverlaysAssumption DEF OInv, Shapes, Panels
  <2>2. openSheet' \in Sheets \cup {NoSheet}
    BY <1>1
  <2>3. QED
    BY <1>1, <1>3, <1>4, <2>1, <2>2 DEF OInv, Shapes
<1>6. LocksCounted'
  BY <1>1, <1>2, <1>3 DEF OInv, LocksCounted
<1>7. SheetsInBody'
  BY <1>1, <1>2, <1>4, OverlaysAssumption DEF OInv, SheetsInBody
<1>8. "scrim" \in kids' <=> "scrim" \in kids
  BY <1>1, <1>2, OverlaysAssumption
<1>9. \A t \in Sheets : sheets[t] \in {"leaving", "gone"}
                            => sheets'[t] \in {"leaving", "gone"}
  BY <1>1, <1>4
<1>10. QED
  BY <1>1, <1>3, <1>5, <1>6, <1>7, <1>8, <1>9, SheetStep

-----------------------------------------------------------------------------
(* The rest, and the theorems.                                             *)

\* A navigation takes the sheet and the old page away, and puts the drawer's lock
\* on the new one.
LEMMA NavigateKeeps ==
    ASSUME OInv, Navigate
    PROVE  OInv'
<1> DEFINE closed  == IF openSheet = NoSheet THEN held ELSE Released(held, {})
           swapped == [depth |-> closed.depth, saved |-> closed.saved, overflow |-> "unset",
                       inert |-> closed.inert \cap {"chip", "scrim"}]
<1>1. /\ sheets' = [s \in Sheets |-> IF sheets[s] = "new" THEN "new" ELSE "gone"]
      /\ openSheet' = NoSheet /\ drags' = drags \ Sheets
      /\ bodyClass' = IF Open THEN {"queueopen"} ELSE {}
      /\ Open => ApplyDrawerOverlay(swapped, {"page", "chip"})
      /\ ~Open => ClearDrawerOverlay(swapped, {"page", "chip"})
      /\ UNCHANGED <<drawer, awaited, submitting>>
  BY DEF Navigate, Open
<1>2. ~SheetUp' /\ (Open' <=> Open)
  BY <1>1 DEF SheetUp, Open
<1>3. /\ closed.depth = (IF Open THEN 1 ELSE 0) /\ closed.saved = "unset"
      /\ closed.inert = held.inert
  <2>1. CASE ~SheetUp
    BY <2>1 DEF SheetUp, OInv, Shapes, LocksCounted
  <2>2. CASE SheetUp
    <3>1. closed = [depth    |-> held.depth - 1,
                    saved    |-> held.saved,
                    overflow |-> IF held.depth = 1 THEN held.saved ELSE held.overflow,
                    inert    |-> held.inert \ {}]
      BY <2>2 DEF Released, NoLock, SheetUp
    <3> HIDE DEF closed
    <3>2. QED
      BY <2>2, <3>1 DEF OInv, Shapes, LocksCounted
  <2>3. QED
    BY <2>1, <2>2
<1> HIDE DEF closed
<1>4. /\ swapped.depth = (IF Open THEN 1 ELSE 0) /\ swapped.saved = "unset"
      /\ swapped.overflow = "unset"
      /\ swapped.inert = held.inert \cap {"chip", "scrim"}
  BY <1>3
<1> HIDE DEF swapped
<1>5. \A s \in Sheets : sheets'[s] \in {"new", "gone"}
  BY <1>1
<1>6. sheets' \in [Sheets -> {"new", "open", "leaving", "gone"}]
  BY <1>1
<1>7. CASE Open
  <2>1. drawerLock # NoLock /\ held.inert = drawerLock
    BY <1>7 DEF OInv, DrawerHolds, NoLock
  <2> DEFINE free == Released(swapped, drawerLock)
  <2>2. free = [depth    |-> swapped.depth - 1,
                saved    |-> swapped.saved,
                overflow |-> IF swapped.depth = 1 THEN swapped.saved ELSE swapped.overflow,
                inert    |-> swapped.inert \ drawerLock]
    BY <2>1 DEF Released
  <2>3. free.depth = 0 /\ free.saved = "unset" /\ free.overflow = "unset" /\ free.inert = {}
    <3> HIDE DEF free
    <3>1. QED
      BY <1>4, <1>7, <2>1, <2>2
  <2>4. /\ held' = LockPage(free, {"page", "chip"} \ free.inert)
        /\ drawerLock' = {"page", "chip"} \ free.inert
        /\ kids' = {"page", "chip"} \cup {"scrim"}
        /\ drawerScrim' = [up |-> drawerScrim.up, timer |-> FALSE,
                           frame |-> drawerScrim.frame \/ ~drawerScrim.up]
    BY <1>1, <1>7 DEF ApplyDrawerOverlay
  <2> HIDE DEF free
  <2>5. drawerLock' = {"page", "chip"} /\ held' = LockPage(free, {"page", "chip"})
    BY <2>3, <2>4
  <2>6. /\ held'.depth = 1 /\ held'.saved = "unset" /\ held'.overflow = "hidden"
        /\ held'.inert = {"page", "chip"}
    BY <2>3, <2>5 DEF LockPage
  <2>7. drawerScrim'.timer \in BOOLEAN /\ ~drawerScrim'.timer
    BY <2>4
  <2>8. Shapes'
    BY <1>1, <1>6, <2>4, <2>6, <2>7 DEF OInv, Shapes, Panels
  <2>9. LocksCounted'
    BY <1>1, <1>2, <1>7, <2>6 DEF LocksCounted
  <2>10. DrawerHolds'
    BY <1>2, <1>7, <2>5, <2>6, OverlaysAssumption DEF DrawerHolds
  <2>11. ExitsAreOver'
    BY <1>1, <1>2, <1>7, <2>4, <2>7 DEF OInv, ExitsAreOver
  <2>12. SheetsInBody'
    BY <1>1, <1>5, <2>4, OverlaysAssumption DEF SheetsInBody
  <2>13. QED
    BY <2>8, <2>9, <2>10, <2>11, <2>12 DEF OInv
<1>8. CASE ~Open
  <2>1. drawerLock = NoLock /\ held.inert = {}
    BY <1>8 DEF OInv, DrawerHolds
  <2>2. /\ held' = swapped /\ drawerLock' = NoLock /\ kids' = {"page", "chip"}
        /\ drawerScrim' = [up |-> FALSE, timer |-> TRUE, frame |-> drawerScrim.frame]
    BY <1>1, <1>8, <2>1 DEF ClearDrawerOverlay, Released
  <2>3. /\ held'.depth = 0 /\ held'.saved = "unset" /\ held'.overflow = "unset"
        /\ held'.inert = {}
    BY <1>4, <1>8, <2>1, <2>2
  <2>4. drawerScrim'.timer \in BOOLEAN /\ drawerScrim'.timer
    BY <2>2
  <2>5. Shapes'
    BY <1>1, <1>6, <2>2, <2>3, <2>4 DEF OInv, Shapes, Panels
  <2>6. LocksCounted'
    BY <1>1, <1>2, <1>8, <2>3 DEF LocksCounted
  <2>7. DrawerHolds'
    BY <1>2, <1>8, <2>2, <2>3 DEF DrawerHolds
  <2>8. ExitsAreOver'
    BY <1>1, <1>2, <1>8, <2>2, <2>4 DEF OInv, ExitsAreOver
  <2>9. SheetsInBody'
    BY <1>1, <1>5, <2>2, OverlaysAssumption DEF SheetsInBody
  <2>10. QED
    BY <2>5, <2>6, <2>7, <2>8, <2>9 DEF OInv
<1>9. QED
  BY <1>7, <1>8

\* What leaves all the variables of the invariant alone keeps it.
LEMMA OverlaysStutter ==
    ASSUME OInv, UNCHANGED <<held, kids, bodyClass, drawer, drawerScrim, drawerLock, sheets,
                             openSheet>>,
           drags' \subseteq Sheets \cup {"drawer"}, submitting' \subseteq Sheets
    PROVE  OInv'
BY DEF OInv, Shapes, LocksCounted, DrawerHolds, ExitsAreOver, SheetsInBody, Open, SheetUp

\* The ends of the exits, and the frame that raises the scrim.
LEMMA ExitsKeep ==
    ASSUME OInv, DrawerExit \/ ScrimExit \/ ScrimRises \/ \E s \in Sheets : SheetExit(s)
    PROVE  OInv'
<1>1. CASE DrawerExit
  <2>1. /\ drawer.timer
        /\ drawer' = [hidden |-> TRUE, closing |-> FALSE, timer |-> FALSE,
                      expanded |-> drawer.expanded]
        /\ UNCHANGED <<held, kids, bodyClass, drawerScrim, drawerLock, sheets, openSheet,
                       drags, submitting>>
    BY <1>1 DEF DrawerExit
  <2>2. ~Open
    BY <2>1 DEF OInv, ExitsAreOver
  <2>3. /\ drawer'.hidden \in BOOLEAN /\ drawer'.closing \in BOOLEAN
        /\ drawer'.timer \in BOOLEAN /\ drawer'.expanded = drawer.expanded
        /\ drawer'.hidden /\ ~drawer'.timer
    BY <2>1
  <2>4. ~Open'
    BY <2>3 DEF Open, IsDrawerOpen
  <2>5. ExitsAreOver'
    BY <2>1, <2>2, <2>3, <2>4 DEF OInv, ExitsAreOver
  <2>6. Shapes'
    BY <2>1, <2>3 DEF OInv, Shapes
  <2>7. SheetUp' <=> SheetUp
    BY <2>1 DEF SheetUp
  <2>8. LocksCounted' /\ DrawerHolds' /\ SheetsInBody'
    BY <2>1, <2>2, <2>4, <2>7 DEF OInv, LocksCounted, DrawerHolds, SheetsInBody
  <2>9. QED
    BY <2>5, <2>6, <2>8 DEF OInv
<1>2. CASE ScrimExit \/ ScrimRises
  <2>1. /\ UNCHANGED <<held, bodyClass, drawer, drawerLock, sheets, openSheet,
                       drags, submitting>>
        /\ \/ /\ drawerScrim.timer /\ kids' = kids \ {"scrim"}
              /\ drawerScrim' = [drawerScrim EXCEPT !.timer = FALSE]
           \/ /\ kids' = kids
              /\ drawerScrim' = [up |-> TRUE, timer |-> drawerScrim.timer, frame |-> FALSE]
    BY <1>2 DEF ScrimExit, ScrimRises
  <2>2. (Open' <=> Open) /\ (SheetUp' <=> SheetUp)
    BY <2>1 DEF Open, SheetUp
  <2>3. CASE /\ kids' = kids
             /\ drawerScrim' = [up |-> TRUE, timer |-> drawerScrim.timer, frame |-> FALSE]
    <3>1. drawerScrim'.timer = drawerScrim.timer
      BY <2>3
    <3>2. QED
      BY <2>1, <2>2, <2>3, <3>1
         DEF OInv, Shapes, LocksCounted, DrawerHolds, ExitsAreOver, SheetsInBody
  <2>4. CASE /\ drawerScrim.timer /\ kids' = kids \ {"scrim"}
             /\ drawerScrim' = [drawerScrim EXCEPT !.timer = FALSE]
    <3>1. ~Open
      BY <2>4 DEF OInv, ExitsAreOver
    <3>2. drawerScrim'.timer \in BOOLEAN /\ ~drawerScrim'.timer
      BY <2>4 DEF OInv, Shapes
    <3>3. Shapes'
      BY <2>1, <2>4, <3>2 DEF OInv, Shapes
    <3>4. LocksCounted' /\ DrawerHolds'
      BY <2>1, <2>2 DEF OInv, LocksCounted, DrawerHolds
    <3>5. ExitsAreOver'
      BY <2>1, <2>2, <2>4, <3>1, <3>2 DEF OInv, ExitsAreOver
    <3>6. SheetsInBody'
      BY <2>1, <2>4, OverlaysAssumption DEF OInv, SheetsInBody
    <3>7. QED
      BY <3>3, <3>4, <3>5, <3>6 DEF OInv
  <2>5. QED
    BY <2>1, <2>3, <2>4
<1>3. ASSUME NEW s \in Sheets, SheetExit(s)
      PROVE  OInv'
  <2>1. /\ sheets[s] = "leaving" /\ sheets' = [sheets EXCEPT ![s] = "gone"]
        /\ kids' = kids \ {s} /\ drags' = drags \ {s}
        /\ UNCHANGED <<held, bodyClass, drawer, drawerScrim, drawerLock, openSheet, submitting>>
    BY <1>3 DEF SheetExit
  <2>2. (Open' <=> Open) /\ (SheetUp' <=> SheetUp)
    BY <2>1 DEF Open, SheetUp
  <2>3. /\ sheets' \in [Sheets -> {"new", "open", "leaving", "gone"}]
        /\ sheets'[s] = "gone" /\ \A t \in Sheets \ {s} : sheets'[t] = sheets[t]
    BY <2>1 DEF OInv, Shapes
  <2>4. kids' \subseteq Panels /\ {"page", "chip"} \subseteq kids'
    BY <2>1, OverlaysAssumption DEF OInv, Shapes
  <2>5. Shapes'
    BY <2>1, <2>3, <2>4 DEF OInv, Shapes
  <2>6. LocksCounted'
    BY <2>1, <2>2 DEF OInv, LocksCounted
  <2>7. SheetsInBody'
    BY <2>1, <2>3 DEF OInv, SheetsInBody
  <2>8. "scrim" \in kids' <=> "scrim" \in kids
    BY <2>1, OverlaysAssumption
  <2>9. QED
    BY <2>1, <2>3, <2>5, <2>6, <2>7, <2>8, SheetStep
<1>4. QED
  BY <1>1, <1>2, <1>3

\* Every step of the page keeps the invariant.
LEMMA OverlaysStep ==
    ASSUME OInv, [OverlaysNext]_overlaysVars
    PROVE  OInv'
<1>0. /\ drags \subseteq Sheets \cup {"drawer"} /\ submitting \subseteq Sheets
      /\ openSheet \in Sheets \cup {NoSheet}
  BY DEF OInv, Shapes
<1>1. CASE ToggleDrawer
  <2>1. /\ openSheet = NoSheet /\ SetDrawerOpen(~Open) /\ UNCHANGED <<drags, submitting>>
    BY <1>1 DEF ToggleDrawer, Open
  <2>2. (~Open) \in BOOLEAN
    BY DEF Open, IsDrawerOpen
  <2>3. ~SheetUp
    BY <2>1 DEF SheetUp
  <2> DEFINE b == ~Open
  <2>4. b \in BOOLEAN /\ SetDrawerOpen(b) /\ (b => ~Open /\ ~SheetUp)
    BY <2>1, <2>2, <2>3
  <2> HIDE DEF b
  <2>5. QED
    BY <1>0, <2>1, <2>4, DrawerSet
<1>2. CASE \E on \in {"scrim", "grip"} : TapAway(on)
  <2>1. SetDrawerOpen(FALSE) /\ UNCHANGED <<drags, submitting>>
    BY <1>2 DEF TapAway
  <2>2. QED
    BY <1>0, <2>1, DrawerSet
<1>3. CASE DrawerExit \/ ScrimExit \/ ScrimRises \/ \E s \in Sheets : SheetExit(s)
  BY <1>3, ExitsKeep
<1>4. CASE \E s \in Sheets : OpenMenu(s) \/ PickerOpens(s) \/ OpenNewCrateModal(s)
  <2>1. PICK s \in Sheets : OpenActionSheet(s) /\ UNCHANGED submitting
    BY <1>4 DEF OpenMenu, PickerOpens, OpenNewCrateModal
  <2>2. QED
    BY <2>1, SheetOpens
<1>5. CASE AskPicker
  BY <1>0, <1>5, OverlaysStutter DEF AskPicker
<1>6. CASE \E immediate \in BOOLEAN : ChooseOrTapAway(immediate)
  <2>1. PICK immediate \in BOOLEAN :
          /\ openSheet # NoSheet /\ CloseSheet(openSheet, immediate)
          /\ UNCHANGED <<drawer, drawerScrim, drawerLock, drags, submitting>>
    BY <1>6 DEF ChooseOrTapAway
  <2>2. QED
    BY <1>0, <2>1, SheetCloses
<1>7. CASE SubmitCrate
  <2>1. submitting' \subseteq Sheets
    BY <1>0, <1>7 DEF SubmitCrate
  <2>2. QED
    BY <1>0, <1>7, <2>1, OverlaysStutter DEF SubmitCrate
<1>8. CASE \E s \in Sheets, ok \in BOOLEAN : CrateCreated(s, ok)
  <2>1. PICK s \in Sheets, ok \in BOOLEAN : CrateCreated(s, ok)
    BY <1>8
  <2>2. /\ submitting' \subseteq Sheets
        /\ UNCHANGED <<drawer, drawerScrim, drawerLock, drags>>
        /\ \/ CloseSheet(s, FALSE)
           \/ UNCHANGED <<held, kids, bodyClass, sheets, openSheet>>
    BY <1>0, <2>1 DEF CrateCreated
  <2>3. QED
    BY <1>0, <2>2, SheetCloses, OverlaysStutter
<1>9. CASE Escape
  <2>1. UNCHANGED <<drags, submitting>>
    BY <1>9 DEF Escape
  <2>2. CASE openSheet # NoSheet
    <3>1. CloseSheet(openSheet, FALSE) /\ UNCHANGED <<drawer, drawerScrim, drawerLock>>
      BY <1>9, <2>2 DEF Escape
    <3>2. QED
      BY <1>0, <2>1, <2>2, <3>1, SheetCloses
  <2>3. CASE openSheet = NoSheet
    <3>1. SetDrawerOpen(FALSE)
      BY <1>9, <2>3 DEF Escape
    <3>2. QED
      BY <1>0, <2>1, <3>1, DrawerSet
  <2>4. QED
    BY <2>2, <2>3
<1>10. CASE \E p \in Sheets \cup {"drawer"} : DragStarts(p)
  <2>1. drags' \subseteq Sheets \cup {"drawer"}
    BY <1>0, <1>10 DEF DragStarts
  <2>2. QED
    BY <1>0, <1>10, <2>1, OverlaysStutter DEF DragStarts
<1>11. CASE \E p \in drags, dismisses \in BOOLEAN : DragEnds(p, dismisses)
  <2>1. PICK p \in drags, dismisses \in BOOLEAN : DragEnds(p, dismisses)
    BY <1>11
  <2>2. drags' \subseteq Sheets \cup {"drawer"} /\ UNCHANGED submitting
    BY <1>0, <2>1 DEF DragEnds
  <2>3. CASE ~dismisses
    BY <1>0, <2>1, <2>2, <2>3, OverlaysStutter DEF DragEnds
  <2>4. CASE dismisses /\ p = "drawer"
    <3>1. SetDrawerOpen(FALSE)
      BY <2>1, <2>4 DEF DragEnds
    <3>2. QED
      BY <2>2, <3>1, DrawerSet
  <2>5. CASE dismisses /\ p # "drawer"
    <3>1. /\ CloseSheet(p, FALSE) /\ UNCHANGED <<drawer, drawerScrim, drawerLock>>
          /\ p \in Sheets
      BY <1>0, <2>1, <2>5 DEF DragEnds
    <3>2. QED
      BY <1>0, <2>2, <3>1, SheetCloses
  <2>6. QED
    BY <2>3, <2>4, <2>5
<1>12. CASE Navigate
  BY <1>12, NavigateKeeps
<1>13. CASE UNCHANGED overlaysVars
  BY <1>0, <1>13, OverlaysStutter DEF overlaysVars
<1>14. QED
  BY <1>1, <1>2, <1>3, <1>4, <1>5, <1>6, <1>7, <1>8, <1>9, <1>10, <1>11, <1>12, <1>13
     DEF OverlaysNext

\* The inductive invariant holds of every behaviour.
THEOREM OverlaysInvariant == OverlaysSpec => []OInv
<1>1. OInv /\ [OverlaysNext]_overlaysVars => OInv'
  BY OverlaysStep
<1>2. QED
  BY OverlaysStart, <1>1, PTL DEF OverlaysSpec

\* What is in the body, locked and open stays in its type, for any sheets.
THEOREM OverlaysTypes == OverlaysSpec => []OverlaysTypeOK
<1>1. OInv => OverlaysTypeOK
  BY OInvSuffices
<1>2. QED
  BY OverlaysInvariant, <1>1, PTL

\* Whatever closes what, in whichever order, the page scrolls and takes taps again
\* when the last overlay is shut and not before, an open sheet can be used, and
\* no exit's timer takes away a drawer that was opened again.
THEOREM PageIsReleased == OverlaysSpec => []PageFollowsOverlays
<1>1. OInv => PageFollowsOverlays
  BY OInvSuffices
<1>2. QED
  BY OverlaysInvariant, <1>1, PTL

(***************************************************************************)
(* The parts in one run.                                                   *)
(***************************************************************************)

\* The parts start as they start alone.
LEMMA PartsStart ==
    ASSUME Init
    PROVE  /\ UploadListInit
           /\ CratesInit
           /\ ZipInit
           /\ ControlsInit
           /\ DedupInit
           /\ OverlaysInit
           /\ PreflightInit
           /\ PartsInit
           /\ StrategiesInit
BY DEF Init

\* A step of a control is a step of the page; the other controls stay.
LEMMA ControlMoves ==
    ASSUME Next, part \in {"picker", "like", "tag"}
    PROVE  ControlsNext
BY DEF Next, ControlsNext

\* A step of the whole is a step of one part and leaves the others as they are.
LEMMA OnePartMoves ==
    ASSUME [Next]_siteVars
    PROVE  /\ [UploadListNext]_uploadListVars
           /\ [CratesNext]_cratesVars
           /\ [ZipNext]_zipVars
           /\ [ControlsNext]_controlsVars
           /\ [DedupNext]_dedupVars
           /\ [OverlaysNext]_overlaysVars
           /\ [PreflightNext]_preflightVars
           /\ [PartsNext]_partVars
           /\ [StrategiesNext]_strategyVars
<1>1. ASSUME UNCHANGED siteVars
      PROVE  UNCHANGED <<uploadListVars, cratesVars, zipVars, controlsVars, dedupVars,
                         overlaysVars, preflightVars, partVars, strategyVars>>
  BY <1>1 DEF siteVars
<1>2. ASSUME Next
      PROVE  UploadListNext \/ UNCHANGED uploadListVars
  BY <1>2 DEF Next
<1>3. ASSUME Next
      PROVE  CratesNext \/ UNCHANGED cratesVars
  BY <1>3 DEF Next
<1>4. ASSUME Next
      PROVE  ZipNext \/ UNCHANGED zipVars
  BY <1>4 DEF Next
<1>5. ASSUME Next
      PROVE  ControlsNext \/ UNCHANGED controlsVars
  <2>1. CASE part \in {"picker", "like", "tag"}
    BY <1>5, <2>1, ControlMoves
  <2>2. CASE part \notin {"picker", "like", "tag"}
    BY <1>5, <2>2 DEF Next
  <2> QED  BY <2>1, <2>2
<1>6. ASSUME Next
      PROVE  DedupNext \/ UNCHANGED dedupVars
  BY <1>6 DEF Next
<1>7. ASSUME Next
      PROVE  OverlaysNext \/ UNCHANGED overlaysVars
  BY <1>7 DEF Next
<1>8. ASSUME Next
      PROVE  PreflightNext \/ UNCHANGED preflightVars
  BY <1>8 DEF Next
<1>9. ASSUME Next
      PROVE  PartsNext \/ UNCHANGED partVars
  BY <1>9 DEF Next
<1>10. ASSUME Next
      PROVE  StrategiesNext \/ UNCHANGED strategyVars
  BY <1>10 DEF Next
<1> QED  BY <1>1, <1>2, <1>3, <1>4, <1>5, <1>6, <1>7, <1>8, <1>9, <1>10

\* Whatever the whole does, each of its parts does something its own
\* specification allows: what is proved of a part alone holds in the run of all.
THEOREM WholeIsItsParts ==
    Spec => /\ UploadListSpec
            /\ CratesSpec
            /\ ZipSpec
            /\ ControlsSpec
            /\ DedupSpec
            /\ OverlaysSpec
            /\ PreflightSpec
            /\ PartsSpec
            /\ StrategiesSpec
<1>1. Spec => UploadListSpec
  BY PartsStart, OnePartMoves, PTL DEF Spec, UploadListSpec
<1>2. Spec => CratesSpec
  BY PartsStart, OnePartMoves, PTL DEF Spec, CratesSpec
<1>3. Spec => ZipSpec
  BY PartsStart, OnePartMoves, PTL DEF Spec, ZipSpec
<1>4. Spec => ControlsSpec
  BY PartsStart, OnePartMoves, PTL DEF Spec, ControlsSpec
<1>5. Spec => DedupSpec
  BY PartsStart, OnePartMoves, PTL DEF Spec, DedupSpec
<1>6. Spec => OverlaysSpec
  BY PartsStart, OnePartMoves, PTL DEF Spec, OverlaysSpec
<1>7. Spec => PreflightSpec
  BY PartsStart, OnePartMoves, PTL DEF Spec, PreflightSpec
<1>8. Spec => PartsSpec
  BY PartsStart, OnePartMoves, PTL DEF Spec, PartsSpec
<1>9. Spec => StrategiesSpec
  BY PartsStart, OnePartMoves, PTL DEF Spec, StrategiesSpec
<1> QED  BY <1>1, <1>2, <1>3, <1>4, <1>5, <1>6, <1>7, <1>8, <1>9

\* The part that runs keeps its shape: rows, crates, archives, controls, tracks,
\* sheets, reads, parts and queues are what the code declares them to be, for
\* every value of the constants.
THEOREM SiteTypes == Spec => []SiteTypeOK
<1>1. UploadListTypeOK /\ CratesTypeOK /\ ZipTypeOK
          /\ ControlsTypeOK /\ DedupTypeOK /\ OverlaysTypeOK
          /\ PreflightTypeOK /\ PartsTypeOK /\ StrategiesTypeOK
          => SiteTypeOK
  BY DEF SiteTypeOK
<1> QED
  BY <1>1, WholeIsItsParts, UploadListTypes, CratesTypes, DownloadTypeOK, ControlsTypes,
     TablesTypeOK, OverlaysTypes, PreflightTypes, TransferTypeOK, StrategiesTyped, PTL

\* What is proved of the parts alone holds of the run of all: the list and the
\* crates, the archive, the controls, tracks, overlays, durations, parts and the
\* tail of the queue keep what the code promises of them, in states and in steps.
THEOREM SiteKeepsPromises ==
    Spec => /\ [](ListTellsRun /\ OneRun /\ SaidInCrate /\ ArchiveIsWhole)
            /\ [](PickerListsCreated /\ ControlsSettle /\ TracksHold /\ PageFollowsOverlays)
            /\ [](ReadTellsHeader /\ PartsAreTheFile /\ TailIsChain)
            /\ HiddenStayBehind /\ PageShowsCommitted /\ ResolveJoins
<1>1. Spec => [](ListTellsRun /\ OneRun /\ SaidInCrate /\ ArchiveIsWhole)
  BY WholeIsItsParts, ListTellsTheRun, RunIsOne, AlreadyMeansInside, DownloadIsWhole, PTL
<1>2. Spec => [](PickerListsCreated /\ ControlsSettle /\ TracksHold /\ PageFollowsOverlays)
  BY WholeIsItsParts, PickersOfferCrates, ControlsAgree, MergesHold, PageIsReleased, PTL
<1>3. Spec => [](ReadTellsHeader /\ PartsAreTheFile /\ TailIsChain)
  BY WholeIsItsParts, HeaderDecides, TransferIsTheFile, TailChains, PTL
<1>4. Spec => HiddenStayBehind /\ PageShowsCommitted /\ ResolveJoins
  BY WholeIsItsParts, HiddenFollow, PageIsTrue, MatcherJoins, PTL
<1> QED  BY <1>1, <1>2, <1>3, <1>4
==============================================================================
