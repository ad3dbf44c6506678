------------------------------- MODULE Overlays -------------------------------
(***************************************************************************)
(* What lies over the page: the queue drawer with its scrim, and the       *)
(* action sheets (scripts/site.ts), with the lock both put on the page     *)
(* behind them (lib/overlay.ts) and the drag that dismisses either         *)
(* (scripts/drag-dismiss.ts).                                              *)
(*                                                                         *)
(* Opening and closing are done at once; what comes later are the timers   *)
(* that take a panel away after its exit, the frame that raises the scrim, *)
(* the lists and answers a sheet waits for, the end of a drag, and the     *)
(* navigations, which replace the body and all that is not persisted.      *)
(***************************************************************************)
EXTENDS Integers, FiniteSets

CONSTANTS
    Sheets,      \* the elements openActionSheet creates, one for each call
    NoSheet,
    MaxTaps      \* bound: taps, keys and navigations of a behaviour

ASSUME OverlaysAssumption ==
    /\ NoSheet \notin Sheets
    /\ (Sheets \cup {NoSheet}) \cap {"page", "chip", "scrim", "drawer", "none"} = {}

VARIABLES
    held,        \* overlay.ts and the body: [depth, saved, overflow, inert]; "unset" is ""
    kids,        \* the children of the body, but the player bar
    bodyClass,   \* its classes
    drawer,      \* the drawer: [hidden, closing, timer, expanded]
    drawerScrim, \* its scrim: [up, timer, frame]
    drawerLock,  \* releaseDrawerLock: what it would release, NoLock for null
    sheets,      \* sheet -> "new", "open", "leaving", "gone"
    openSheet,   \* the sheet that is open
    drags,       \* panels being dragged
    awaited,     \* crate lists a picker waits for
    submitting,    \* modals whose createCrate is in flight
    taps

overlaysVars == <<held, kids, bodyClass, drawer, drawerScrim, drawerLock, sheets,
                  openSheet, drags, awaited, submitting, taps>>

NoLock == {"none"}

IsDrawerOpen(d) == ~d.hidden /\ ~d.closing

OverlaysInit ==
    /\ held = [depth |-> 0, saved |-> "unset", overflow |-> "unset", inert |-> {}]
    /\ kids = {"page", "chip"} /\ bodyClass = {}
    /\ drawer = [hidden |-> TRUE, closing |-> FALSE, timer |-> FALSE, expanded |-> FALSE]
    /\ drawerScrim = [up |-> FALSE, timer |-> FALSE, frame |-> FALSE]
    /\ drawerLock = NoLock
    /\ sheets = [s \in Sheets |-> "new"] /\ openSheet = NoSheet
    /\ drags = {} /\ awaited = 0 /\ submitting = {} /\ taps = 0

Tap == taps < MaxTaps /\ taps' = taps + 1

(***************************************************************************)
(* lockPage and what it returns.                                           *)
(***************************************************************************)

\* The first lock hides the overflow; `nodes` are those it makes inert.
LockPage(h, nodes) ==
    [depth    |-> h.depth + 1,
     saved    |-> IF h.depth = 0 THEN h.overflow ELSE h.saved,
     overflow |-> IF h.depth = 0 THEN "hidden" ELSE h.overflow,
     inert    |-> h.inert \cup nodes]

\* The release of a lock that made `nodes` inert; the last one restores the overflow.
Released(h, nodes) ==
    IF nodes = NoLock THEN h
    ELSE [depth    |-> h.depth - 1,
          saved    |-> h.saved,
          overflow |-> IF h.depth = 1 THEN h.saved ELSE h.overflow,
          inert    |-> h.inert \ nodes]

(***************************************************************************)
(* The drawer.                                                             *)
(***************************************************************************)

\* applyDrawerOverlay, over the body's children `in` under the locks h.
ApplyDrawerOverlay(h, in) ==
    LET free == Released(h, drawerLock)
        mine == in \ free.inert
    IN  /\ held' = LockPage(free, mine) /\ drawerLock' = mine
        /\ kids' = in \cup {"scrim"}
        /\ drawerScrim' = [up |-> drawerScrim.up, timer |-> FALSE,
                           frame |-> drawerScrim.frame \/ ~drawerScrim.up]

\* clearDrawerOverlay: the scrim stays for its exit.
ClearDrawerOverlay(h, in) ==
    /\ held' = Released(h, drawerLock) /\ drawerLock' = NoLock
    /\ kids' = in
    /\ drawerScrim' = [up |-> FALSE, timer |-> TRUE, frame |-> drawerScrim.frame]

\* Mutant: the exit of the panel is not called off.
SetDrawerOpenOverExit(open) ==
    /\ drawer' = [hidden |-> drawer.hidden /\ ~open, closing |-> ~open,
                  timer |-> drawer.timer \/ ~open, expanded |-> open]
    /\ bodyClass' = IF open THEN bodyClass \cup {"queueopen"} ELSE bodyClass \ {"queueopen"}
    /\ IF open THEN ApplyDrawerOverlay(held, kids) ELSE ClearDrawerOverlay(held, kids)
    /\ UNCHANGED <<sheets, openSheet>>

\* setDrawerOpen: shut at once, the panel gone when its exit is over.
SetDrawerOpen(open) ==
    /\ drawer' = [hidden |-> drawer.hidden /\ ~open, closing |-> ~open,
                  timer |-> ~open, expanded |-> open]
    /\ bodyClass' = IF open THEN bodyClass \cup {"queueopen"} ELSE bodyClass \ {"queueopen"}
    /\ IF open THEN ApplyDrawerOverlay(held, kids) ELSE ClearDrawerOverlay(held, kids)
    /\ UNCHANGED <<sheets, openSheet>>

\* An open sheet covers the drawer and its controls.
ToggleDrawer ==
    /\ Tap /\ openSheet = NoSheet
    /\ SetDrawerOpen(~IsDrawerOpen(drawer))
    /\ UNCHANGED <<drags, awaited, submitting>>

\* The scrim takes a tap when it is up and not inert; the grip, always.
TapAway(on) ==
    /\ Tap /\ openSheet = NoSheet
    /\ IF on = "scrim" THEN "scrim" \in kids \ held.inert /\ drawerScrim.up ELSE ~drawer.hidden
    /\ SetDrawerOpen(FALSE)
    /\ UNCHANGED <<drags, awaited, submitting>>

DrawerExit ==
    /\ drawer.timer
    /\ drawer' = [hidden |-> TRUE, closing |-> FALSE, timer |-> FALSE,
                  expanded |-> drawer.expanded]
    /\ UNCHANGED <<held, kids, bodyClass, drawerScrim, drawerLock, sheets, openSheet,
                   drags, awaited, submitting, taps>>

ScrimExit ==
    /\ drawerScrim.timer
    /\ drawerScrim' = [drawerScrim EXCEPT !.timer = FALSE] /\ kids' = kids \ {"scrim"}
    /\ UNCHANGED <<held, bodyClass, drawer, drawerLock, sheets, openSheet,
                   drags, awaited, submitting, taps>>

ScrimRises ==
    /\ drawerScrim.frame
    /\ drawerScrim' = [up |-> TRUE, timer |-> drawerScrim.timer, frame |-> FALSE]
    /\ UNCHANGED <<held, kids, bodyClass, drawer, drawerLock, sheets, openSheet,
                   drags, awaited, submitting, taps>>

(***************************************************************************)
(* The sheets.                                                             *)
(***************************************************************************)

\* close: `immediate` takes the root away without its exit; twice is once.
CloseSheet(s, immediate) ==
    IF sheets[s] # "open" THEN UNCHANGED <<held, kids, bodyClass, sheets, openSheet>>
    ELSE /\ sheets' = [sheets EXCEPT ![s] = IF immediate THEN "gone" ELSE "leaving"]
         /\ openSheet' = NoSheet
         /\ held' = Released(held, {})
         /\ bodyClass' = bodyClass \ {"sheet-open"}
         /\ kids' = IF immediate THEN kids \ {s} ELSE kids

\* openActionSheet: the sheet before leaves at once; the lock inerts nothing.
OpenActionSheet(s) ==
    LET before == {openSheet} \ {NoSheet}
    IN  /\ sheets[s] = "new"
        /\ sheets' = [t \in Sheets |-> IF t = s THEN "open"
                                       ELSE IF t \in before THEN "gone" ELSE sheets[t]]
        /\ openSheet' = s
        /\ held' = LockPage(IF before = {} THEN held ELSE Released(held, {}), {})
        /\ bodyClass' = bodyClass \cup {"sheet-open"}
        /\ kids' = (kids \ before) \cup {s}
        /\ UNCHANGED <<drawer, drawerScrim, drawerLock, drags>>

\* A row's menu, the account menu or a filter chip, in a page that is not inert.
OpenMenu(s) ==
    /\ Tap /\ openSheet = NoSheet /\ "page" \notin held.inert
    /\ OpenActionSheet(s)
    /\ UNCHANGED <<awaited, submitting>>

\* openCratePicker asks for the list first, from a row or from the bar.
AskPicker ==
    /\ Tap /\ openSheet = NoSheet
    /\ awaited' = awaited + 1
    /\ UNCHANGED <<held, kids, bodyClass, drawer, drawerScrim, drawerLock, sheets,
                   openSheet, drags, submitting>>

PickerOpens(s) ==
    /\ awaited > 0 /\ awaited' = awaited - 1
    /\ OpenActionSheet(s)
    /\ UNCHANGED <<submitting, taps>>

\* "+ New crate…": onChoose opens the modal, and then the picker's close, late,
\* does nothing.
OpenNewCrateModal(s) ==
    /\ Tap /\ openSheet # NoSheet
    /\ OpenActionSheet(s)
    /\ UNCHANGED <<awaited, submitting>>

\* A row is chosen, the scrim or the handle tapped.  A link leaves at once.
ChooseOrTapAway(immediate) ==
    /\ Tap /\ openSheet # NoSheet
    /\ CloseSheet(openSheet, immediate)
    /\ UNCHANGED <<drawer, drawerScrim, drawerLock, drags, awaited, submitting>>

SubmitCrate ==
    /\ Tap /\ openSheet # NoSheet
    /\ submitting' = submitting \cup {openSheet}
    /\ UNCHANGED <<held, kids, bodyClass, drawer, drawerScrim, drawerLock, sheets,
                   openSheet, drags, awaited>>

\* The answer closes the modal that asked, whatever is open by then.
CrateCreated(s, ok) ==
    /\ s \in submitting /\ submitting' = submitting \ {s}
    /\ IF ok THEN CloseSheet(s, FALSE) ELSE UNCHANGED <<held, kids, bodyClass, sheets, openSheet>>
    /\ UNCHANGED <<drawer, drawerScrim, drawerLock, drags, awaited, taps>>

SheetExit(s) ==
    /\ sheets[s] = "leaving"
    /\ sheets' = [sheets EXCEPT ![s] = "gone"] /\ kids' = kids \ {s}
    /\ drags' = drags \ {s}
    /\ UNCHANGED <<held, bodyClass, drawer, drawerScrim, drawerLock, openSheet,
                   awaited, submitting, taps>>

\* Escape: the sheet's listener captures it; the drawer's sees it only otherwise.
Escape ==
    /\ Tap
    /\ IF openSheet # NoSheet
       THEN CloseSheet(openSheet, FALSE) /\ UNCHANGED <<drawer, drawerScrim, drawerLock>>
       ELSE IsDrawerOpen(drawer) /\ SetDrawerOpen(FALSE)
    /\ UNCHANGED <<drags, awaited, submitting>>

(***************************************************************************)
(* wireDragDismiss, on the drawer and on each sheet: a finger put down on  *)
(* a panel that shows (nor on a list scrolled down, nor on what drags by   *)
(* itself), moved, and lifted when other things may have happened.         *)
(***************************************************************************)

DragStarts(p) ==
    /\ Tap
    /\ IF p = "drawer" THEN ~drawer.hidden /\ openSheet = NoSheet
       ELSE sheets[p] \in {"open", "leaving"}
    /\ drags' = drags \cup {p}
    /\ UNCHANGED <<held, kids, bodyClass, drawer, drawerScrim, drawerLock, sheets,
                   openSheet, awaited, submitting>>

\* Lifted: far enough, or fast enough, and downwards, dismisses.  A drag that
\* turned out to be horizontal had stopped, and dismisses nothing.
DragEnds(p, dismisses) ==
    /\ p \in drags /\ drags' = drags \ {p}
    /\ IF ~dismisses
       THEN UNCHANGED <<held, kids, bodyClass, drawer, drawerScrim, drawerLock, sheets, openSheet>>
       ELSE IF p = "drawer" THEN SetDrawerOpen(FALSE)
       ELSE CloseSheet(p, FALSE) /\ UNCHANGED <<drawer, drawerScrim, drawerLock>>
    /\ UNCHANGED <<awaited, submitting, taps>>

(***************************************************************************)
(* A soft navigation: before-swap closes the sheet, the body is replaced   *)
(* but for the bar and the upload chip, and after-swap puts up again, or   *)
(* clears, what the drawer had put on the old one.                         *)
(***************************************************************************)

Navigate ==
    LET closed  == IF openSheet = NoSheet THEN held ELSE Released(held, {})
        swapped == [depth |-> closed.depth, saved |-> closed.saved, overflow |-> "unset",
                    inert |-> closed.inert \cap {"chip", "scrim"}]
    IN  /\ Tap
        /\ sheets' = [s \in Sheets |-> IF sheets[s] = "new" THEN "new" ELSE "gone"]
        /\ openSheet' = NoSheet /\ drags' = drags \ Sheets
        /\ bodyClass' = IF IsDrawerOpen(drawer) THEN {"queueopen"} ELSE {}
        /\ IF IsDrawerOpen(drawer) THEN ApplyDrawerOverlay(swapped, {"page", "chip"})
           ELSE ClearDrawerOverlay(swapped, {"page", "chip"})
        /\ UNCHANGED <<drawer, awaited, submitting>>

OverlaysNext ==
    \/ ToggleDrawer
    \/ \E on \in {"scrim", "grip"} : TapAway(on)
    \/ DrawerExit \/ ScrimExit \/ ScrimRises
    \/ \E s \in Sheets : OpenMenu(s) \/ PickerOpens(s) \/ OpenNewCrateModal(s) \/ SheetExit(s)
    \/ AskPicker
    \/ \E immediate \in BOOLEAN : ChooseOrTapAway(immediate)
    \/ SubmitCrate
    \/ \E s \in Sheets, ok \in BOOLEAN : CrateCreated(s, ok)
    \/ Escape
    \/ \E p \in Sheets \cup {"drawer"} : DragStarts(p)
    \/ \E p \in drags, dismisses \in BOOLEAN : DragEnds(p, dismisses)
    \/ Navigate

OverlaysSpec == OverlaysInit /\ [][OverlaysNext]_overlaysVars

(***************************************************************************)
(* Properties.                                                             *)
(***************************************************************************)

OverlaysTypeOK ==
    /\ held.depth \in 0 .. 2 /\ {held.saved, held.overflow} \subseteq {"unset", "hidden"}
    /\ held.inert \subseteq {"page", "chip", "scrim"} \cup Sheets
    /\ kids \subseteq {"page", "chip", "scrim"} \cup Sheets
    /\ bodyClass \subseteq {"queueopen", "sheet-open"}
    /\ \A s \in Sheets : sheets[s] \in {"open", "leaving"} <=> s \in kids
    /\ drags \subseteq Sheets \cup {"drawer"} /\ submitting \subseteq Sheets

\* Whatever closes what, in whichever order, the page scrolls again when the
\* last overlay is shut and not before (the count of overlay.ts), only the
\* drawer makes it inert, an open sheet can be used, and a drawer opened
\* again during its exit is not taken away by the timers of that exit.
PageFollowsOverlays ==
    LET open  == IsDrawerOpen(drawer)
        sheet == openSheet # NoSheet
    IN  /\ held.depth = (IF open THEN 1 ELSE 0) + (IF sheet THEN 1 ELSE 0)
        /\ held.overflow = IF open \/ sheet THEN "hidden" ELSE "unset"
        /\ {"page", "chip"} \cap held.inert = IF open THEN {"page", "chip"} ELSE {}
        /\ bodyClass = (IF open THEN {"queueopen"} ELSE {})
                       \cup (IF sheet THEN {"sheet-open"} ELSE {})
        /\ drawer.expanded = open
        /\ {s \in Sheets : sheets[s] = "open"} = {openSheet} \ {NoSheet}
        /\ openSheet \notin held.inert
        /\ ~drawer.timer => drawer.hidden = ~open
        /\ ~drawerScrim.timer => ("scrim" \in kids <=> open)

\* site.ts:1386: "the scrim must be appended AFTER it or the scrim itself goes
\* inert and stops accepting the tap that closes the drawer."
ScrimTakesTap == IsDrawerOpen(drawer) => "scrim" \notin held.inert
=============================================================================
