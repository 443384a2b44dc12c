------------------------------ MODULE Explorer ------------------------------
(***************************************************************************)
(* The file explorer of the sidebar (components/Sidebar/SidebarPanel): the *)
(* tree of the focused pane's directory, or of the pinned one.  Listings   *)
(* are answered in any order; a cache shows an earlier listing at once and *)
(* is refreshed behind.  A directory is known by the number of changes     *)
(* made in it, a listing by the number it saw; a directory may be the root *)
(* of the tree or an open row of it.                                       *)
(***************************************************************************)
EXTENDS Integers, FiniteSets

CONSTANTS ExDir,       \* directories
          NoDir,       \* none of them
          MaxEdits,    \* bound: changes on the disk
          MaxExActs    \* bound: gestures of the user

VARIABLES
  exPaneCwd,     \* directory of the focused pane
  exPinned,      \* the pinned directory (sessionStore.pinnedCwds) or NoDir
  exDisk,        \* [ExDir -> number of changes so far]
  exCache,       \* [ExDir -> listing seen, or Unread]  dirCache
  exShown,       \* the root's entries: [of, read]
  exCurrent,     \* currentDirRef
  exDue,         \* the listing effect has to run (cwd or refreshCount changed)
  exRefreshed,   \* refreshCount has changed: open rows are listed again
  exTimer,       \* the 300 ms before a cached root is listed again
  exListings,    \* listings of the root on their way: [dir, read, stale]
  exOpen,        \* openDirs
  exChildren,    \* [ExDir -> listing seen, or Unread]  childrenMap
  exRowListings, \* listings of rows on their way: [dir, read]
  exFocusRow,    \* focusedPath
  exMenu,        \* context menu: [dir, root] or NoMenu
  exInput,       \* the inline input: [mode, dir] or NoInput
  exTrash,       \* the row the confirmation dialog is about, or NoDir
  exDrag,        \* the row being dragged, or NoDir
  exOps,         \* file operations being carried out: sets of changed directories
  exEvents,      \* directories the watcher has seen changing
  exAsked,       \* ghost: changes the root had when it was last asked for
  exEdits, exActs

exVars == <<exPaneCwd, exPinned, exDisk, exCache, exShown, exCurrent, exDue,
            exRefreshed, exTimer, exListings, exOpen, exChildren, exRowListings,
            exFocusRow, exMenu, exInput, exTrash, exDrag, exOps, exEvents,
            exAsked, exEdits, exActs>>

Unread == -1
Failed == -2
Seen == 0 .. MaxEdits
NoMenu == [dir |-> NoDir, root |-> FALSE]
NoInput == [mode |-> "none", dir |-> NoDir]

ExTypeOK ==
  /\ exPaneCwd \in ExDir /\ exPinned \in ExDir \cup {NoDir}
  /\ exDisk \in [ExDir -> Seen]
  /\ exCache \in [ExDir -> Seen \cup {Unread}]
  /\ exShown.of \in ExDir \cup {NoDir} /\ exShown.read \in Seen \cup {Unread, Failed}
  /\ exCurrent \in ExDir \cup {NoDir}
  /\ {exDue, exRefreshed, exTimer} \subseteq BOOLEAN
  /\ exListings \subseteq [dir : ExDir, read : Seen \cup {Unread}, stale : BOOLEAN]
  /\ exOpen \subseteq ExDir
  /\ exChildren \in [ExDir -> Seen \cup {Unread}]
  /\ exRowListings \subseteq [dir : ExDir, read : Seen \cup {Unread}]
  /\ exFocusRow \in ExDir \cup {NoDir}
  /\ exMenu.dir \in ExDir \cup {NoDir}
  /\ exInput.mode \in {"none", "new", "rename"}
  /\ {exTrash, exDrag} \subseteq ExDir \cup {NoDir}
  /\ exOps \subseteq SUBSET ExDir /\ exEvents \subseteq ExDir
  /\ exAsked \in Seen /\ exEdits \in Seen /\ exActs \in 0 .. MaxExActs

\* The root of the tree.
Root == IF exPinned # NoDir THEN exPinned ELSE exPaneCwd

ExInit ==
  /\ exPaneCwd \in ExDir /\ exPinned = NoDir
  /\ exDisk = [d \in ExDir |-> 0]
  /\ exCache = [d \in ExDir |-> Unread]
  /\ exShown = [of |-> NoDir, read |-> Unread]
  /\ exCurrent = NoDir
  /\ exDue = TRUE /\ exRefreshed = FALSE /\ exTimer = FALSE
  /\ exListings = {} /\ exOpen = {}
  /\ exChildren = [d \in ExDir |-> Unread]
  /\ exRowListings = {}
  /\ exFocusRow = NoDir /\ exMenu = NoMenu /\ exInput = NoInput
  /\ exTrash = NoDir /\ exDrag = NoDir /\ exOps = {} /\ exEvents = {}
  /\ exAsked = 0 /\ exEdits = 0 /\ exActs = 0

(***************************************************************************)
(* The listing of the root                                                 *)
(***************************************************************************)
tree == <<exOpen, exChildren, exRowListings, exFocusRow>>
gestures == <<exMenu, exInput, exTrash, exDrag>>
world == <<exPaneCwd, exPinned, exDisk, exOps, exEvents, exEdits>>

\* refreshTree with the given directories invalidated first: the root's cached
\* listing is dropped, unless an earlier refresh has already taken its name.
Refresh(invalid) ==
  /\ exCache' = [d \in ExDir |-> IF d \in invalid \cup {exCurrent} THEN Unread
                                 ELSE exCache[d]]
  /\ exCurrent' = NoDir
  /\ exDue' = TRUE /\ exRefreshed' = TRUE
  /\ exAsked' = exDisk'[Root]

Outdated == {[l EXCEPT !.stale = TRUE] : l \in exListings}

\* The effect on [normalizedCwd, refreshCount]: its cleanup makes the earlier
\* listings stale and stops the timer; a cached listing is shown at once and
\* refreshed in 300 ms, otherwise the directory is listed now.
ListEffect ==
  /\ exDue /\ exDue' = FALSE
  /\ exCurrent' = Root
  /\ IF exCache[Root] # Unread
     THEN /\ exShown' = [of |-> Root, read |-> exCache[Root]]
          /\ exTimer' = TRUE
          /\ exListings' = Outdated
     ELSE /\ exTimer' = FALSE
          /\ exListings' = Outdated \cup
                           {[dir |-> Root, read |-> Unread, stale |-> FALSE]}
          /\ UNCHANGED exShown
  /\ UNCHANGED <<tree, gestures, world, exCache, exRefreshed, exAsked, exActs>>

TimerLists ==
  /\ exTimer /\ ~exDue /\ exTimer' = FALSE
  /\ exListings' = exListings \cup {[dir |-> Root, read |-> Unread, stale |-> FALSE]}
  /\ UNCHANGED <<tree, gestures, world, exCache, exShown, exCurrent, exDue,
                 exRefreshed, exAsked, exActs>>

\* The back end reads the directory.
Serve(l) ==
  /\ l.read = Unread
  /\ exListings' = (exListings \ {l}) \cup {[l EXCEPT !.read = exDisk[l.dir]]}
  /\ UNCHANGED <<tree, gestures, world, exCache, exShown, exCurrent, exDue,
                 exRefreshed, exTimer, exAsked, exActs>>

\* Wrong: an outdated answer is shown as well.
ShownAnyway(l, read) == exShown' = [of |-> l.dir, read |-> read]

\* Only the answer to the latest effect is shown.
ShownIfFresh(l, read) ==
  exShown' = IF l.stale THEN exShown ELSE [of |-> l.dir, read |-> read]

\* An answer is cached in any case, an outdated one over a later one too.
Listed(l) ==
  /\ l.read # Unread
  /\ exListings' = exListings \ {l}
  /\ exCache' = [exCache EXCEPT ![l.dir] = l.read]
  /\ ShownIfFresh(l, l.read)
  /\ UNCHANGED <<tree, gestures, world, exCurrent, exDue, exRefreshed, exTimer,
                 exAsked, exActs>>

ListingFails(l) ==
  /\ exListings' = exListings \ {l}
  /\ ShownIfFresh(l, Failed)
  /\ UNCHANGED <<tree, gestures, world, exCache, exCurrent, exDue, exRefreshed,
                 exTimer, exAsked, exActs>>

(***************************************************************************)
(* Rows: useTreeKeyboard.ts                                                *)
(***************************************************************************)
\* A row's path is made of the root's name, whatever directory the entries are of.
Rows == IF exShown.of = NoDir \/ exShown.read = Failed THEN {} ELSE ExDir \ {Root}

\* fetchDirChildren: the cached listing at once, then the listing itself.
Fetched(dirs) == exRowListings \cup {[dir |-> d, read |-> Unread] : d \in dirs}
FromCache(dirs) ==
  [d \in ExDir |-> IF d \in dirs /\ exCache[d] # Unread THEN exCache[d]
                   ELSE exChildren[d]]

Toggled(d) ==
  IF d \in exOpen
  THEN exOpen' = exOpen \ {d} /\ UNCHANGED <<exChildren, exRowListings>>
  ELSE /\ exOpen' = exOpen \cup {d}
       /\ exChildren' = FromCache({d})
       /\ exRowListings' = Fetched({d})

\* Every open row is listed again after a refresh.
RefetchOpen ==
  /\ exRefreshed /\ exRefreshed' = FALSE
  /\ exChildren' = FromCache(exOpen)
  /\ exRowListings' = Fetched(exOpen)
  /\ UNCHANGED <<gestures, world, exCache, exShown, exCurrent, exDue, exTimer,
                 exListings, exOpen, exFocusRow, exAsked, exActs>>

ServeRow(l) ==
  /\ l.read = Unread
  /\ exRowListings' = (exRowListings \ {l}) \cup {[l EXCEPT !.read = exDisk[l.dir]]}
  /\ UNCHANGED <<gestures, world, exCache, exShown, exCurrent, exDue, exRefreshed,
                 exTimer, exListings, exOpen, exChildren, exFocusRow, exAsked, exActs>>

\* The last answer to arrive is the one shown and cached; a failure is ignored.
RowListed(l) ==
  /\ exRowListings' = exRowListings \ {l}
  /\ \/ /\ l.read # Unread
        /\ exCache' = [exCache EXCEPT ![l.dir] = l.read]
        /\ exChildren' = [exChildren EXCEPT ![l.dir] = l.read]
     \/ UNCHANGED <<exCache, exChildren>>
  /\ UNCHANGED <<gestures, world, exShown, exCurrent, exDue, exRefreshed, exTimer,
                 exListings, exOpen, exFocusRow, exAsked, exActs>>

Gesture == exActs < MaxExActs /\ exActs' = exActs + 1

listing == <<exCache, exShown, exCurrent, exDue, exRefreshed, exTimer, exListings,
             exAsked>>

\* A click on a row focuses it and opens or closes it.
ClickRow(d) ==
  /\ Gesture /\ d \in Rows
  /\ exFocusRow' = d /\ Toggled(d)
  /\ UNCHANGED <<gestures, world, listing>>

\* Up and down move over the visible rows; with the focus on none, to the first.
ArrowRow(d) ==
  /\ Gesture /\ d \in Rows /\ exFocusRow # d
  /\ exFocusRow' = d
  /\ UNCHANGED <<gestures, world, listing, exOpen, exChildren, exRowListings>>

\* Enter toggles the focused row, right only opens it and left only closes it;
\* a row that is not shown any more is not found.
KeyRow(key) ==
  /\ Gesture /\ exFocusRow \in Rows
  /\ key = "right" => exFocusRow \notin exOpen
  /\ key = "left" => exFocusRow \in exOpen
  /\ Toggled(exFocusRow)
  /\ UNCHANGED <<gestures, world, listing, exFocusRow>>

(***************************************************************************)
(* File operations                                                         *)
(***************************************************************************)
Ask(dirs) == exOps' = exOps \cup {dirs}

OpenMenu(d) ==
  /\ Gesture /\ d \in Rows \cup {Root}
  /\ exMenu' = [dir |-> d, root |-> d = Root]
  /\ UNCHANGED <<exInput, exTrash, exDrag, world, listing, tree>>

CloseMenu ==
  /\ exMenu # NoMenu /\ exMenu' = NoMenu
  /\ UNCHANGED <<exInput, exTrash, exDrag, world, listing, tree, exActs>>

\* The other entries write to the focused terminal, open a tab or a window, or
\* copy the name; without a focused terminal the menu stays.
MenuElsewhere ==
  /\ exMenu # NoMenu /\ exMenu' \in {NoMenu, exMenu}
  /\ UNCHANGED <<exInput, exTrash, exDrag, world, listing, tree, exActs>>

\* handleNewFile, handleNewFolder: the directory is opened for the input.
NewHere ==
  /\ exMenu # NoMenu /\ exMenu' = NoMenu
  /\ exInput' = [mode |-> "new", dir |-> exMenu.dir]
  /\ IF exMenu.dir \in exOpen THEN UNCHANGED <<exOpen, exChildren, exRowListings>>
     ELSE Toggled(exMenu.dir)
  /\ UNCHANGED <<exTrash, exDrag, world, listing, exFocusRow, exActs>>

\* handleRename: of a row, never of the root.
RenameHere ==
  /\ exMenu # NoMenu /\ ~exMenu.root /\ exMenu' = NoMenu
  /\ exInput' = [mode |-> "rename", dir |-> exMenu.dir]
  /\ UNCHANGED <<exTrash, exDrag, world, listing, tree, exActs>>

\* Enter or a click elsewhere commits the input; an empty or unchanged name
\* changes nothing.
CommitInput ==
  /\ exInput # NoInput /\ exInput' = NoInput
  /\ \/ UNCHANGED exOps
     \/ Ask(IF exInput.mode = "new" THEN {exInput.dir} ELSE {Root})
  /\ UNCHANGED <<exMenu, exTrash, exDrag, exPaneCwd, exPinned, exDisk, exEvents,
                 exEdits, listing, tree, exActs>>

CancelInput ==
  /\ exInput # NoInput /\ exInput' = NoInput
  /\ UNCHANGED <<exMenu, exTrash, exDrag, world, listing, tree, exActs>>

\* handleTrash asks first.
TrashHere ==
  /\ exMenu # NoMenu /\ ~exMenu.root /\ exMenu' = NoMenu
  /\ exTrash' = exMenu.dir
  /\ UNCHANGED <<exInput, exDrag, world, listing, tree, exActs>>

AnswerTrash(yes) ==
  /\ exTrash # NoDir /\ exTrash' = NoDir
  /\ IF yes THEN Ask({Root}) ELSE UNCHANGED exOps
  /\ UNCHANGED <<exMenu, exInput, exDrag, exPaneCwd, exPinned, exDisk, exEvents,
                 exEdits, listing, tree, exActs>>

\* TreeComponents.tsx: five pixels of movement start a drag.
DragRow(d) ==
  /\ Gesture /\ d \in Rows /\ exDrag = NoDir
  /\ exDrag' = d
  /\ UNCHANGED <<exMenu, exInput, exTrash, world, listing, tree>>

\* onUp: on another folder or on the header the file is moved there - never into
\* itself, nor to where it is -, on a terminal its name is typed.
Drop(dest) ==
  /\ exDrag # NoDir /\ exDrag' = NoDir
  /\ IF dest = exDrag \/ dest = NoDir THEN UNCHANGED exOps
     ELSE Ask({Root, dest})
  /\ UNCHANGED <<exMenu, exInput, exTrash, exPaneCwd, exPinned, exDisk, exEvents,
                 exEdits, listing, tree, exActs>>

\* The back end has done it: the tree is refreshed, with the listings of the two
\* directories of a move dropped.  A failure is only logged.
Carried(o) ==
  /\ exEdits < MaxEdits /\ exEdits' = exEdits + 1
  /\ exDisk' = [d \in ExDir |-> IF d \in o THEN exDisk[d] + 1 ELSE exDisk[d]]
  /\ exOps' = exOps \ {o}
  /\ Refresh(IF Cardinality(o) > 1 THEN o ELSE {})
  /\ UNCHANGED <<exPaneCwd, exPinned, exEvents, exShown, exTimer, exListings,
                 tree, gestures, exActs>>

OpFails(o) ==
  /\ exOps' = exOps \ {o}
  /\ UNCHANGED <<exPaneCwd, exPinned, exDisk, exEvents, exEdits, listing, tree,
                 gestures, exActs>>

\* Another program changes a directory; the watcher tells of those it was given,
\* the root and the open rows.
Edit(d) ==
  /\ exEdits < MaxEdits /\ exEdits' = exEdits + 1
  /\ exDisk' = [exDisk EXCEPT ![d] = @ + 1]
  /\ exEvents' = IF d \in exOpen \cup {Root} THEN exEvents \cup {d} ELSE exEvents
  /\ UNCHANGED <<exPaneCwd, exPinned, exOps, listing, tree, gestures, exActs>>

FsChange ==
  /\ exEvents # {} /\ exEvents' = {}
  /\ UNCHANGED exDisk
  /\ Refresh(exEvents)
  /\ UNCHANGED <<exPaneCwd, exPinned, exOps, exEdits, exShown, exTimer, exListings,
                 tree, gestures, exActs>>

\* The button, or the end of a command in a terminal (which drops every listing).
RefreshNow(invalid) ==
  /\ Gesture
  /\ UNCHANGED exDisk
  /\ Refresh(invalid)
  /\ UNCHANGED <<exPaneCwd, exPinned, exOps, exEvents, exEdits, exShown, exTimer,
                 exListings, tree, gestures>>

(***************************************************************************)
(* Another root                                                            *)
(***************************************************************************)
Moved == exDue' = (exDue \/ Root' # Root) /\ exAsked' = IF Root' # Root
                                                         THEN exDisk[Root'] ELSE exAsked

\* The shell changes directory, or another pane gets the focus.
Chdir(d) ==
  /\ Gesture /\ exPaneCwd # d
  /\ exPaneCwd' = d /\ UNCHANGED exPinned
  /\ Moved
  /\ UNCHANGED <<exDisk, exOps, exEvents, exEdits, exCache, exShown, exCurrent,
                 exRefreshed, exTimer, exListings, tree, gestures>>

\* handleTogglePin: pins the focused pane's directory, or unpins.
TogglePin ==
  /\ Gesture
  /\ exPinned' = IF exPinned = NoDir THEN exPaneCwd ELSE NoDir
  /\ UNCHANGED exPaneCwd
  /\ Moved
  /\ UNCHANGED <<exDisk, exOps, exEvents, exEdits, exCache, exShown, exCurrent,
                 exRefreshed, exTimer, exListings, tree, gestures>>

ExNext ==
  \/ ListEffect \/ TimerLists \/ RefetchOpen
  \/ \E l \in exListings : Serve(l) \/ Listed(l) \/ ListingFails(l)
  \/ \E l \in exRowListings : ServeRow(l) \/ RowListed(l)
  \/ \E d \in ExDir : ClickRow(d) \/ ArrowRow(d) \/ OpenMenu(d) \/ DragRow(d)
                      \/ Edit(d) \/ Chdir(d)
  \/ \E key \in {"enter", "right", "left"} : KeyRow(key)
  \/ CloseMenu \/ MenuElsewhere \/ NewHere \/ RenameHere \/ CommitInput \/ CancelInput \/ TrashHere
  \/ \E yes \in BOOLEAN : AnswerTrash(yes)
  \/ \E d \in ExDir \cup {NoDir} : Drop(d)
  \/ \E o \in exOps : Carried(o) \/ OpFails(o)
  \/ FsChange \/ RefreshNow({}) \/ RefreshNow(ExDir) \/ TogglePin

ExSpec == ExInit /\ [][ExNext]_exVars

\* However listings, refreshes and changes of directory overlap: when nothing of
\* the root is on its way any more, the tree shows the root's own entries, read
\* no earlier than they were last asked for (or nothing, if that failed).
TreeIsCurrent ==
  ~exDue /\ ~exTimer /\ (\A l \in exListings : l.stale) =>
    /\ exShown.of = Root
    /\ exShown.read = Failed \/ exShown.read >= exAsked
=============================================================================
