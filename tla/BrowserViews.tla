---------------------------- MODULE BrowserViews ----------------------------
(***************************************************************************)
(* The browser tabs of the editor panel (components/Editor/BrowserViewer).  *)
(* A page is a native webview that lies over the window, so it is moved off *)
(* the screen when its tab is not shown and hidden while a dialog is open   *)
(* (BrowserHideGuard).  The webviews outlive the component and are created  *)
(* asynchronously.  Only the viewer of the tab that is shown is mounted,    *)
(* and only it hears that a dialog has opened or closed.  Tabs of files     *)
(* stand for no tab at all: they only leave no viewer mounted.              *)
(***************************************************************************)
EXTENDS Naturals, Sequences, FiniteSets, SequencesExt

CONSTANTS Url, Blank,   \* the URL of a new tab
          MaxBvTabs, MaxBvActs, MaxBvDialogs \* bounds: tabs ever opened, gestures, dialogs at once

VARIABLES bvTabs,     \* [id, url], in their order
          bvActive,   \* activeIndex, counted from 1
          bvMounted,  \* the tab whose viewer is mounted, 0 for none
          bvViews,    \* webviewRegistry, and where each webview is
          bvHidden,   \* the webviews that webview_hide has hidden
          bvCreating, \* createLocks
          bvNavs,     \* navigations in flight; their ids are navLocks
          bvBar,      \* the address bar of the mounted viewer
          bvHistory,  \* the URLs visited
          bvGuards,   \* the guards of open dialogs: number with a timer, fired, without effect
          bvLate,     \* ghost: webviews whose creation ended after their tab was left
          bvLost,     \* ghost: webviews that were hidden when their viewer was unmounted
          bvCalm,     \* ghost: nothing but one dialog has come since none was open
          bvActs, bvOpened

bvVars == <<bvTabs, bvActive, bvMounted, bvViews, bvHidden, bvCreating, bvNavs, bvBar, bvHistory,
            bvGuards, bvLate, bvLost, bvCalm, bvActs, bvOpened>>
bvPanes == <<bvOpened, bvTabs, bvActive, bvMounted, bvViews, bvHidden, bvCreating, bvLate,
             bvLost, bvCalm>>

Ids == 1 .. MaxBvTabs
Gesture == bvActs < MaxBvActs /\ bvActs' = bvActs + 1
NoGuards == [timer |-> 0, fired |-> 0, idle |-> 0]
Dialogs == bvGuards.timer + bvGuards.fired + bvGuards.idle

Bar(url) == [address |-> url, typed |-> Blank, list |-> <<>>, pick |-> 0, open |-> FALSE,
             aside |-> FALSE, crashed |-> FALSE]

\* addToUrlHistory.  Its order is left out: what is offered of it comes in any order.
Visited(u) == bvHistory \cup {u}

-----------------------------------------------------------------------------
\* hideWebview: off the screen, if it has been registered.
Hide(views, ids) == [v \in Ids |-> IF v \in ids /\ views[v] = "here" THEN "away" ELSE views[v]]
\* The effect of a viewer, whenever it is mounted or its URL changes: the other
\* webviews go away, its own is put in place, or created.
PlacedAlone(id, url, views) ==
    IF url # Blank /\ views[id] # "none" THEN [views EXCEPT ![id] = "here"] ELSE Hide(views, Ids)
Placed(id, url, views) ==
    IF url # Blank /\ views[id] # "none"
    THEN [Hide(views, Ids \ {id}) EXCEPT ![id] = "here"]
    ELSE Hide(views, Ids)
Show(id, url, views) ==
    /\ bvMounted' = id
    /\ bvViews' = Placed(id, url, views)
    /\ bvCreating' = bvCreating \cup (IF url # Blank /\ views[id] = "none" THEN {id} ELSE {})
    /\ bvLate' = {v \in bvLate : bvViews'[v] = "here"} \ {id}
    /\ bvLost' = IF bvMounted \notin {0, id} THEN bvLost \cup ({bvMounted} \cap bvHidden)
                 ELSE bvLost
    /\ bvCalm' = (bvCalm /\ Dialogs = 0)
    /\ bvBar' = Bar(url)
\* No viewer is mounted any more: a file's tab, or a closed panel.
ShowNone(views) ==
    /\ bvMounted' = 0
    /\ bvViews' = views
    /\ bvLate' = {v \in bvLate : views[v] = "here"}
    /\ bvLost' = (bvLost \cup ({bvMounted} \cap bvHidden)) \ {v \in Ids : views[v] = "none"}
    /\ bvCalm' = (bvCalm /\ Dialogs = 0)
    /\ bvBar' = Bar(Blank)
    /\ UNCHANGED bvCreating

OpenTab(url) ==
    /\ bvOpened < MaxBvTabs /\ Gesture
    /\ bvOpened' = bvOpened + 1
    /\ bvTabs' = Append(bvTabs, [id |-> bvOpened', url |-> url])
    /\ bvActive' = Len(bvTabs) + 1
    /\ Show(bvOpened', url, bvViews)
    /\ UNCHANGED <<bvHidden, bvNavs, bvHistory, bvGuards>>

Activate(i) ==
    /\ i \in DOMAIN bvTabs /\ bvMounted # bvTabs[i].id /\ Gesture
    /\ bvActive' = i
    /\ Show(bvTabs[i].id, bvTabs[i].url, bvViews)
    /\ UNCHANGED <<bvOpened, bvTabs, bvHidden, bvNavs, bvHistory, bvGuards>>
\* The tab of a file: hideAllBrowserWebviews.
LookAway ==
    /\ bvMounted # 0 /\ Gesture
    /\ ShowNone(Hide(bvViews, Ids))
    /\ UNCHANGED <<bvOpened, bvTabs, bvActive, bvHidden, bvNavs, bvHistory, bvGuards>>
\* handleClose: destroyAllBrowserWebviews.
ClosePanel ==
    /\ bvMounted # 0 /\ Gesture
    /\ ShowNone([v \in Ids |-> "none"])
    /\ bvHidden' = {}
    /\ UNCHANGED <<bvOpened, bvTabs, bvActive, bvNavs, bvHistory, bvGuards>>
\* handleCloseTab: destroyBrowserWebview, closeTab.
CloseTab(i) ==
    /\ i \in DOMAIN bvTabs /\ bvMounted # 0 /\ Gesture
    /\ LET id == bvTabs[i].id
           rest == RemoveAt(bvTabs, i)
           at == IF i <= bvActive /\ bvActive > 1 THEN bvActive - 1 ELSE bvActive
           views == [bvViews EXCEPT ![id] = "none"]
       IN  /\ bvTabs' = rest /\ bvActive' = at
           /\ bvHidden' = bvHidden \ {id}
           /\ IF rest = <<>> THEN ShowNone(views)
              ELSE IF rest[at].id = bvMounted
              THEN /\ bvViews' = views
                   /\ bvLate' = bvLate \ {id} /\ bvLost' = bvLost \ {id}
                   /\ UNCHANGED <<bvMounted, bvCreating, bvCalm, bvBar>>
              ELSE Show(rest[at].id, rest[at].url, views)
    /\ UNCHANGED <<bvOpened, bvNavs, bvHistory, bvGuards>>

\* getOrCreateWebview ends: the webview is registered and lies where the pane was,
\* whatever has become of its tab.
Created(id) ==
    /\ id \in bvCreating
    /\ bvCreating' = bvCreating \ {id}
    /\ bvViews' = [bvViews EXCEPT ![id] = "here"]
    /\ bvLate' = IF id = bvMounted THEN bvLate ELSE bvLate \cup {id}
    /\ bvCalm' = (bvCalm /\ Dialogs = 0)
    /\ UNCHANGED <<bvOpened, bvTabs, bvActive, bvMounted, bvHidden, bvNavs, bvBar, bvHistory,
                   bvGuards, bvLost, bvActs>>

-----------------------------------------------------------------------------
\* The address bar.
HasBar == bvMounted # 0 /\ ~bvBar.crashed
\* updateSuggestions: some of the history, in some order.
Lists == UNION {SetToSeqs(S) : S \in SUBSET bvHistory}
Suggest(bar, list) == [bar EXCEPT !.list = list, !.open = list # <<>>]
Focus(list) ==
    /\ HasBar /\ Gesture
    /\ bvBar' = [Suggest(bvBar, list) EXCEPT !.aside = @ \/ bvBar.pick # 0]
    /\ UNCHANGED <<bvPanes, bvNavs, bvHistory, bvGuards>>
\* handleAddressChange.
TypedKeepsPick(text) == [bvBar EXCEPT !.address = text, !.typed = text, !.aside = FALSE]
Typed(text) == [bvBar EXCEPT !.address = text, !.typed = text, !.pick = 0, !.aside = FALSE]
Change(text, list) ==
    /\ HasBar /\ Gesture
    /\ bvBar' = Suggest(Typed(text), list)
    /\ UNCHANGED <<bvPanes, bvNavs, bvHistory, bvGuards>>
\* handleKeyDown.  A pick that is not in the list is undefined: an arrow, whose pick
\* is looked up as the viewer is drawn, takes the viewer with it, Tab does nothing.
Picked(next) == [bvBar EXCEPT !.pick = next, !.aside = FALSE,
                              !.address = IF next = 0 THEN bvBar.typed ELSE bvBar.list[next]]
PickAt(next) ==
    bvBar' = IF next > Len(bvBar.list) THEN [bvBar EXCEPT !.crashed = TRUE] ELSE Picked(next)
Smaller(a, b) == IF a < b THEN a ELSE b
ArrowDown == HasBar /\ Gesture /\ PickAt(Smaller(bvBar.pick + 1, Len(bvBar.list)))
             /\ UNCHANGED <<bvPanes, bvNavs, bvHistory, bvGuards>>
ArrowUp == HasBar /\ Gesture /\ PickAt(IF bvBar.pick = 0 THEN 0 ELSE bvBar.pick - 1)
           /\ UNCHANGED <<bvPanes, bvNavs, bvHistory, bvGuards>>
Tab ==
    /\ HasBar /\ bvBar.open /\ bvBar.list # <<>> /\ Gesture
    /\ LET next == IF bvBar.pick = 0 THEN 1 ELSE bvBar.pick
       IN  bvBar' = IF next > Len(bvBar.list) THEN bvBar ELSE Picked(next)
    /\ UNCHANGED <<bvPanes, bvNavs, bvHistory, bvGuards>>
\* The pointer over a suggestion picks it; the address keeps what it says.
PointAt(i) ==
    /\ HasBar /\ bvBar.open /\ i \in DOMAIN bvBar.list /\ bvBar.pick # i /\ Gesture
    /\ bvBar' = [bvBar EXCEPT !.pick = i, !.aside = TRUE]
    /\ UNCHANGED <<bvPanes, bvNavs, bvHistory, bvGuards>>
\* Escape, a click outside, or the blur's timer.
CloseSuggestions ==
    /\ HasBar /\ bvBar.open
    /\ bvBar' = [bvBar EXCEPT !.open = FALSE]
    /\ UNCHANGED <<bvPanes, bvNavs, bvHistory, bvGuards, bvActs>>

\* navigate: the address shows the URL even when a navigation under way (navLocks)
\* drops it.
Target == IF bvBar.pick \in DOMAIN bvBar.list THEN bvBar.list[bvBar.pick] ELSE bvBar.address
Navigate(u) ==
    /\ HasBar /\ u # Blank /\ Gesture
    /\ bvBar' = [bvBar EXCEPT !.address = u, !.open = FALSE, !.aside = @ \/ bvBar.pick # 0]
    /\ IF \E n \in bvNavs : n.id = bvMounted
       THEN UNCHANGED <<bvNavs, bvCreating>>
       ELSE /\ bvNavs' = bvNavs \cup {[id |-> bvMounted, at |-> bvActive, url |-> u]}
            /\ bvCreating' = bvCreating \cup
                                 (IF bvViews[bvMounted] = "none" THEN {bvMounted} ELSE {})
    /\ UNCHANGED <<bvOpened, bvTabs, bvActive, bvMounted, bvViews, bvHidden, bvHistory,
                   bvGuards, bvLate, bvLost, bvCalm>>
Enter == Navigate(Target)
ClickSuggestion(i) == bvBar.open /\ i \in DOMAIN bvBar.list /\ Navigate(bvBar.list[i])

\* onUrlChange: the tab now at that index gets the URL, and its effects run again.
Renames(at, u) == at \in DOMAIN bvTabs /\ bvTabs[at].url # u
Renamed(at, u) ==
    /\ bvHistory' = Visited(u)
    /\ IF Renames(at, u)
       THEN /\ bvTabs' = [bvTabs EXCEPT ![at].url = u]
            /\ IF bvTabs[at].id = bvMounted
               THEN /\ bvViews' = Placed(bvMounted, u, bvViews)
                    /\ bvCreating' = bvCreating \cup
                                         (IF bvViews[bvMounted] = "none" THEN {bvMounted} ELSE {})
                    /\ bvLate' = {v \in bvLate : bvViews'[v] = "here"} \ {bvMounted}
               ELSE UNCHANGED <<bvViews, bvCreating, bvLate>>
       ELSE UNCHANGED <<bvTabs, bvViews, bvCreating, bvLate>>
\* setAddressValue of a URL that nobody typed: a pick stays, whatever it says.
Readdressed(u) == [bvBar EXCEPT !.address = u, !.aside = @ \/ bvBar.pick # 0]
\* The end of navigate, which goes on after a failure as after a success.
NavEnds(n) ==
    /\ n \in bvNavs /\ n.id \notin bvCreating
    /\ bvNavs' = bvNavs \ {n}
    /\ Renamed(n.at, n.url)
    /\ bvBar' = IF Renames(n.at, n.url) /\ bvTabs[n.at].id = bvMounted
                THEN Readdressed(n.url) ELSE bvBar
    /\ UNCHANGED <<bvOpened, bvActive, bvMounted, bvHidden, bvGuards, bvLost, bvCalm, bvActs>>
\* browser-url-changed: a page of the mounted viewer has loaded, by a link too.
PageLoaded(u) ==
    /\ bvMounted # 0 /\ bvViews[bvMounted] # "none" /\ Gesture
    /\ Renamed(bvActive, u)
    /\ bvBar' = Readdressed(u)
    /\ UNCHANGED <<bvOpened, bvActive, bvMounted, bvHidden, bvNavs, bvGuards, bvLost, bvCalm>>

-----------------------------------------------------------------------------
\* BrowserHideGuard.  A guard mounted while no webview is registered does nothing.
DialogOpens ==
    /\ Dialogs < MaxBvDialogs /\ Gesture
    /\ bvGuards' = IF \A v \in Ids : bvViews[v] = "none" THEN [bvGuards EXCEPT !.idle = @ + 1]
                   ELSE [bvGuards EXCEPT !.timer = @ + 1]
    /\ bvCalm' = (Dialogs = 0 /\ \E v \in Ids : bvViews[v] # "none")
    /\ UNCHANGED <<bvOpened, bvTabs, bvActive, bvMounted, bvViews, bvHidden, bvCreating, bvNavs,
                   bvBar, bvHistory, bvLate, bvLost>>
\* Events are heard by the mounted viewer alone.
Heard == {bvMounted} \cap {v \in Ids : bvViews[v] # "none"}
GuardFires ==
    /\ bvGuards.timer > 0
    /\ bvGuards' = [bvGuards EXCEPT !.timer = @ - 1, !.fired = @ + 1]
    /\ bvHidden' = bvHidden \cup Heard
    /\ UNCHANGED <<bvOpened, bvTabs, bvActive, bvMounted, bvViews, bvCreating, bvNavs, bvBar,
                   bvHistory, bvLate, bvLost, bvCalm, bvActs>>
\* The cleanup: the timer is cleared, and the page shown.
ShownLate(kind) == IF kind = "timer" THEN bvHidden \ Heard ELSE bvHidden
ShownAgain(kind) == IF kind = "idle" THEN bvHidden ELSE bvHidden \ Heard
DialogCloses(kind) ==
    /\ bvGuards[kind] > 0
    /\ bvGuards' = [bvGuards EXCEPT ![kind] = @ - 1]
    /\ bvHidden' = ShownAgain(kind)
    /\ bvLost' = IF kind = "idle" THEN bvLost ELSE bvLost \ Heard
    /\ bvCalm' = (Dialogs = 1)
    /\ UNCHANGED <<bvOpened, bvTabs, bvActive, bvMounted, bvViews, bvCreating, bvNavs, bvBar,
                   bvHistory, bvLate, bvActs>>

BvInit ==
    /\ bvTabs = <<>> /\ bvActive = 1 /\ bvMounted = 0
    /\ bvViews = [v \in Ids |-> "none"] /\ bvHidden = {} /\ bvCreating = {} /\ bvNavs = {}
    /\ bvBar = Bar(Blank) /\ bvHistory = {} /\ bvGuards = NoGuards
    /\ bvLate = {} /\ bvLost = {} /\ bvCalm = TRUE /\ bvActs = 0 /\ bvOpened = 0

BvNext ==
    \/ \E u \in Url \cup {Blank} : OpenTab(u)
    \/ \E i \in DOMAIN bvTabs : Activate(i) \/ CloseTab(i)
    \/ LookAway \/ ClosePanel
    \/ \E id \in Ids : Created(id)
    \/ \E list \in Lists : Focus(list) \/ \E u \in Url : Change(u, list)
    \/ ArrowDown \/ ArrowUp \/ Tab \/ CloseSuggestions
    \/ \E i \in DOMAIN bvBar.list : PointAt(i) \/ ClickSuggestion(i)
    \/ Enter
    \/ \E n \in bvNavs : NavEnds(n)
    \/ \E u \in Url : PageLoaded(u)
    \/ DialogOpens \/ GuardFires
    \/ \E kind \in {"timer", "fired", "idle"} : DialogCloses(kind)

BvSpec == BvInit /\ [][BvNext]_bvVars

-----------------------------------------------------------------------------
\* The variables hold values of their types.
BvTypeOK ==
    /\ bvTabs \in Seq([id : Ids, url : Url \cup {Blank}]) /\ bvActive \in Ids
    /\ bvMounted \in {0} \cup Ids
    /\ bvViews \in [Ids -> {"none", "here", "away"}]
    /\ bvHidden \subseteq Ids /\ bvCreating \subseteq Ids
    /\ bvNavs \subseteq [id : Ids, at : Ids, url : Url]
    /\ bvHistory \subseteq Url
    /\ bvGuards \in [{"timer", "fired", "idle"} -> 0 .. MaxBvDialogs]

\* A page lies over the window only in its own tab, or because its webview was ready
\* after the tab had been left (getOrCreateWebview, hideWebview).
OnlyTheShownPage == \A v \in Ids : bvViews[v] = "here" => v \in bvLate \cup {bvMounted}

\* A dialog that has been open for a while is not covered by a page, as long as
\* nothing else came: another dialog, another tab, a new webview (BrowserHideGuard).
NothingOverTheDialog ==
    bvGuards.fired > 0 /\ bvCalm => \A v \in Ids : bvViews[v] = "here" => v \in bvHidden \cup bvLate

\* Without a dialog the page of the tab that is shown is visible, unless its tab was
\* left while it was hidden (BrowserHideGuard's cleanup).
PageComesBack == bvGuards = NoGuards => bvHidden \subseteq bvLost

\* Enter goes where the address says, unless the pointer has picked a suggestion,
\* or since the last key the list or the address has changed under a pick: the bar
\* was focused again, a navigation was begun or ended, or a page has loaded
\* (handleKeyDown, handleAddressChange; none but typing resets selectedSuggestion).
EnterGoesWhereItSays == bvMounted # 0 => bvBar.aside \/ Target = bvBar.address
=============================================================================
