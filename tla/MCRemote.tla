----------------------------- MODULE MCRemote -----------------------------
(***************************************************************************)
(* Other machines, other programs and other pages: remote panes, sharing   *)
(* and signing in, prompts on the phone, the AI tools' logs and the        *)
(* browser's views.  As in MCTerminal each behaviour runs one of them.     *)
(* The theorems about what a run checks follow it, component by component. *)
(***************************************************************************)
EXTENDS Naturals, Sequences, FiniteSetTheorems, TLC, TLAPS

CONSTANTS
  Devices, None, MaxEvents, MaxOps, MaxChunks, MaxLinks, MaxToggles,
  TailRoom, HistoryRoom, BridgeRoom, Room, MaxShCalls, MaxShDrops, MaxFlows, MaxPolls, MaxPrompts,
  MaxChanges, MaxRequests, NoSnapshot, LogSession, LogCacheSize,
  MaxLogClicks, MaxLogLoads, HookRow, NoRow, MaxHookLoads, Url, Blank,
  MaxBvTabs, MaxBvActs, MaxBvDialogs

VARIABLES
  part,   \* the component that runs; the others are idle
  dialing, link, wire, calls, ending, conns, listed, tabs, mapped,
  active, view, viewing, pendingView, ops, forgot,   \* RemoteView
  printed, aired, bridge, stage, outputLinks, asked, historySent, replay,
  channel, shownTerm, opened, sizing, early, held, display, privacy,
  toggles, dropped, outdated, unrelayed,   \* RemoteOutput
  shStatus, shToast, shLogin, shEnabled, shDialog, shListed,
  shCalls, shSent, shHost, shRooms, shOrphans, shJoining, shEvents,
  shDrops, shRefused, shMissed,   \* Sharing
  isAuthenticated, starting, code, isPolling, isDialogOpen,
  flows, polls, waiting, asking, expired, resume, hosting,   \* Login
  prompts, stored, hydrating, read, deferred, pushTimer,
  invoked, latest, hydrated, ws, promptsDirty, phone, raced,
  changes, promptsLinks, requests,   \* PromptSync
  kind, place, entries, loading, loadError, viewMode,
  cwdFilter, filter, openGroups, tooltip, tooltipMessages,
  tooltipLoading, showMore, sessionCache, loads, reads,
  overtaken, logClicks, logLoads,   \* LogPanels
  hookNodes, hookLoading, hookRequests, pointer, showTimer,
  hideTimer, tip, vanished, hookLoads,   \* HookLog
  bvTabs, bvActive, bvMounted, bvViews, bvHidden,
  bvCreating, bvNavs, bvBar, bvHistory, bvGuards, bvLate,
  bvLost, bvCalm, bvActs, bvOpened   \* BrowserViews

Rv == INSTANCE RemoteView
Ro == INSTANCE RemoteOutput WITH
  links <- outputLinks
Sh == INSTANCE Sharing
Lo == INSTANCE Login
Ps == INSTANCE PromptSync WITH
  links <- promptsLinks
Lp == INSTANCE LogPanels
Hl == INSTANCE HookLog
Bv == INSTANCE BrowserViews

Parts == {"view", "output", "sharing", "login", "prompts", "logs", "hooks",
          "browser"}
Idle == "idle"

Init ==
  /\ part \in Parts
  /\ IF part = "view"
       THEN Rv!Init
       ELSE /\ dialing = Idle /\ link = Idle /\ wire = Idle /\ calls = Idle /\ ending = Idle
            /\ conns = Idle /\ listed = Idle /\ tabs = Idle /\ mapped = Idle
            /\ active = Idle /\ view = Idle /\ viewing = Idle
            /\ pendingView = Idle /\ ops = Idle /\ forgot = Idle
  /\ IF part = "output"
       THEN Ro!Init
       ELSE /\ printed = Idle /\ stage = Idle /\ outputLinks = Idle
            /\ asked = Idle /\ historySent = Idle /\ replay = Idle
            /\ channel = Idle /\ shownTerm = Idle /\ opened = Idle
            /\ early = Idle /\ held = Idle /\ display = Idle /\ privacy = Idle
            /\ toggles = Idle /\ dropped = Idle /\ aired = Idle
            /\ bridge = Idle /\ sizing = Idle /\ outdated = Idle
            /\ unrelayed = Idle
  /\ IF part = "sharing"
       THEN Sh!ShInit
       ELSE /\ shStatus = Idle /\ shToast = Idle /\ shLogin = Idle
            /\ shEnabled = Idle /\ shDialog = Idle /\ shListed = Idle
            /\ shCalls = Idle /\ shSent = Idle /\ shHost = Idle
            /\ shRooms = Idle /\ shJoining = Idle /\ shEvents = Idle
            /\ shDrops = Idle /\ shRefused = Idle
            /\ shOrphans = Idle /\ shMissed = Idle
  /\ IF part = "login"
       THEN Lo!Init
       ELSE /\ isAuthenticated = Idle /\ starting = Idle /\ code = Idle
            /\ isPolling = Idle /\ isDialogOpen = Idle /\ flows = Idle
            /\ polls = Idle /\ waiting = Idle /\ asking = Idle
            /\ expired = Idle /\ resume = Idle /\ hosting = Idle
  /\ IF part = "prompts"
       THEN Ps!Init
       ELSE /\ prompts = Idle /\ stored = Idle /\ hydrating = Idle
            /\ read = Idle /\ deferred = Idle /\ pushTimer = Idle
            /\ invoked = Idle /\ latest = Idle /\ hydrated = Idle /\ ws = Idle
            /\ promptsDirty = Idle /\ phone = Idle /\ raced = Idle
            /\ changes = Idle /\ promptsLinks = Idle /\ requests = Idle
  /\ IF part = "logs"
       THEN Lp!Init
       ELSE /\ kind = Idle /\ place = Idle /\ entries = Idle /\ loading = Idle
            /\ loadError = Idle /\ viewMode = Idle /\ cwdFilter = Idle
            /\ filter = Idle /\ openGroups = Idle /\ tooltip = Idle
            /\ tooltipMessages = Idle /\ tooltipLoading = Idle
            /\ showMore = Idle /\ sessionCache = Idle /\ loads = Idle
            /\ reads = Idle /\ overtaken = Idle /\ logClicks = Idle
            /\ logLoads = Idle
  /\ IF part = "hooks"
       THEN Hl!Init
       ELSE /\ hookNodes = Idle /\ hookLoading = Idle /\ hookRequests = Idle
            /\ pointer = Idle /\ showTimer = Idle /\ hideTimer = Idle
            /\ tip = Idle /\ vanished = Idle /\ hookLoads = Idle
  /\ IF part = "browser"
       THEN Bv!BvInit
       ELSE /\ bvTabs = Idle /\ bvActive = Idle /\ bvMounted = Idle
            /\ bvViews = Idle /\ bvHidden = Idle /\ bvCreating = Idle
            /\ bvNavs = Idle /\ bvBar = Idle /\ bvHistory = Idle
            /\ bvGuards = Idle /\ bvLate = Idle /\ bvLost = Idle
            /\ bvCalm = Idle /\ bvActs = Idle /\ bvOpened = Idle

rvVars == <<dialing, link, wire, calls, ending, conns, listed, tabs, mapped, active,
            view, viewing, pendingView, ops, forgot>>
roVars == <<printed, stage, outputLinks, asked, historySent, replay,
            channel, shownTerm, opened, early, held, display, privacy,
            toggles, dropped, aired, bridge, sizing, outdated, unrelayed>>
shVars == <<shStatus, shToast, shLogin, shEnabled, shDialog, shListed,
            shCalls, shSent, shHost, shRooms, shOrphans, shJoining, shEvents,
            shDrops, shRefused, shMissed>>
loVars == <<isAuthenticated, starting, code, isPolling, isDialogOpen, flows,
            polls, waiting, asking, expired, resume, hosting>>
psVars == <<prompts, stored, hydrating, read, deferred, pushTimer, invoked,
            latest, hydrated, ws, promptsDirty, phone, raced, changes,
            promptsLinks, requests>>
lpVars == <<kind, place, entries, loading, loadError, viewMode, cwdFilter,
            filter, openGroups, tooltip, tooltipMessages, tooltipLoading,
            showMore, sessionCache, loads, reads, overtaken, logClicks,
            logLoads>>
hlVars == <<hookNodes, hookLoading, hookRequests, pointer, showTimer,
            hideTimer, tip, vanished, hookLoads>>
bvVars == <<bvTabs, bvActive, bvMounted, bvViews, bvHidden, bvCreating,
            bvNavs, bvBar, bvHistory, bvGuards, bvLate, bvLost, bvCalm,
            bvActs, bvOpened>>
vars == <<part, rvVars, roVars, shVars, loVars, psVars, lpVars, hlVars,
          bvVars>>

Next ==
  /\ UNCHANGED part
  /\ IF part = "view" THEN Rv!Next ELSE UNCHANGED rvVars
  /\ IF part = "output" THEN Ro!Next ELSE UNCHANGED roVars
  /\ IF part = "sharing" THEN Sh!ShNext ELSE UNCHANGED shVars
  /\ IF part = "login" THEN Lo!Next ELSE UNCHANGED loVars
  /\ IF part = "prompts" THEN Ps!Next ELSE UNCHANGED psVars
  /\ IF part = "logs" THEN Lp!Next ELSE UNCHANGED lpVars
  /\ IF part = "hooks" THEN Hl!Next ELSE UNCHANGED hlVars
  /\ IF part = "browser" THEN Bv!BvNext ELSE UNCHANGED bvVars

Spec == Init /\ [][Next]_vars

\* The host treats the clients that join it alike, and no other part has them.
Symmetry == Permutations(Room)

-----------------------------------------------------------------------------
(* One type invariant for each component.                                    *)
TypeOK ==
  /\ part = "view" => Rv!TypeOK
  /\ part = "output" => Ro!TypeOK
  /\ part = "sharing" => Sh!ShTypeOK
  /\ part = "login" => Lo!TypeOK
  /\ part = "prompts" => Ps!TypeOK
  /\ part = "logs" => Lp!TypeOK
  /\ part = "hooks" => Hl!TypeOK
  /\ part = "browser" => Bv!BvTypeOK

(* The far side is shown everything: a remote pane misses no output but what  *)
(* a masker dropped, what the host had no room for, and what it relayed while *)
(* the client was not in its loop's map; and the phone has the prompts the    *)
(* window has, once all is quiet (remotePtyOutputBuffer.ts,                   *)
(* secretDetector.ts, server_host.rs 650-755, promptStore.ts).                *)
TheFarSideIsCurrent ==
  /\ part = "output" => Ro!NothingIsMissing
  /\ part = "prompts" => Ps!PhoneIsCurrent

(* Who is there is known: no tab is left of a device that is no longer        *)
(* connected, everybody who watches is listed, but for the clients of an      *)
(* ended task that a stop did not reach, and a code the user is asked         *)
(* to enter is waited for (remoteStore.ts 252-264, 523-541; server_host.rs;   *)
(* authStore.ts 53-246).                                                      *)
WhoIsThereIsKnown ==
  /\ part = "view" => Rv!NoGhostTabs
  /\ part = "sharing" => Sh!NobodyWatchesUnseen
  /\ part = "login" => Lo!ShownCodeIsPolled

(* The logs' details belong to the row they are shown for                     *)
(* (ClaudeLogPanel.tsx, CodexLogPanel.tsx, GeminiLogPanel.tsx,                *)
(* HookLogPanel.tsx).                                                         *)
DetailsMatchTheirRow ==
  /\ part = "logs" => Lp!MessagesOfTheTitle
  /\ part = "hooks" => Hl!TipIsHeld

(* The browser shows its page, and only that: no other tab's page, none over  *)
(* a dialog, the page again after it, and what Enter was pressed on           *)
(* (webviewHelpers.ts, BrowserViewer.tsx).                                    *)
BrowserShowsItsPage ==
  part = "browser" =>
    /\ Bv!OnlyTheShownPage /\ Bv!NothingOverTheDialog
    /\ Bv!PageComesBack /\ Bv!EnterGoesWhereItSays

(***************************************************************************)
(* Theorems                                                                *)
(***************************************************************************)
\* The rows of the hook log are neither the tip nor the absence of a row.
ASSUME RowAssumption == "tip" \notin HookRow /\ NoRow \notin HookRow /\ NoRow # "tip"
\* None is neither a device nor a status.
ASSUME DeviceAssumption ==
  None \notin Devices /\ None \notin {"connecting", "connected", "failed"}
\* The bound on the losses of the signaling server is a number.
ASSUME ShareAssumption == MaxShDrops \in Nat

\* A step of each part, or none of it.
ViewNext == [Rv!Next]_rvVars
OutputNext == [Ro!Next]_roVars
ShareNext == [Sh!ShNext]_shVars
LoginNext == [Lo!Next]_loVars
PromptNext == [Ps!Next]_psVars
LogNext == [Lp!Next]_lpVars
HookNext == [Hl!Next]_hlVars
BrowserNext == [Bv!BvNext]_bvVars

\* A step is a step of the part that runs.
LEMMA PartsStep ==
  ASSUME [Next]_vars
  PROVE  /\ part' = part
         /\ part = "view" => ViewNext
         /\ part = "output" => OutputNext
         /\ part = "sharing" => ShareNext
         /\ part = "login" => LoginNext
         /\ part = "prompts" => PromptNext
         /\ part = "logs" => LogNext
         /\ part = "hooks" => HookNext
         /\ part = "browser" => BrowserNext
  BY DEF Next, vars, ViewNext, OutputNext, ShareNext, LoginNext, PromptNext, LogNext,
         HookNext, BrowserNext

-----------------------------------------------------------------------------
\* Until a click has overtaken a read, the reads whose answer will be shown
\* are of the session in the title.
LiveReadsAreOfTheTitle ==
  tooltip # None /\ ~overtaken => \A r \in reads : r.live => r.key = tooltip

\* A log panel's messages stay those of the title, unless a read was overtaken.
LEMMA LogStep ==
  ASSUME Lp!MessagesOfTheTitle, LiveReadsAreOfTheTitle, LogNext
  PROVE  Lp!MessagesOfTheTitle' /\ LiveReadsAreOfTheTitle'
<1>. USE DEF Lp!MessagesOfTheTitle, LiveReadsAreOfTheTitle, Lp!listVars, Lp!lookVars, Lp!detailVars, Lp!logWorld
<1>1. CASE Lp!LoadHistory \/ Lp!LoadFailed \/ Lp!Look \/ Lp!ShowMore
           \/ \E data \in SUBSET LogSession : Lp!Loaded(data)
  BY <1>1 DEF Lp!LoadHistory, Lp!LoadFailed, Lp!Look, Lp!ShowMore, Lp!Loaded
<1>2. CASE Lp!HandleDetailClose
  BY <1>2 DEF Lp!HandleDetailClose, Lp!CloseDetail
<1>3. ASSUME NEW k \in LogSession, Lp!HandleRowClick(k)
      PROVE Lp!MessagesOfTheTitle' /\ LiveReadsAreOfTheTitle'
  <2>1. CASE Lp!CloseDetail
    BY <2>1 DEF Lp!CloseDetail
  <2>2. CASE Lp!OpenDetail(k)
    <3>1. /\ tooltip' = k /\ tooltipMessages' \in {k, None}
          /\ \A r \in reads' : r \in reads \/ r.key = k
          /\ overtaken' = \E r \in reads : r.live /\ r.key # k
      BY <2>2 DEF Lp!OpenDetail, Lp!Opened
    <3>. QED
      BY <3>1
  <2>. QED
    BY <1>3, <2>1, <2>2 DEF Lp!HandleRowClick
<1>4. ASSUME NEW r \in reads, NEW ok \in BOOLEAN, Lp!ReadDone(r, ok)
      PROVE Lp!MessagesOfTheTitle' /\ LiveReadsAreOfTheTitle'
  BY <1>4 DEF Lp!ReadDone
<1>5. CASE Lp!Remount
  BY <1>5 DEF Lp!Remount
<1>6. CASE UNCHANGED lpVars
  BY <1>6 DEF lpVars
<1>. QED
  BY <1>1, <1>2, <1>3, <1>4, <1>5, <1>6 DEF LogNext, Lp!Next

\* A tip that is about to open is of the row the pointer is on, and none is
\* about to close while the pointer is on a row.
WhyATipIsShown ==
  /\ showTimer # NoRow /\ ~vanished => pointer \in HookRow
  /\ pointer \in HookRow => showTimer \in {NoRow, pointer} /\ ~hideTimer

\* The hook log's tip stays one the pointer holds.
LEMMA HookStep ==
  ASSUME Hl!TipIsHeld, WhyATipIsShown, HookNext
  PROVE  Hl!TipIsHeld' /\ WhyATipIsShown'
<1>. USE RowAssumption DEF Hl!TipIsHeld, WhyATipIsShown, Hl!hoverVars, Hl!RowsGo
<1>1. CASE Hl!Refresh \/ Hl!HandleClear
  BY <1>1 DEF Hl!Refresh, Hl!HandleClear
<1>2. CASE Hl!HandleHoverLeave \/ Hl!HandleTipEnter \/ Hl!HandleTipLeave
  BY <1>2 DEF Hl!HandleHoverLeave, Hl!HandleTipEnter, Hl!HandleTipLeave
<1>3. CASE Hl!ShowTip \/ Hl!HideTip
  BY <1>3 DEF Hl!ShowTip, Hl!HideTip
<1>4. ASSUME NEW tree \in SUBSET HookRow, Hl!HooksRead(tree) PROVE Hl!TipIsHeld' /\ WhyATipIsShown'
  BY <1>4 DEF Hl!HooksRead
<1>5. ASSUME NEW n \in HookRow, Hl!HandleHover(n) PROVE Hl!TipIsHeld' /\ WhyATipIsShown'
  BY <1>5 DEF Hl!HandleHover
<1>6. CASE UNCHANGED hlVars
  BY <1>6 DEF hlVars
<1>. QED
  BY <1>1, <1>2, <1>3, <1>4, <1>5, <1>6 DEF HookNext, Hl!Next

\* What the panels' details rest on.
DetailsInv ==
  /\ part = "logs" => Lp!MessagesOfTheTitle /\ LiveReadsAreOfTheTitle
  /\ part = "hooks" => Hl!TipIsHeld /\ WhyATipIsShown

\* The details shown are those of their row in every reachable state (the
\* panels' row clicks, reads and hover timers).
THEOREM DetailsMatch == Spec => []DetailsMatchTheirRow
<1>1. Init => DetailsInv
  BY RowAssumption DEF Init, DetailsInv, Lp!Init, Hl!Init, Lp!MessagesOfTheTitle, LiveReadsAreOfTheTitle,
         Hl!TipIsHeld, WhyATipIsShown
<1>2. DetailsInv /\ [Next]_vars => DetailsInv'
  BY PartsStep, LogStep, HookStep DEF DetailsInv
<1>3. DetailsInv => DetailsMatchTheirRow
  BY DEF DetailsInv, DetailsMatchTheirRow
<1>4. QED
  BY <1>1, <1>2, <1>3, PTL DEF Spec

-----------------------------------------------------------------------------
\* A code that is shown is polled, and so is the dialog that shows it.
CodesArePolled == Lo!ShownCodeIsPolled /\ (isDialogOpen => isPolling)

\* Every step of the sign-in leaves the code that is shown polled.
LEMMA LoginStep ==
  ASSUME CodesArePolled, LoginNext
  PROVE  CodesArePolled'
<1>. USE DEF CodesArePolled, Lo!ShownCodeIsPolled, Lo!dflow
<1>1. ASSUME NEW share \in BOOLEAN, Lo!StartLogin(share) PROVE CodesArePolled'
  BY <1>1 DEF Lo!StartLogin
<1>2. CASE Lo!LoginStarted
  BY <1>2 DEF Lo!LoginStarted, Lo!PollersAfterStart
<1>3. CASE Lo!LoginUnreachable \/ Lo!CancelLogin \/ Lo!DismissLoginDialog
  BY <1>3 DEF Lo!LoginUnreachable, Lo!CancelLogin, Lo!DismissLoginDialog
<1>4. ASSUME NEW f \in Lo!Flow, Lo!CodeExpires(f) PROVE CodesArePolled'
  BY <1>4 DEF Lo!CodeExpires
<1>5. ASSUME NEW f \in Lo!Flow, Lo!Poll(f) PROVE CodesArePolled'
  BY <1>5 DEF Lo!Poll, Lo!Fails
<1>6. ASSUME NEW f \in Lo!Flow, Lo!PollAnswered(f) PROVE CodesArePolled'
  BY <1>6 DEF Lo!PollAnswered, Lo!Fails
<1>7. CASE Lo!ResumeHosting \/ Lo!Logout
  BY <1>7 DEF Lo!ResumeHosting, Lo!Logout
<1>8. CASE UNCHANGED loVars
  BY <1>8 DEF loVars
<1>. QED
  BY <1>1, <1>2, <1>3, <1>4, <1>5, <1>6, <1>7, <1>8 DEF LoginNext, Lo!Next

\* The types of the store of remote devices are kept.
LEMMA ViewTypeStep ==
  ASSUME Rv!TypeOK, ViewNext
  PROVE  Rv!TypeOK'
<1>. USE DEF Rv!TypeOK, Rv!store, Rv!dialog
<1>0. ASSUME NEW e \in Rv!Event, Rv!Emit(e) PROVE wire' \in Seq(Rv!Event)
  BY <1>0 DEF Rv!Emit
<1>1. ASSUME NEW d \in Devices, NEW s \in Rv!Status \cup {"disconnected"}
      PROVE  Rv!Says(d, s) \in Rv!Event
  BY DEF Rv!Says, Rv!Event
<1>2. ASSUME NEW d \in Devices,
             Rv!LinkUp(d) \/ Rv!DialFails(d) \/ Rv!LinkTalks(d) \/ Rv!LinkStumbles(d)
      PROVE Rv!TypeOK'
  <2>1. wire' \in Seq(Rv!Event)
    BY <1>0, <1>1, <1>2 DEF Rv!LinkUp, Rv!DialFails, Rv!LinkTalks, Rv!LinkStumbles, Rv!Status
  <2>2. dialing' \subseteq Devices /\ link' \subseteq Devices
        /\ UNCHANGED <<calls, ending, conns, listed, tabs, mapped, active, view, viewing, pendingView>>
    BY <1>2 DEF Rv!LinkUp, Rv!DialFails, Rv!LinkTalks, Rv!LinkStumbles
  <2>. QED
    BY <2>1, <2>2
<1>3. ASSUME NEW d \in Devices, Rv!ConnectToDevice(d) PROVE Rv!TypeOK'
  BY <1>3 DEF Rv!ConnectToDevice, Rv!Status
<1>4. ASSUME NEW d \in Devices, Rv!DisconnectServed(d) PROVE Rv!TypeOK'
  <2>1. wire' \in Seq(Rv!Event)
    BY <1>0, <1>1, <1>4 DEF Rv!DisconnectServed
  <2>2. link' \subseteq Devices /\ ending' \subseteq Devices
        /\ UNCHANGED <<dialing, calls, conns, listed, tabs, mapped, active, view, viewing, pendingView>>
    BY <1>4 DEF Rv!DisconnectServed
  <2>. QED
    BY <2>1, <2>2
<1>5. ASSUME NEW d \in Devices, Rv!ViewSessions(d) \/ Rv!CloseTab(d) PROVE Rv!TypeOK'
  BY <1>5 DEF Rv!ViewSessions, Rv!CloseTab
<1>6. ASSUME Rv!Follow
      PROVE  {viewing', pendingView'} \subseteq Devices \cup {None} /\ view' \in {"closed", "devices", "sessions"}
  BY <1>6 DEF Rv!Follow
<1>7. ASSUME NEW d \in Devices, Rv!ConnectFails(d) PROVE Rv!TypeOK'
  <2>1. conns' \in [Devices -> Rv!Status \cup {None}]
    BY <1>7 DEF Rv!ConnectFails, Rv!Status
  <2>. QED
    BY <1>6, <1>7, <2>1 DEF Rv!ConnectFails
<1>17. ASSUME NEW d \in Devices, Rv!ConnectServed(d) PROVE Rv!TypeOK'
  <2>1. wire' \in Seq(Rv!Event)
    BY <1>0, <1>1, <1>17 DEF Rv!ConnectServed, Rv!Status
  <2>. QED
    BY <1>17, <2>1 DEF Rv!ConnectServed
<1>8. ASSUME NEW S \in SUBSET Devices, Rv!Drop(S)
      PROVE /\ conns' \in [Devices -> Rv!Status \cup {None}] /\ listed' \subseteq Devices
            /\ tabs' \in [Devices -> Nat] /\ mapped' \subseteq Devices
  BY <1>8 DEF Rv!Drop
<1>9. ASSUME NEW S \in SUBSET Devices, Rv!Disconnect(S) PROVE Rv!TypeOK'
  <2>1. Rv!Drop(S) /\ ending' = ending \cup S /\ active' \in {active, None}
        /\ view' \in {view, "devices"} /\ viewing' \in {viewing, None}
        /\ UNCHANGED <<dialing, link, wire, calls, pendingView>>
    BY <1>9 DEF Rv!Disconnect
  <2>. QED
    BY <1>8, <2>1
<1>10. ASSUME NEW a, Rv!Heard(a) PROVE wire' \in Seq(Rv!Event) /\ Head(wire) \in Rv!Event /\ Head(wire).about = a
  BY <1>10 DEF Rv!Heard
<1>11. CASE Rv!OnStatus
  <2>. DEFINE e == Head(wire)
  <2>1. wire' \in Seq(Rv!Event) /\ e \in Rv!Event /\ e.about = "status"
    BY <1>10, <1>11 DEF Rv!OnStatus
  <2>2. e.device \in Devices /\ e.status \in Rv!Status \cup {"disconnected"}
    BY <2>1 DEF Rv!Event
  <2>3. Rv!Drop({e.device})
        \/ (conns' = [conns EXCEPT ![e.device] = e.status] /\ e.status # "disconnected" /\ UNCHANGED <<listed, tabs, mapped>>)
    BY <1>11 DEF Rv!OnStatus
  <2>4. Rv!Follow /\ UNCHANGED <<dialing, link, calls, ending, active>>
    BY <1>11 DEF Rv!OnStatus
  <2>. HIDE DEF e
  <2>5. /\ conns' \in [Devices -> Rv!Status \cup {None}] /\ listed' \subseteq Devices
        /\ tabs' \in [Devices -> Nat] /\ mapped' \subseteq Devices
    BY <1>8, <2>2, <2>3
  <2>. QED
    BY <1>6, <2>1, <2>4, <2>5
<1>12. CASE Rv!OnSessionList
  <2>. DEFINE e == Head(wire)
  <2>1. wire' \in Seq(Rv!Event) /\ e \in Rv!Event /\ e.about = "list"
    BY <1>10, <1>12 DEF Rv!OnSessionList
  <2>2. e.device \in Devices
    BY <2>1 DEF Rv!Event
  <2>3. listed' \subseteq listed \cup {e.device} /\ mapped' \subseteq mapped \cup {e.device}
        /\ UNCHANGED <<dialing, link, calls, ending, conns, tabs, active, view, viewing, pendingView>>
    BY <1>12 DEF Rv!OnSessionList
  <2>. QED
    BY <2>1, <2>2, <2>3
<1>13. CASE Rv!OnPane
  <2>. DEFINE e == Head(wire)
  <2>1. wire' \in Seq(Rv!Event) /\ e \in Rv!Event
    BY <1>10, <1>13 DEF Rv!OnPane
  <2>2. e.device \in Devices
    BY <2>1 DEF Rv!Event
  <2>3. mapped' = mapped \cup {e.device}
        /\ UNCHANGED <<dialing, link, calls, ending, conns, listed, tabs, active, view, viewing, pendingView>>
    BY <1>13 DEF Rv!OnPane
  <2>. QED
    BY <2>1, <2>2, <2>3
<1>14. CASE Rv!OpenDialog \/ Rv!CloseDialog \/ Rv!BackToDevices
  BY <1>14 DEF Rv!OpenDialog, Rv!CloseDialog, Rv!BackToDevices
<1>15. CASE Rv!PickSession
  BY <1>15 DEF Rv!PickSession
<1>16. CASE UNCHANGED rvVars
  BY <1>16 DEF rvVars
<1>. QED
  BY <1>2, <1>3, <1>4, <1>5, <1>7, <1>9, <1>11, <1>12, <1>13, <1>14, <1>15, <1>16, <1>17 DEF ViewNext, Rv!Next

\* A device that has tabs is connected and listed, unless its own list left it out.
TabsAreListed ==
  \A d \in Devices : tabs[d] > 0 => (d \in listed /\ conns[d] # None) \/ d \in forgot

\* Every step of viewing devices leaves the tabs to devices that are there.
LEMMA ViewStep ==
  ASSUME Rv!TypeOK, TabsAreListed, ViewNext
  PROVE  TabsAreListed'
<1>. USE DeviceAssumption DEF Rv!TypeOK, TabsAreListed, Rv!store, Rv!dialog
<1>1. CASE UNCHANGED <<conns, listed, tabs>> /\ forgot \subseteq forgot'
  BY <1>1
<1>2. ASSUME NEW d \in Devices,
             \/ Rv!LinkUp(d) \/ Rv!DialFails(d) \/ Rv!LinkTalks(d) \/ Rv!LinkStumbles(d)
             \/ Rv!ConnectServed(d) \/ Rv!DisconnectServed(d) \/ Rv!ViewSessions(d)
             \/ Rv!OnPane \/ Rv!OpenDialog \/ Rv!CloseDialog \/ Rv!BackToDevices
             \/ UNCHANGED rvVars
      PROVE  UNCHANGED <<conns, listed, tabs>> /\ forgot \subseteq forgot'
  BY <1>2 DEF Rv!LinkUp, Rv!DialFails, Rv!LinkTalks, Rv!LinkStumbles, Rv!ConnectServed, Rv!DisconnectServed,
              Rv!ViewSessions, Rv!OnPane, Rv!OpenDialog, Rv!CloseDialog, Rv!BackToDevices, rvVars
<1>3. ASSUME NEW d \in Devices, Rv!ConnectToDevice(d) PROVE TabsAreListed'
  BY <1>3 DEF Rv!ConnectToDevice
<1>4. ASSUME NEW d \in Devices, Rv!CloseTab(d) PROVE TabsAreListed'
  BY <1>4 DEF Rv!CloseTab
<1>5. ASSUME NEW d \in Devices, Rv!ConnectFails(d) PROVE TabsAreListed'
  BY <1>5 DEF Rv!ConnectFails
<1>6. ASSUME NEW S \in SUBSET Devices, Rv!Drop(S), forgot' = forgot PROVE TabsAreListed'
  BY <1>6 DEF Rv!Drop
<1>7. ASSUME NEW S \in SUBSET Devices, Rv!Disconnect(S) PROVE TabsAreListed'
  BY <1>6, <1>7 DEF Rv!Disconnect
<1>8. CASE Rv!OnStatus
  <2>. DEFINE e == Head(wire)
  <2>1. e \in Rv!Event /\ e.about = "status"
    BY <1>8 DEF Rv!OnStatus, Rv!Heard
  <2>2. e.device \in Devices /\ e.status \in Rv!Status \cup {"disconnected"}
    BY <2>1 DEF Rv!Event
  <2>3. \/ Rv!Drop({e.device})
        \/ /\ conns' = [conns EXCEPT ![e.device] = e.status] /\ e.status # "disconnected"
           /\ UNCHANGED <<listed, tabs, mapped>>
    BY <1>8 DEF Rv!OnStatus
  <2>4. forgot' = forgot
    BY <1>8 DEF Rv!OnStatus
  <2>. HIDE DEF e
  <2>. QED
    BY <1>6, <2>2, <2>3, <2>4 DEF Rv!Status
<1>9. CASE Rv!OnSessionList
  <2>. DEFINE e == Head(wire)
  <2>1. /\ listed' = CASE conns[e.device] = None -> listed
                       [] e.lists -> listed \cup {e.device}
                       [] OTHER -> listed \ {e.device}
        /\ forgot' = IF ~e.lists /\ tabs[e.device] > 0 THEN forgot \cup {e.device} ELSE forgot
        /\ UNCHANGED <<conns, tabs>>
    BY <1>9 DEF Rv!OnSessionList
  <2>2. e \in Rv!Event /\ e.about = "list"
    BY <1>9 DEF Rv!OnSessionList, Rv!Heard
  <2>3. e.device \in Devices /\ e.lists \in BOOLEAN
    BY <2>2 DEF Rv!Event
  <2>. HIDE DEF e
  <2>. QED
    BY <2>1, <2>3
<1>10. CASE Rv!PickSession
  BY <1>10 DEF Rv!PickSession
<1>. QED
  BY <1>1, <1>2, <1>3, <1>4, <1>5, <1>7, <1>8, <1>9, <1>10 DEF ViewNext, Rv!Next

-----------------------------------------------------------------------------
ShCall == [op : {"start", "reauth", "stop"}, at : {"token", "sent", "ok", "failed", "done"}]
ShEvent == [is : Sh!Reports, room : {<<>>}]
             \cup [is : {"joined", "left"}, room : {<<r>> : r \in Room}]
ShNegotiation == [room : Room, current : BOOLEAN, open : BOOLEAN]

\* The types of Sharing; an event about a client names its room.
ShTypes ==
  /\ shCalls \in Seq(ShCall) /\ shSent \in Seq(DOMAIN shCalls) /\ shEvents \in Seq(ShEvent)
  /\ shStatus \in Sh!Statuses /\ shEnabled \in BOOLEAN /\ shRefused \in BOOLEAN
  /\ shToast \in [shown : BOOLEAN, timers : Nat]
  /\ shLogin \in [in : BOOLEAN, wanted : BOOLEAN]
  /\ shDialog \in [open : BOOLEAN, mode : {"host", "client"}]
  /\ shListed \subseteq Room /\ shRooms \subseteq Room /\ shOrphans \subseteq Room /\ shMissed \subseteq Room
  /\ shHost \in {"off", "up", "retrying"}
  /\ shJoining \subseteq ShNegotiation
  /\ shDrops \in 0 .. MaxShDrops

\* A call is added at the end; the calls sent so far keep their numbers.
LEMMA CallsGrow ==
  ASSUME NEW s \in Seq(ShCall), NEW c \in ShCall, NEW q \in Seq(DOMAIN s)
  PROVE  /\ Append(s, c) \in Seq(ShCall) /\ q \in Seq(DOMAIN Append(s, c))
         /\ Append(q, Len(Append(s, c))) \in Seq(DOMAIN Append(s, c))
<1>. DEFINE t == Append(s, c)
<1>1. t \in Seq(ShCall) /\ DOMAIN s \subseteq DOMAIN t /\ Len(t) \in DOMAIN t
  OBVIOUS
<1>. HIDE DEF t
<1>2. q \in Seq(DOMAIN t)
  <2>1. \A i \in 1..Len(q) : q[i] \in DOMAIN t
    BY <1>1
  <2>2. q \in [1..Len(q) -> DOMAIN t] /\ Len(q) \in Nat
    BY <2>1
  <2>. QED
    BY <2>2
<1>3. Append(q, Len(t)) \in Seq(DOMAIN t)
  BY <1>1, <1>2
<1>. QED
  BY <1>1, <1>2, <1>3 DEF t

\* A call that lands leaves the others where they are.
LEMMA CallLands ==
  ASSUME NEW s \in Seq(ShCall), NEW i \in DOMAIN s,
         NEW at \in {"token", "sent", "ok", "failed", "done"}
  PROVE  /\ [s EXCEPT ![i].at = at] \in Seq(ShCall)
         /\ DOMAIN [s EXCEPT ![i].at = at] = DOMAIN s
<1>1. s[i] \in ShCall
  OBVIOUS
<1>2. [s[i] EXCEPT !.at = at] \in ShCall
  BY <1>1 DEF ShCall
<1>3. [s EXCEPT ![i].at = at] = [s EXCEPT ![i] = [s[i] EXCEPT !.at = at]]
  OBVIOUS
<1>. DEFINE x == [s[i] EXCEPT !.at = at]
<1>. HIDE DEF x
<1>4. [s EXCEPT ![i] = x] \in Seq(ShCall) /\ DOMAIN [s EXCEPT ![i] = x] = DOMAIN s
  BY <1>2 DEF x
<1>. QED
  BY <1>3, <1>4 DEF x

\* The fields the dialog, the sign-in and the toast change.
LEMMA Edits ==
  /\ \A l \in [in : BOOLEAN, wanted : BOOLEAN] :
       /\ [l EXCEPT !.wanted = TRUE] \in [in : BOOLEAN, wanted : BOOLEAN]
       /\ [l EXCEPT !.in = FALSE] \in [in : BOOLEAN, wanted : BOOLEAN]
  /\ \A d \in [open : BOOLEAN, mode : {"host", "client"}] :
       [d EXCEPT !.open = FALSE] \in [open : BOOLEAN, mode : {"host", "client"}]
  /\ \A t \in [shown : BOOLEAN, timers : Nat] :
       [shown |-> TRUE, timers |-> t.timers + 1] \in [shown : BOOLEAN, timers : Nat]
<1>1. \A l \in [in : BOOLEAN, wanted : BOOLEAN] :
        /\ [l EXCEPT !.wanted = TRUE] \in [in : BOOLEAN, wanted : BOOLEAN]
        /\ [l EXCEPT !.in = FALSE] \in [in : BOOLEAN, wanted : BOOLEAN]
  OBVIOUS
<1>2. \A d \in [open : BOOLEAN, mode : {"host", "client"}] :
        [d EXCEPT !.open = FALSE] \in [open : BOOLEAN, mode : {"host", "client"}]
  OBVIOUS
<1>3. ASSUME NEW t \in [shown : BOOLEAN, timers : Nat]
      PROVE  [shown |-> TRUE, timers |-> t.timers + 1] \in [shown : BOOLEAN, timers : Nat]
  <2>1. t.timers + 1 \in Nat
    OBVIOUS
  <2>. QED
    BY <2>1
<1>. QED
  BY <1>1, <1>2, <1>3

\* Events are only added to those on their way.
LEMMA EventsGrow ==
  ASSUME NEW s \in Seq(ShEvent), NEW e \in ShEvent, NEW t \in Seq(ShEvent)
  PROVE  Append(s, e) \in Seq(ShEvent) /\ s \o t \in Seq(ShEvent) /\ s \o <<e>> \in Seq(ShEvent)
         /\ s \o t \o <<e>> \in Seq(ShEvent)
<1>1. <<e>> \in Seq(ShEvent)
  OBVIOUS
<1>. QED
  BY <1>1

\* The types of Sharing are kept.
LEMMA ShareTypeStep ==
  ASSUME ShTypes, ShareNext
  PROVE  ShTypes'
<1>. USE ShareAssumption DEF Sh!shServer, Sh!shWindow
<1>0. ShTypes
  OBVIOUS
<1>r. /\ [shLogin EXCEPT !.wanted = TRUE] \in [in : BOOLEAN, wanted : BOOLEAN]
      /\ [shLogin EXCEPT !.in = FALSE] \in [in : BOOLEAN, wanted : BOOLEAN]
      /\ [shDialog EXCEPT !.open = FALSE] \in [open : BOOLEAN, mode : {"host", "client"}]
      /\ [shown |-> TRUE, timers |-> shToast.timers + 1] \in [shown : BOOLEAN, timers : Nat]
  <2>1. /\ shLogin \in [in : BOOLEAN, wanted : BOOLEAN]
        /\ shDialog \in [open : BOOLEAN, mode : {"host", "client"}]
        /\ shToast \in [shown : BOOLEAN, timers : Nat]
    BY <1>0 DEF ShTypes
  <2>. QED
    BY <2>1, Edits
<1>. USE DEF ShTypes
<1>k. ASSUME NEW i \in DOMAIN shCalls, NEW at \in {"sent", "ok", "failed", "done"}, Sh!Lands(i, at)
      PROVE  /\ shCalls' \in Seq(ShCall) /\ DOMAIN shCalls' = DOMAIN shCalls
             /\ shSent \in Seq(DOMAIN shCalls')
  <2>1. at \in {"token", "sent", "ok", "failed", "done"}
    OBVIOUS
  <2>2. shCalls' \in Seq(ShCall) /\ DOMAIN shCalls' = DOMAIN shCalls
    BY <1>0, <1>k, <2>1, CallLands DEF Sh!Lands
  <2>. QED
    BY <1>0, <2>2
<1>b. ASSUME NEW op \in {"start", "reauth"}, Sh!Calls(op)
      PROVE  shCalls' \in Seq(ShCall) /\ shSent \in Seq(DOMAIN shCalls')
  <2>1. [op |-> op, at |-> "token"] \in ShCall
    BY DEF ShCall
  <2>. QED
    BY <1>0, <1>b, <2>1, CallsGrow DEF Sh!Calls
<1>c. ASSUME NEW open \in BOOLEAN, Sh!StartHosting(open)
      PROVE  /\ shCalls' \in Seq(ShCall) /\ shSent \in Seq(DOMAIN shCalls')
             /\ shStatus' \in Sh!Statuses
             /\ shDialog' \in [open : BOOLEAN, mode : {"host", "client"}]
  BY <1>b, <1>c DEF Sh!StartHosting, Sh!Starting, Sh!Statuses
<1>1. CASE Sh!BadgeClick
  <2>1. CASE Sh!BadgeShares
    BY <1>0, <1>1, <1>c, <2>1 DEF Sh!BadgeClick, Sh!BadgeShares
  <2>2. CASE Sh!BadgeSignsIn \/ Sh!BadgeOpens
    <3>1. /\ shLogin' \in [in : BOOLEAN, wanted : BOOLEAN]
          /\ shDialog' \in [open : BOOLEAN, mode : {"host", "client"}]
      <4>1. \/ shLogin' = [shLogin EXCEPT !.wanted = TRUE] /\ shDialog' = shDialog
            \/ shLogin' = shLogin /\ shDialog' = [open |-> TRUE, mode |-> "host"]
        BY <2>2 DEF Sh!BadgeSignsIn, Sh!BadgeOpens
      <4>2. [open |-> TRUE, mode |-> "host"] \in [open : BOOLEAN, mode : {"host", "client"}]
        OBVIOUS
      <4>. QED
        BY <1>0, <1>r, <4>1, <4>2
    <3>2. UNCHANGED <<shStatus, shCalls>>
      BY <2>2 DEF Sh!BadgeSignsIn, Sh!BadgeOpens
    <3>. QED
      BY <1>0, <1>1, <3>1, <3>2 DEF Sh!BadgeClick
  <2>. QED
    BY <1>1, <2>1, <2>2 DEF Sh!BadgeClick
<1>2. CASE Sh!DialogStart
  BY <1>0, <1>2, <1>c DEF Sh!DialogStart
<1>3. CASE Sh!DialogSignsIn \/ Sh!DialogLink \/ Sh!CloseDialog \/ Sh!ConnectClick
  <2>0. [open |-> TRUE, mode |-> "client"] \in [open : BOOLEAN, mode : {"host", "client"}]
    OBVIOUS
  <2>b. /\ shStatus' \in {shStatus, "disconnected"}
        /\ shLogin' \in {shLogin, [shLogin EXCEPT !.wanted = TRUE]}
        /\ shDialog' \in {shDialog, [shDialog EXCEPT !.open = FALSE], [open |-> TRUE, mode |-> "client"]}
    BY <1>3 DEF Sh!DialogSignsIn, Sh!DialogLink, Sh!CloseDialog, Sh!ConnectClick
  <2>1. /\ shStatus' \in Sh!Statuses /\ shLogin' \in [in : BOOLEAN, wanted : BOOLEAN]
        /\ shDialog' \in [open : BOOLEAN, mode : {"host", "client"}]
    BY <1>0, <1>r, <2>0, <2>b DEF Sh!Statuses
  <2>2. UNCHANGED <<shToast, shEnabled, shListed, shCalls, shSent, shHost, shRooms, shOrphans, shJoining, shEvents, shDrops,
                  shRefused, shMissed>>
    BY <1>3 DEF Sh!DialogSignsIn, Sh!DialogLink, Sh!CloseDialog, Sh!ConnectClick
  <2>. QED
    BY <1>0, <2>1, <2>2
<1>4. CASE Sh!SignedIn
  <2>1. CASE shLogin.wanted
    BY <1>0, <1>4, <1>c, <2>1 DEF Sh!SignedIn
  <2>2. CASE ~shLogin.wanted
    BY <1>0, <1>4, <2>2 DEF Sh!SignedIn
  <2>. QED
    BY <2>1, <2>2
<1>d. ASSUME Sh!StopHosting
      PROVE  /\ shCalls' \in Seq(ShCall) /\ shSent' \in Seq(DOMAIN shCalls')
             /\ shStatus' \in Sh!Statuses /\ shRefused' \in BOOLEAN /\ shListed' = {}
             /\ shToast' \in [shown : BOOLEAN, timers : Nat]
  <2>1. [op |-> "stop", at |-> "sent"] \in ShCall /\ [op |-> "stop", at |-> "failed"] \in ShCall
    BY DEF ShCall
  <2>2. ASSUME shCalls' = Append(shCalls, [op |-> "stop", at |-> "sent"]),
               shSent' = Append(shSent, Len(shCalls'))
        PROVE  shCalls' \in Seq(ShCall) /\ shSent' \in Seq(DOMAIN shCalls')
    <3>1. shCalls \in Seq(ShCall) /\ shSent \in Seq(DOMAIN shCalls)
      BY <1>0
    <3>. DEFINE t == Append(shCalls, [op |-> "stop", at |-> "sent"])
    <3>2. t \in Seq(ShCall) /\ Append(shSent, Len(t)) \in Seq(DOMAIN t)
      BY <2>1, <3>1, CallsGrow
    <3>3. shCalls' = t
      BY <2>2
    <3>. HIDE DEF t
    <3>4. shSent' = Append(shSent, Len(t))
      BY <2>2, <3>3
    <3>. QED
      BY <3>2, <3>3, <3>4
  <2>3. ASSUME shCalls' = Append(shCalls, [op |-> "stop", at |-> "failed"]), shSent' = shSent
        PROVE  shCalls' \in Seq(ShCall) /\ shSent' \in Seq(DOMAIN shCalls')
    <3>1. shCalls \in Seq(ShCall) /\ shSent \in Seq(DOMAIN shCalls)
      BY <1>0
    <3>. DEFINE t == Append(shCalls, [op |-> "stop", at |-> "failed"])
    <3>2. t \in Seq(ShCall) /\ shSent \in Seq(DOMAIN t)
      BY <2>1, <3>1, CallsGrow
    <3>3. shCalls' = t
      BY <2>3
    <3>. HIDE DEF t
    <3>4. shSent' = shSent
      BY <2>3, <3>3
    <3>. QED
      BY <3>2, <3>3, <3>4
  <2>4. shCalls' \in Seq(ShCall) /\ shSent' \in Seq(DOMAIN shCalls')
    BY <1>d, <2>2, <2>3 DEF Sh!StopHosting
  <2>5. /\ shStatus' \in Sh!Statuses /\ shRefused' \in BOOLEAN /\ shListed' = {}
        /\ shToast' \in [shown : BOOLEAN, timers : Nat]
    BY <1>0, <1>d DEF Sh!StopHosting, Sh!Statuses
  <2>. QED
    BY <2>4, <2>5
<1>5. CASE Sh!DialogStop
  <2>1. shDialog' \in [open : BOOLEAN, mode : {"host", "client"}]
    BY <1>0, <1>5 DEF Sh!DialogStop
  <2>. QED
    BY <1>0, <1>5, <1>d, <2>1 DEF Sh!DialogStop
<1>6. CASE Sh!ToggleOn
  <2>1. Sh!StartHosting(shDialog.open) /\ shDialog.open \in BOOLEAN /\ shEnabled' \in BOOLEAN
        /\ UNCHANGED <<shToast, shLogin, shListed, shSent, shHost, shRooms, shOrphans, shJoining, shDrops, shEvents,
                  shRefused, shMissed>>
    BY <1>0, <1>6 DEF Sh!ToggleOn
  <2>. QED
    BY <1>0, <1>c, <2>1
<1>7. CASE Sh!ToggleOff
  BY <1>0, <1>7, <1>d DEF Sh!ToggleOff
<1>8. CASE Sh!ToastTimer
  <2>1. shToast' \in [shown : BOOLEAN, timers : Nat]
    BY <1>0, <1>8 DEF Sh!ToastTimer
  <2>. QED
    BY <1>0, <1>8, <2>1 DEF Sh!ToastTimer
<1>9. ASSUME NEW i \in DOMAIN shCalls, Sh!Token(i) PROVE ShTypes'
  <2>1. CASE Sh!Lands(i, "sent") /\ shSent' = Append(shSent, i)
    BY <1>0, <1>9, <1>k, <2>1 DEF Sh!Token
  <2>2. CASE Sh!Lands(i, "failed") /\ UNCHANGED shSent
    BY <1>0, <1>9, <1>k, <2>2 DEF Sh!Token
  <2>. QED
    BY <1>9, <2>1, <2>2 DEF Sh!Token
<1>10. ASSUME NEW i \in DOMAIN shCalls, Sh!Answer(i) PROVE ShTypes'
  <2>1. Sh!Lands(i, "done")
    BY <1>10 DEF Sh!Answer, Sh!StartOk, Sh!StartFails, Sh!ReauthOk, Sh!ReauthFails, Sh!StopAnswered, Sh!Answered
  <2>3. /\ shStatus' \in {shStatus, "waiting", "failed", "disconnected"} /\ shEnabled' \in {shEnabled, FALSE}
        /\ shToast' \in {shToast, [shown |-> TRUE, timers |-> shToast.timers + 1]}
        /\ shLogin' \in {shLogin, [shLogin EXCEPT !.in = FALSE]}
    BY <1>10 DEF Sh!Answer, Sh!StartOk, Sh!StartFails, Sh!ReauthOk, Sh!ReauthFails, Sh!StopAnswered
  <2>4. /\ shStatus' \in Sh!Statuses /\ shEnabled' \in BOOLEAN
        /\ shToast' \in [shown : BOOLEAN, timers : Nat] /\ shLogin' \in [in : BOOLEAN, wanted : BOOLEAN]
    BY <1>0, <1>r, <2>3 DEF Sh!Statuses
  <2>5. UNCHANGED <<shDialog, shListed, shSent, shHost, shRooms, shOrphans, shJoining, shDrops, shEvents,
                  shRefused, shMissed>>
    BY <1>10 DEF Sh!Answer
  <2>. QED
    BY <1>0, <1>k, <2>1, <2>4, <2>5
<1>e. ASSUME NEW s \in Sh!Reports PROVE Sh!Status(s) \in ShEvent
  BY DEF Sh!Status, ShEvent
<1>f. ASSUME NEW s \in {"joined", "left"}, NEW r \in Room PROVE Sh!About(s, r) \in ShEvent
  BY DEF Sh!About, ShEvent
<1>g. {"disconnected", "account_waiting", "reconnecting", "needs_reauth", "connected"} \subseteq Sh!Reports
  BY DEF Sh!Reports, Sh!Statuses
<1>h. Sh!Orphaned \subseteq ShNegotiation
  <2>1. SUFFICES ASSUME NEW j \in shJoining PROVE [j EXCEPT !.current = FALSE] \in ShNegotiation
    BY DEF Sh!Orphaned
  <2>2. j \in ShNegotiation
    BY <1>0
  <2>. QED
    BY <2>2 DEF ShNegotiation
<1>11. CASE Sh!ServerTakes
  <2>1. shSent # <<>> /\ shSent[1] \in DOMAIN shCalls
    BY <1>0, <1>11 DEF Sh!ServerTakes
  <2>2. Sh!StopReports \in Seq(ShEvent)
    BY <1>e, <1>g DEF Sh!StopReports
  <2>a. Sh!Status("account_waiting") \in ShEvent
    BY <1>e, <1>g
  <2>b. \/ shEvents' = shEvents \o Sh!StopReports
        \/ shEvents' = shEvents \o Sh!StopReports \o <<Sh!Status("account_waiting")>>
    BY <1>11 DEF Sh!ServerTakes, Sh!ServerStops, Sh!ServerStarts
  <2>3. shEvents' \in Seq(ShEvent)
    <3>1. shEvents \in Seq(ShEvent)
      BY <1>0
    <3>2. shEvents \o Sh!StopReports \in Seq(ShEvent)
      BY <2>2, <2>a, <3>1, EventsGrow
    <3>3. shEvents \o Sh!StopReports \o <<Sh!Status("account_waiting")>> \in Seq(ShEvent)
      BY <2>2, <2>a, <3>1, EventsGrow
    <3>. QED
      BY <2>b, <3>2, <3>3
  <2>c. Sh!Lands(shSent[1], "ok") \/ Sh!Lands(shSent[1], "failed")
    BY <1>11 DEF Sh!ServerTakes, Sh!ServerStops, Sh!ServerStarts
  <2>4. /\ shCalls' \in Seq(ShCall) /\ DOMAIN shCalls' = DOMAIN shCalls
    BY <1>k, <2>1, <2>c
  <2>5. shSent' \in Seq(DOMAIN shCalls')
    BY <1>0, <1>11, <2>1, <2>4 DEF Sh!ServerTakes
  <2>6. shHost' \in {"off", "up", "retrying"} /\ shMissed' \subseteq Room
    BY <1>0, <1>11 DEF Sh!ServerTakes, Sh!ServerStops, Sh!ServerStarts
  <2>. QED
    BY <1>0, <1>11, <1>h, <2>3, <2>4, <2>5, <2>6 DEF Sh!ServerTakes
<1>12. CASE Sh!SignalingLost
  <2>1. shEvents' \in Seq(ShEvent)
    BY <1>0, <1>12, <1>e, <1>g DEF Sh!SignalingLost
  <2>. QED
    BY <1>0, <1>12, <1>h, <2>1 DEF Sh!SignalingLost
<1>13. CASE Sh!Registered \/ Sh!TokenExpired
  <2>0. Sh!Status("account_waiting") \in ShEvent /\ Sh!Status("needs_reauth") \in ShEvent
    BY <1>e, <1>g
  <2>1. shEvents' \in Seq(ShEvent)
    <3>1. shEvents \in Seq(ShEvent)
      BY <1>0
    <3>2. shEvents' \in {Append(shEvents, Sh!Status("account_waiting")), Append(shEvents, Sh!Status("needs_reauth"))}
      BY <1>13 DEF Sh!Registered, Sh!TokenExpired
    <3>. QED
      BY <2>0, <3>1, <3>2, EventsGrow
  <2>. QED
    BY <1>0, <1>13, <2>1 DEF Sh!Registered, Sh!TokenExpired
<1>14. ASSUME NEW r \in Room, Sh!Requested(r) PROVE ShTypes'
  <2>1. shJoining' \subseteq ShNegotiation
    <3>1. [room |-> r, current |-> TRUE, open |-> FALSE] \in ShNegotiation
      BY DEF ShNegotiation
    <3>2. shJoining' = shJoining \cup {[room |-> r, current |-> TRUE, open |-> FALSE]}
      BY <1>14 DEF Sh!Requested
    <3>. QED
      BY <1>0, <3>1, <3>2
  <2>. QED
    BY <1>0, <1>14, <2>1 DEF Sh!Requested
<1>15. ASSUME NEW r \in Room, Sh!ClientLeft(r) PROVE ShTypes'
  <2>1. shEvents' \in Seq(ShEvent)
    BY <1>0, <1>15, <1>e, <1>f, <1>g DEF Sh!ClientLeft
  <2>2. shRooms' \subseteq Room
    BY <1>0, <1>15 DEF Sh!ClientLeft
  <2>. QED
    BY <1>0, <1>15, <2>1, <2>2 DEF Sh!ClientLeft
<1>16. ASSUME NEW j \in shJoining, Sh!Joined(j) PROVE ShTypes'
  <2>0. j.room \in Room /\ [j EXCEPT !.open = TRUE] \in ShNegotiation
    BY <1>0 DEF ShNegotiation
  <2>1. shEvents' \in Seq(ShEvent)
    BY <1>0, <1>16, <1>e, <1>f, <1>g, <2>0 DEF Sh!Joined
  <2>2. shRooms' \subseteq Room /\ shOrphans' \subseteq Room
    BY <1>0, <1>16, <2>0 DEF Sh!Joined
  <2>3. shJoining' \subseteq ShNegotiation
    BY <1>0, <1>16, <2>0 DEF Sh!Joined
  <2>. QED
    BY <1>0, <1>16, <2>1, <2>2, <2>3 DEF Sh!Joined
<1>19. ASSUME NEW r \in Room, Sh!OrphanLeft(r) PROVE ShTypes'
  <2>1. shOrphans' \subseteq Room
    BY <1>0, <1>19 DEF Sh!OrphanLeft
  <2>. QED
    BY <1>0, <1>19, <2>1 DEF Sh!OrphanLeft
<1>17. CASE Sh!Event
  <2>. DEFINE e == shEvents[1]
  <2>1. e \in ShEvent /\ shEvents' \in Seq(ShEvent)
    BY <1>0, <1>17 DEF Sh!Event
  <2>2. Sh!ShowsStatus(e) \/ Sh!AsksAgain(e) \/ Sh!ListsClient(e) \/ Sh!UnlistsClient(e)
    BY <1>17 DEF Sh!Event
  <2>3. UNCHANGED <<shToast, shLogin, shEnabled, shDialog, shSent, shHost, shRooms, shOrphans, shJoining, shDrops,
                  shRefused, shMissed>>
    BY <1>17 DEF Sh!Event
  <2>. HIDE DEF e
  <2>4. CASE Sh!ShowsStatus(e)
    <3>1. shStatus' \in Sh!Statuses
      BY <2>4 DEF Sh!ShowsStatus, Sh!normalizeStatus, Sh!Statuses, Sh!Reports
    <3>. QED
      BY <1>0, <2>1, <2>3, <2>4, <3>1 DEF Sh!ShowsStatus
  <2>5. CASE Sh!AsksAgain(e)
    BY <1>0, <1>b, <2>1, <2>3, <2>5 DEF Sh!AsksAgain
  <2>6. CASE Sh!ListsClient(e)
    <3>1. e.room[1] \in Room
      BY <2>1, <2>6 DEF Sh!ListsClient, ShEvent, Sh!Reports, Sh!Statuses
    <3>. QED
      BY <1>0, <2>1, <2>3, <2>6, <3>1 DEF Sh!ListsClient
  <2>7. CASE Sh!UnlistsClient(e)
    BY <1>0, <2>1, <2>3, <2>7 DEF Sh!UnlistsClient
  <2>. QED
    BY <2>2, <2>4, <2>5, <2>6, <2>7
<1>18. CASE UNCHANGED shVars
  BY <1>0, <1>18 DEF shVars
<1>. QED
  BY <1>1, <1>2, <1>3, <1>4, <1>5, <1>6, <1>7, <1>8, <1>9, <1>10, <1>11, <1>12, <1>13,
     <1>14, <1>15, <1>16, <1>17, <1>18, <1>19 DEF ShareNext, Sh!ShNext

\* The elements of a sequence with one more.
LEMMA Appended ==
  ASSUME NEW S, NEW s \in Seq(S), NEW e \in S
  PROVE  Append(s, e) \in Seq(S) /\ Ro!Range(Append(s, e)) = Ro!Range(s) \cup {e}
<1>. DEFINE u == Append(s, e)
<1>1. /\ u \in Seq(S) /\ Len(s) \in Nat /\ DOMAIN u = 1..(Len(s) + 1) /\ DOMAIN s = 1..Len(s)
      /\ u[Len(s) + 1] = e
  OBVIOUS
<1>2. \A i \in 1..Len(s) : u[i] = s[i]
  OBVIOUS
<1>. HIDE DEF u
<1>3. Ro!Range(u) = Ro!Range(s) \cup {e}
  <2>1. ASSUME NEW x \in Ro!Range(u) PROVE x \in Ro!Range(s) \cup {e}
    BY <1>1, <1>2, <2>1 DEF Ro!Range
  <2>2. ASSUME NEW x \in Ro!Range(s) PROVE x \in Ro!Range(u)
    BY <1>1, <1>2, <2>2 DEF Ro!Range
  <2>3. e \in Ro!Range(u)
    BY <1>1 DEF Ro!Range
  <2>. QED
    BY <2>1, <2>2, <2>3
<1>. QED
  BY <1>1, <1>3 DEF u

\* The elements of a sequence whose first is taken.
LEMMA HeadTaken ==
  ASSUME NEW S, NEW s \in Seq(S), s # <<>>
  PROVE  Ro!Range(s) = {s[1]} \cup Ro!Range(SubSeq(s, 2, Len(s)))
<1>. DEFINE u == SubSeq(s, 2, Len(s))
<1>1. /\ Len(s) \in Nat \ {0} /\ DOMAIN u = 1..(Len(s) - 1) /\ DOMAIN s = 1..Len(s)
  OBVIOUS
<1>2. \A i \in 1..(Len(s) - 1) : u[i] = s[i + 1]
  OBVIOUS
<1>. HIDE DEF u
<1>3. Ro!Range(s) = {s[1]} \cup Ro!Range(u)
  <2>1. ASSUME NEW x \in Ro!Range(s) PROVE x \in {s[1]} \cup Ro!Range(u)
    <3>1. PICK i \in 1..Len(s) : x = s[i]
      BY <1>1, <2>1 DEF Ro!Range
    <3>2. CASE i > 1
      <4>1. i - 1 \in 1..(Len(s) - 1) /\ u[i - 1] = s[i]
        BY <1>1, <1>2, <3>2
      <4>. QED
        BY <1>1, <3>1, <4>1 DEF Ro!Range
    <3>. QED
      BY <3>1, <3>2
  <2>2. ASSUME NEW x \in Ro!Range(u) PROVE x \in Ro!Range(s)
    <3>1. PICK i \in 1..(Len(s) - 1) : x = u[i]
      BY <1>1, <2>2 DEF Ro!Range
    <3>2. i + 1 \in 1..Len(s) /\ x = s[i + 1]
      BY <1>1, <1>2, <3>1
    <3>. QED
      BY <1>1, <3>2 DEF Ro!Range
  <2>3. s[1] \in Ro!Range(s)
    BY <1>1 DEF Ro!Range
  <2>. QED
    BY <2>1, <2>2, <2>3
<1>. QED
  BY <1>3 DEF u

\* The events on their way to the window, and a stop on its way to the server.
Pending == Ro!Range(shEvents)
StopIsSent == \E i \in DOMAIN shCalls : shCalls[i].op = "stop" /\ shCalls[i].at = "sent"
\* A room is negotiated at most once.
OneNegotiation ==
  \A j, k \in shJoining : j.room = k.room => j = k
HasJoined(r) == \E j \in shJoining : j.room = r /\ j.open
\* A client in a map of the host's, in one of them, has joined and has not left;
\* one whose leaving is reported had joined.
JoinedOnce ==
  /\ shRooms \cap shOrphans = {}
  /\ \A r \in shRooms \cup shOrphans : HasJoined(r) /\ Sh!About("left", r) \notin Pending
  /\ \A r \in Room : Sh!About("left", r) \in Pending => HasJoined(r)
\* The list has every client of a map, or will when its event is taken, unless a
\* stop missed it.
WatchersListed ==
  \/ shRefused \/ StopIsSent
  \/ \A r \in shRooms \cup shOrphans : r \in shListed \cup shMissed \/ Sh!About("joined", r) \in Pending
\* The inductive invariant of Sharing.
ShareInv == ShTypes /\ OneNegotiation /\ JoinedOnce /\ WatchersListed

\* One event more.
LEMMA OneReported ==
  ASSUME ShTypes, NEW e \in ShEvent,
         \/ shEvents' = Append(shEvents, e) \/ shEvents' = shEvents \o <<e>>
         \/ shEvents' = shEvents \o <<>> \o <<e>> \/ shEvents' = Append(shEvents, e) \o <<>>
  PROVE  Pending' = Pending \cup {e}
<1>1. shEvents \in Seq(ShEvent)
  BY DEF ShTypes
<1>. DEFINE s == shEvents
<1>2. /\ s \o <<>> = s /\ s \o <<e>> = Append(s, e)
      /\ Append(s, e) \o <<>> = Append(s, e)
  BY <1>1
<1>3. shEvents' = Append(shEvents, e)
  BY <1>2
<1>4. Ro!Range(Append(shEvents, e)) = Ro!Range(shEvents) \cup {e}
  BY <1>1, Appended
<1>. QED
  BY <1>3, <1>4 DEF Pending

\* Two events more.
LEMMA TwoReported ==
  ASSUME ShTypes, NEW e \in ShEvent, NEW f \in ShEvent,
         \/ shEvents' = shEvents \o <<e, f>> \/ shEvents' = shEvents \o <<e>> \o <<f>>
         \/ shEvents' = Append(shEvents, e) \o <<f>>
  PROVE  Pending' = Pending \cup {e, f}
<1>1. shEvents \in Seq(ShEvent)
  BY DEF ShTypes
<1>. DEFINE u == Append(shEvents, e)
<1>2. u \in Seq(ShEvent) /\ Ro!Range(u) = Pending \cup {e}
  BY <1>1, Appended DEF Pending
<1>3. shEvents' = Append(u, f)
  <2>1. shEvents \o <<e, f>> = Append(u, f) /\ shEvents \o <<e>> = u
    BY <1>1
  <2>2. u \o <<f>> = Append(u, f)
    BY <1>2
  <2>. QED
    BY <2>1, <2>2
<1>. HIDE DEF u
<1>4. Ro!Range(Append(u, f)) = Ro!Range(u) \cup {f}
  BY <1>2, Appended
<1>. QED
  BY <1>2, <1>3, <1>4 DEF Pending

\* A stop stays on its way whatever call is made and whatever other call lands.
LEMMA StopStaysSent ==
  ASSUME ShTypes
  PROVE  /\ \A c \in ShCall : shCalls' = Append(shCalls, c)
              => (StopIsSent \/ (c.op = "stop" /\ c.at = "sent") => StopIsSent')
         /\ \A i \in DOMAIN shCalls : \A at :
              Sh!Lands(i, at) /\ ~(shCalls[i].op = "stop" /\ shCalls[i].at = "sent")
              => (StopIsSent => StopIsSent')
<1>. DEFINE s == shCalls
<1>0. shCalls = s /\ s \in Seq(ShCall) /\ DOMAIN s = 1..Len(s) /\ Len(s) \in Nat
  BY DEF ShTypes
<1>. HIDE DEF s
<1>1. ASSUME NEW c \in ShCall, shCalls' = Append(shCalls, c),
             StopIsSent \/ (c.op = "stop" /\ c.at = "sent")
      PROVE  StopIsSent'
  <2>. DEFINE t == Append(s, c)
  <2>1. /\ DOMAIN t = 1..(Len(s) + 1) /\ t[Len(s) + 1] = c
        /\ \A i \in 1..Len(s) : t[i] = s[i]
    BY <1>0
  <2>2. shCalls' = t
    BY <1>0, <1>1
  <2>. HIDE DEF t
  <2>. QED
    BY <1>0, <1>1, <2>1, <2>2 DEF StopIsSent
<1>2. ASSUME NEW i \in DOMAIN shCalls, NEW at, Sh!Lands(i, at), StopIsSent,
             ~(shCalls[i].op = "stop" /\ shCalls[i].at = "sent")
      PROVE  StopIsSent'
  <2>1. PICK k \in DOMAIN s : s[k].op = "stop" /\ s[k].at = "sent"
    BY <1>0, <1>2 DEF StopIsSent
  <2>2. k # i
    BY <1>0, <1>2, <2>1
  <2>3. shCalls' = [s EXCEPT ![i].at = at]
    BY <1>0, <1>2 DEF Sh!Lands
  <2>4. DOMAIN shCalls' = DOMAIN s /\ shCalls'[k] = s[k]
    BY <1>0, <2>1, <2>2, <2>3
  <2>. QED
    BY <2>1, <2>4 DEF StopIsSent
<1>. QED
  BY <1>1, <1>2

\* A step that leaves the clients, the list and the events about clients alone.
LEMMA WatchersKept ==
  ASSUME ShareInv, shRooms' = shRooms, shOrphans' = shOrphans, shJoining' = shJoining, shListed' = shListed,
         shRefused' = shRefused, shMissed' = shMissed,
         StopIsSent => StopIsSent',
         NEW E, Pending' = Pending \cup E, \A e \in E : e.is \notin {"joined", "left"}
  PROVE  OneNegotiation' /\ JoinedOnce' /\ WatchersListed'
<1>1. \A r \in Room : /\ Sh!About("left", r) \in Pending' <=> Sh!About("left", r) \in Pending
                      /\ Sh!About("joined", r) \in Pending => Sh!About("joined", r) \in Pending'
  BY DEF Sh!About
<1>2. shRooms \cup shOrphans \subseteq Room
  BY DEF ShareInv, ShTypes
<1>. QED
  BY <1>1, <1>2 DEF ShareInv, OneNegotiation, JoinedOnce, WatchersListed, HasJoined

\* A step that ends the hosting task, or loses the signaling server.
LEMMA WatchersGone ==
  ASSUME ShareInv, shRooms' = {}, shJoining' = Sh!Orphaned, shListed' = shListed, shRefused' = shRefused,
         \/ /\ shOrphans' \in {shOrphans, shOrphans \cup shRooms} /\ shMissed' = shMissed
            /\ StopIsSent => StopIsSent'
         \/ shOrphans' = shOrphans /\ shMissed' = shOrphans \ shListed,
         NEW E, Pending' = Pending \cup E, \A e \in E : e.is \notin {"joined", "left"}
  PROVE  OneNegotiation' /\ JoinedOnce' /\ WatchersListed'
<1>1. \A r \in Room : /\ Sh!About("left", r) \in Pending' <=> Sh!About("left", r) \in Pending
                      /\ Sh!About("joined", r) \in Pending => Sh!About("joined", r) \in Pending'
  BY DEF Sh!About
<1>6. shRooms \cup shOrphans \subseteq Room
  BY DEF ShareInv, ShTypes
<1>2. shJoining \subseteq ShNegotiation /\ OneNegotiation /\ JoinedOnce
  BY DEF ShareInv, ShTypes
<1>3. \A j \in shJoining : [j EXCEPT !.current = FALSE].room = j.room
                           /\ [j EXCEPT !.current = FALSE].open = j.open
  BY <1>2 DEF ShNegotiation
<1>4. OneNegotiation'
  <2>1. SUFFICES ASSUME NEW x \in shJoining', NEW y \in shJoining', x.room = y.room PROVE x = y
    BY DEF OneNegotiation
  <2>2. PICK j \in shJoining, k \in shJoining :
          x = [j EXCEPT !.current = FALSE] /\ y = [k EXCEPT !.current = FALSE]
    BY DEF Sh!Orphaned
  <2>3. j.room = k.room
    BY <1>3, <2>1, <2>2
  <2>4. j = k
    BY <1>2, <2>3 DEF OneNegotiation
  <2>. QED
    BY <2>2, <2>4
<1>5. \A r \in Room : HasJoined(r) => HasJoined(r)'
  BY <1>3 DEF HasJoined, Sh!Orphaned
<1>7. JoinedOnce'
  BY <1>1, <1>2, <1>5, <1>6 DEF JoinedOnce
<1>8. WatchersListed'
  BY <1>1, <1>6 DEF ShareInv, WatchersListed
<1>. QED
  BY <1>4, <1>7, <1>8

\* Every step of Sharing leaves the clients listed or about to be.
LEMMA WatchersStep ==
  ASSUME ShareInv, ShTypes', ShareNext
  PROVE  OneNegotiation' /\ JoinedOnce' /\ WatchersListed'
<1>. USE DEF Sh!shServer, Sh!shWindow
<1>0. /\ ShTypes /\ OneNegotiation /\ JoinedOnce /\ WatchersListed
      /\ shEvents \in Seq(ShEvent) /\ shRooms \cup shOrphans \subseteq Room
      /\ shJoining \subseteq ShNegotiation
  BY DEF ShareInv, ShTypes
<1>s. shEvents \in Seq(ShEvent) /\ ShTypes
  BY <1>0
<1>a. ASSUME UNCHANGED <<shRooms, shOrphans, shJoining, shListed, shRefused, shMissed, shEvents>>, StopIsSent => StopIsSent'
      PROVE  OneNegotiation' /\ JoinedOnce' /\ WatchersListed'
  <2>. DEFINE E == {}
  <2>1. Pending' = Pending \cup E /\ \A e \in E : e.is \notin {"joined", "left"}
    BY <1>a DEF Pending
  <2>. HIDE DEF E
  <2>. QED
    BY <1>a, <2>1, WatchersKept
<1>b. ASSUME NEW op \in {"start", "reauth"}, Sh!Calls(op) PROVE StopIsSent => StopIsSent'
  <2>1. [op |-> op, at |-> "token"] \in ShCall
    BY DEF ShCall
  <2>. QED
    BY <1>0, <1>b, <2>1, StopStaysSent DEF Sh!Calls
<1>c. ASSUME shCalls' = shCalls PROVE StopIsSent => StopIsSent'
  BY <1>c DEF StopIsSent
<1>1. CASE Sh!BadgeClick \/ Sh!DialogStart \/ Sh!DialogSignsIn \/ Sh!DialogLink \/ Sh!CloseDialog
           \/ Sh!ConnectClick \/ Sh!SignedIn \/ Sh!ToggleOn \/ Sh!ToastTimer \/ UNCHANGED shVars
  <2>1. Sh!Calls("start") \/ shCalls' = shCalls
    BY <1>1 DEF Sh!BadgeClick, Sh!BadgeShares, Sh!BadgeSignsIn, Sh!BadgeOpens, Sh!DialogStart, Sh!DialogSignsIn,
       Sh!DialogLink, Sh!CloseDialog, Sh!ConnectClick, Sh!SignedIn, Sh!ToggleOn, Sh!ToastTimer, Sh!StartHosting,
       Sh!Starting, shVars
  <2>2. UNCHANGED <<shRooms, shOrphans, shJoining, shListed, shRefused, shMissed, shEvents>>
    BY <1>1 DEF Sh!BadgeClick, Sh!DialogStart, Sh!DialogSignsIn,
       Sh!DialogLink, Sh!CloseDialog, Sh!ConnectClick, Sh!SignedIn, Sh!ToggleOn, Sh!ToastTimer, shVars
  <2>. QED
    BY <1>a, <1>b, <1>c, <2>1, <2>2
<1>2. CASE Sh!DialogStop \/ Sh!ToggleOff
  <2>1. Sh!StopHosting /\ UNCHANGED <<shRooms, shOrphans, shJoining, shMissed, shEvents>>
    BY <1>2 DEF Sh!DialogStop, Sh!ToggleOff
  <2>2. [op |-> "stop", at |-> "sent"] \in ShCall
    BY DEF ShCall
  <2>3. shRefused' \/ StopIsSent'
    BY <1>0, <2>1, <2>2, StopStaysSent DEF Sh!StopHosting
  <2>4. Pending' = Pending
    BY <2>1 DEF Pending
  <2>. QED
    BY <1>0, <2>1, <2>3, <2>4 DEF OneNegotiation, JoinedOnce, WatchersListed, HasJoined
<1>3. ASSUME NEW i \in DOMAIN shCalls, Sh!Token(i) \/ Sh!Answer(i)
      PROVE  OneNegotiation' /\ JoinedOnce' /\ WatchersListed'
  <2>1. \E at : Sh!Lands(i, at) /\ ~(shCalls[i].op = "stop" /\ shCalls[i].at = "sent")
    BY <1>3 DEF Sh!Token, Sh!Answer, Sh!StartOk, Sh!StartFails, Sh!ReauthOk, Sh!ReauthFails,
                Sh!StopAnswered, Sh!Answered
  <2>2. UNCHANGED <<shRooms, shOrphans, shJoining, shListed, shRefused, shMissed, shEvents>>
    BY <1>3 DEF Sh!Token, Sh!Answer
  <2>. QED
    BY <1>0, <1>a, <2>1, <2>2, StopStaysSent
<1>d. ASSUME NEW s \in Sh!Reports
      PROVE  Sh!Status(s) \in ShEvent /\ Sh!Status(s).is \notin {"joined", "left"}
  BY DEF Sh!Status, ShEvent, Sh!Reports, Sh!Statuses
<1>e. {"disconnected", "account_waiting", "reconnecting", "needs_reauth", "connected"} \subseteq Sh!Reports
  BY DEF Sh!Reports, Sh!Statuses
<1>4. CASE Sh!ServerTakes
  <2>1. shRooms' = {} /\ shJoining' = Sh!Orphaned /\ shOrphans' = shOrphans /\ shListed' = shListed
        /\ shRefused' = shRefused
    BY <1>4 DEF Sh!ServerTakes
  <2>6. (shMissed' = shMissed /\ (StopIsSent => StopIsSent')) \/ shMissed' = shOrphans \ shListed
    <3>1. CASE Sh!ServerStops(shSent[1])
      BY <3>1 DEF Sh!ServerStops
    <3>2. CASE Sh!ServerStarts(shSent[1])
      <4>1. shSent[1] \in DOMAIN shCalls
        BY <1>0, <1>4 DEF ShTypes, Sh!ServerTakes
      <4>2. \E at : Sh!Lands(shSent[1], at) /\ shCalls[shSent[1]].op # "stop"
        BY <3>2 DEF Sh!ServerStarts
      <4>. QED
        BY <1>0, <3>2, <4>1, <4>2, StopStaysSent DEF Sh!ServerStarts
    <3>. QED
      BY <1>4, <3>1, <3>2 DEF Sh!ServerTakes
  <2>. DEFINE d == Sh!Status("disconnected")  w == Sh!Status("account_waiting")
  <2>2. d \in ShEvent /\ w \in ShEvent /\ d.is \notin {"joined", "left"} /\ w.is \notin {"joined", "left"}
    BY <1>d, <1>e
  <2>3. \/ shEvents' = shEvents \o <<>> \/ shEvents' = shEvents \o <<d>>
        \/ shEvents' = shEvents \o <<>> \o <<w>> \/ shEvents' = shEvents \o <<d>> \o <<w>>
    BY <1>4 DEF Sh!ServerTakes, Sh!ServerStops, Sh!ServerStarts, Sh!StopReports
  <2>. HIDE DEF d, w
  <2>4. PICK E \in {{}, {d}, {w}, {d, w}} : Pending' = Pending \cup E
    <3>1. CASE shEvents' = shEvents \o <<>>
      <4>1. shEvents' = shEvents
        BY <1>s, <3>1
      <4>. QED
        BY <4>1 DEF Pending
    <3>2. CASE shEvents' = shEvents \o <<d>>
      BY <1>s, <2>2, <3>2, OneReported
    <3>3. CASE shEvents' = shEvents \o <<>> \o <<w>>
      BY <1>s, <2>2, <3>3, OneReported
    <3>4. CASE shEvents' = shEvents \o <<d>> \o <<w>>
      BY <1>s, <2>2, <3>4, TwoReported
    <3>. QED
      BY <2>3, <3>1, <3>2, <3>3, <3>4
  <2>5. \A e \in E : e.is \notin {"joined", "left"}
    BY <2>2, <2>4
  <2>. QED
    BY <2>1, <2>4, <2>5, <2>6, WatchersGone
<1>5. CASE Sh!SignalingLost
  <2>. DEFINE a == Sh!Status("disconnected")  b == Sh!Status("reconnecting")
  <2>1. a \in ShEvent /\ b \in ShEvent /\ a.is \notin {"joined", "left"} /\ b.is \notin {"joined", "left"}
    BY <1>d, <1>e
  <2>2. /\ shRooms' = {} /\ shJoining' = Sh!Orphaned /\ shEvents' = shEvents \o <<a, b>>
        /\ shOrphans' = shOrphans \cup shRooms /\ UNCHANGED <<shListed, shRefused, shMissed, shCalls>>
    BY <1>5 DEF Sh!SignalingLost
  <2>6. StopIsSent => StopIsSent'
    BY <1>c, <2>2
  <2>. HIDE DEF a, b
  <2>. DEFINE E == {a, b}
  <2>4. Pending' = Pending \cup E
    BY <1>s, <2>1, <2>2, TwoReported
  <2>5. \A e \in E : e.is \notin {"joined", "left"}
    BY <2>1
  <2>. HIDE DEF E
  <2>. QED
    BY <2>2, <2>4, <2>5, <2>6, WatchersGone
<1>6. CASE Sh!Registered \/ Sh!TokenExpired
  <2>1. PICK e \in {Sh!Status("account_waiting"), Sh!Status("needs_reauth")} : shEvents' = Append(shEvents, e)
    BY <1>6 DEF Sh!Registered, Sh!TokenExpired
  <2>2. e \in ShEvent /\ e.is \notin {"joined", "left"}
    BY <1>d, <1>e, <2>1
  <2>3. Pending' = Pending \cup {e}
    BY <1>s, <2>1, <2>2, OneReported
  <2>4. UNCHANGED <<shRooms, shOrphans, shJoining, shListed, shRefused, shMissed, shCalls>>
    BY <1>6 DEF Sh!Registered, Sh!TokenExpired
  <2>. DEFINE E == {e}
  <2>5. Pending' = Pending \cup E /\ \A x \in E : x.is \notin {"joined", "left"}
    BY <2>2, <2>3
  <2>6. StopIsSent => StopIsSent'
    BY <1>c, <2>4
  <2>. HIDE DEF E
  <2>. QED
    BY <2>4, <2>5, <2>6, WatchersKept
<1>7. ASSUME NEW r \in Room, Sh!Requested(r)
      PROVE  OneNegotiation' /\ JoinedOnce' /\ WatchersListed'
  <2>. DEFINE n == [room |-> r, current |-> TRUE, open |-> FALSE]
  <2>1. /\ \A j \in shJoining : j.room # r
        /\ shJoining' = shJoining \cup {n} /\ n.room = r
        /\ UNCHANGED <<shRooms, shOrphans, shListed, shRefused, shMissed, shCalls, shEvents>>
    BY <1>7 DEF Sh!Requested
  <2>. HIDE DEF n
  <2>2. OneNegotiation'
    BY <1>0, <2>1 DEF OneNegotiation
  <2>3. \A x \in Room : HasJoined(x) => HasJoined(x)'
    BY <2>1 DEF HasJoined
  <2>4. Pending' = Pending /\ (StopIsSent => StopIsSent')
    BY <1>c, <2>1 DEF Pending
  <2>. QED
    BY <1>0, <2>1, <2>2, <2>3, <2>4 DEF JoinedOnce, WatchersListed
<1>8. ASSUME NEW r \in Room, Sh!ClientLeft(r)
      PROVE  OneNegotiation' /\ JoinedOnce' /\ WatchersListed'
  <2>. DEFINE l == Sh!About("left", r)  w == Sh!Status("account_waiting")
  <2>1. /\ r \in shRooms /\ shRooms' = shRooms \ {r}
        /\ UNCHANGED <<shOrphans, shJoining, shListed, shRefused, shMissed, shCalls>>
        /\ shEvents' = Append(shEvents, l) \o (IF shRooms' = {} THEN <<w>> ELSE <<>>)
    BY <1>8 DEF Sh!ClientLeft
  <2>2. l \in ShEvent /\ w \in ShEvent /\ w.is \notin {"joined", "left"}
    BY <1>d, <1>e DEF Sh!About, ShEvent
  <2>3. \A x \in Room : /\ Sh!About("left", x) = l <=> x = r
                        /\ Sh!About("left", x) # w /\ Sh!About("joined", x) # w
    BY <2>2 DEF Sh!About
  <2>. HIDE DEF l, w
  <2>4. Append(shEvents, l) \in Seq(ShEvent) /\ Ro!Range(Append(shEvents, l)) = Pending \cup {l}
    BY <1>0, <2>2, Appended DEF Pending
  <2>5. Pending' \in {Pending \cup {l}, Pending \cup {l, w}}
    <3>1. CASE shEvents' = Append(shEvents, l) \o <<w>>
      BY <1>s, <2>2, <3>1, TwoReported
    <3>2. CASE shEvents' = Append(shEvents, l)
      BY <2>4, <3>2 DEF Pending
    <3>3. Append(shEvents, l) \o <<>> = Append(shEvents, l)
      BY <2>4
    <3>. QED
      BY <2>1, <3>1, <3>2, <3>3
  <2>6. /\ \A x \in Room : Sh!About("left", x) \in Pending' => Sh!About("left", x) \in Pending \/ x = r
        /\ \A x \in Room : Sh!About("joined", x) \in Pending => Sh!About("joined", x) \in Pending'
    BY <2>3, <2>5
  <2>7. StopIsSent => StopIsSent'
    BY <1>c, <2>1
  <2>8. OneNegotiation' /\ \A x \in Room : HasJoined(x) <=> HasJoined(x)'
    BY <1>0, <2>1 DEF OneNegotiation, HasJoined
  <2>9. HasJoined(r)
    BY <1>0, <2>1 DEF JoinedOnce
  <2>10. JoinedOnce'
    BY <1>0, <2>1, <2>6, <2>8, <2>9 DEF JoinedOnce
  <2>11. WatchersListed'
    BY <1>0, <2>1, <2>6, <2>7 DEF WatchersListed
  <2>. QED
    BY <2>8, <2>10, <2>11
<1>9. ASSUME NEW j \in shJoining, Sh!Joined(j)
      PROVE  OneNegotiation' /\ JoinedOnce' /\ WatchersListed'
  <2>. DEFINE k == [j EXCEPT !.open = TRUE]  c == Sh!Status("connected")  a == Sh!About("joined", j.room)
  <2>1. /\ ~j.open /\ shJoining' = (shJoining \ {j}) \cup {k}
        /\ \/ shRooms' = shRooms \cup {j.room} /\ shOrphans' = shOrphans
           \/ shOrphans' = shOrphans \cup {j.room} /\ shRooms' = shRooms
        /\ UNCHANGED <<shListed, shRefused, shMissed, shCalls>>
        /\ \/ shEvents' = shEvents \o <<>> \o <<a>>
           \/ shEvents' = shEvents \o <<c>> \o <<a>>
    BY <1>9 DEF Sh!Joined
  <2>2. j \in ShNegotiation /\ j.room \in Room /\ k.room = j.room /\ k.open
    BY <1>0 DEF ShNegotiation
  <2>3. a \in ShEvent /\ c \in ShEvent /\ c.is \notin {"joined", "left"} /\ a.is = "joined"
    BY <1>d, <1>e, <2>2 DEF Sh!About, ShEvent
  <2>. HIDE DEF k, c
  <2>5. Pending' \in {Pending \cup {a}, Pending \cup {c, a}}
    <3>. HIDE DEF a
    <3>1. CASE shEvents' = shEvents \o <<>> \o <<a>>
      BY <1>s, <2>3, <3>1, OneReported
    <3>2. CASE shEvents' = shEvents \o <<c>> \o <<a>>
      BY <1>s, <2>3, <3>2, TwoReported
    <3>. QED
      BY <2>1, <3>1, <3>2
  <2>6. /\ \A x \in Room : Sh!About("left", x) \in Pending' <=> Sh!About("left", x) \in Pending
        /\ \A x \in Room : Sh!About("joined", x) \in Pending => Sh!About("joined", x) \in Pending'
        /\ a \in Pending'
    BY <2>3, <2>5 DEF Sh!About
  <2>7. OneNegotiation'
    BY <1>0, <2>1, <2>2 DEF OneNegotiation
  <2>8. HasJoined(j.room)' /\ \A x \in Room : HasJoined(x) => HasJoined(x)'
    BY <2>1, <2>2 DEF HasJoined
  <2>9. ~HasJoined(j.room)
    BY <1>0, <2>1 DEF OneNegotiation, HasJoined
  <2>10. JoinedOnce'
    BY <1>0, <2>1, <2>2, <2>6, <2>8, <2>9 DEF JoinedOnce
  <2>11. WatchersListed'
    <3>1. StopIsSent => StopIsSent'
      BY <1>c, <2>1
    <3>. QED
      BY <1>0, <2>1, <2>6, <3>1 DEF WatchersListed
  <2>. QED
    BY <2>7, <2>10, <2>11
<1>11. ASSUME NEW r \in Room, Sh!OrphanLeft(r)
       PROVE  OneNegotiation' /\ JoinedOnce' /\ WatchersListed'
  <2>1. shOrphans' \subseteq shOrphans
        /\ UNCHANGED <<shRooms, shJoining, shListed, shRefused, shMissed, shCalls, shEvents>>
    BY <1>11 DEF Sh!OrphanLeft
  <2>2. Pending' = Pending /\ (StopIsSent => StopIsSent')
    BY <1>c, <2>1 DEF Pending
  <2>. QED
    BY <1>0, <2>1, <2>2 DEF OneNegotiation, JoinedOnce, WatchersListed, HasJoined
<1>10. CASE Sh!Event
  <2>. DEFINE e == shEvents[1]
  <2>1. /\ shEvents # <<>> /\ shEvents' = SubSeq(shEvents, 2, Len(shEvents))
        /\ Sh!ShowsStatus(e) \/ Sh!AsksAgain(e) \/ Sh!ListsClient(e) \/ Sh!UnlistsClient(e)
        /\ UNCHANGED <<shRooms, shOrphans, shJoining, shRefused, shMissed>>
    BY <1>10 DEF Sh!Event
  <2>2. Pending = {e} \cup Pending'
    BY <1>0, <2>1, HeadTaken DEF Pending
  <2>3. e \in ShEvent
    BY <1>0, <2>1
  <2>. HIDE DEF e
  <2>4. StopIsSent => StopIsSent'
    BY <1>b, <1>c, <2>1 DEF Sh!ShowsStatus, Sh!AsksAgain, Sh!ListsClient, Sh!UnlistsClient
  <2>5. OneNegotiation' /\ JoinedOnce'
    BY <1>0, <2>1, <2>2 DEF OneNegotiation, JoinedOnce, HasJoined
  <2>6. ASSUME NEW r \in shRooms \cup shOrphans, r \in shListed \/ Sh!About("joined", r) \in Pending
        PROVE  r \in shListed' \/ Sh!About("joined", r) \in Pending'
    <3>1. r \in Room /\ e # Sh!About("left", r)
      BY <1>0, <2>2 DEF JoinedOnce
    <3>2. CASE Sh!ShowsStatus(e) \/ Sh!AsksAgain(e)
      <4>1. e # Sh!About("joined", r) /\ shListed' = shListed
        BY <3>2 DEF Sh!ShowsStatus, Sh!AsksAgain, Sh!About, Sh!Reports, Sh!Statuses
      <4>. QED
        BY <2>2, <2>6, <4>1
    <3>3. CASE Sh!ListsClient(e)
      BY <2>2, <2>6, <3>3 DEF Sh!ListsClient, Sh!About
    <3>4. CASE Sh!UnlistsClient(e)
      <4>1. PICK x \in Room : e = Sh!About("left", x)
        BY <2>3, <3>4 DEF Sh!UnlistsClient, ShEvent, Sh!About, Sh!Reports, Sh!Statuses
      <4>2. x # r /\ e.room[1] = x /\ e # Sh!About("joined", r)
        BY <3>1, <4>1 DEF Sh!About
      <4>3. shListed' = shListed \ {x}
        BY <3>4, <4>2 DEF Sh!UnlistsClient
      <4>. QED
        BY <2>2, <2>6, <4>2, <4>3
    <3>. QED
      BY <2>1, <3>2, <3>3, <3>4
  <2>7. WatchersListed'
    BY <1>0, <2>1, <2>4, <2>6 DEF WatchersListed
  <2>. QED
    BY <2>5, <2>7
<1>. QED
  BY <1>1, <1>2, <1>3, <1>4, <1>5, <1>6, <1>7, <1>8, <1>9, <1>10, <1>11 DEF ShareNext, Sh!ShNext

\* What knowing who is there rests on.
WhoInv ==
  /\ part = "view" => Rv!TypeOK /\ TabsAreListed
  /\ part = "sharing" => ShareInv
  /\ part = "login" => CodesArePolled

\* It holds at the start.
LEMMA WhoInit ==
  ASSUME Init
  PROVE  WhoInv
<1>1. ASSUME part = "view" PROVE Rv!TypeOK /\ TabsAreListed
  <2>1. Rv!Init
    BY <1>1 DEF Init
  <2>2. wire = <<>> => wire \in Seq(Rv!Event)
    OBVIOUS
  <2>. QED
    BY <2>1, <2>2 DEF Rv!Init, Rv!TypeOK, TabsAreListed
<1>2. ASSUME part = "sharing" PROVE ShareInv
  <2>1. Sh!ShInit
    BY <1>2 DEF Init
  <2>2. /\ shSent = <<>> /\ shEvents = <<>> /\ shRooms = {} /\ shOrphans = {} /\ shJoining = {} /\ shListed = {}
        /\ shHost = "off" /\ shDrops = 0 /\ shRefused = FALSE /\ shMissed = {}
        /\ shToast = [shown |-> FALSE, timers |-> 0]
        /\ shDialog = [open |-> FALSE, mode |-> "host"]
    BY <2>1 DEF Sh!ShInit
  <2>3. /\ shLogin \in [in : BOOLEAN, wanted : BOOLEAN] /\ shEnabled \in BOOLEAN
        /\ shStatus \in Sh!Statuses
        /\ shCalls = <<[op |-> "start", at |-> "token"]>> \/ shCalls = <<>>
    BY <2>1 DEF Sh!ShInit, Sh!Statuses
  <2>4. shCalls \in Seq(ShCall)
    <3>. DEFINE c == [op |-> "start", at |-> "token"]
    <3>1. c \in ShCall
      BY DEF ShCall
    <3>2. shCalls = <<c>> \/ shCalls = <<>>
      BY <2>3
    <3>. HIDE DEF c
    <3>3. <<c>> \in Seq(ShCall) /\ <<>> \in Seq(ShCall)
      BY <3>1
    <3>. QED
      BY <3>2, <3>3
  <2>5. shSent \in Seq(DOMAIN shCalls) /\ shEvents \in Seq(ShEvent)
    BY <2>2
  <2>a. /\ [shown |-> FALSE, timers |-> 0] \in [shown : BOOLEAN, timers : Nat]
        /\ [open |-> FALSE, mode |-> "host"] \in [open : BOOLEAN, mode : {"host", "client"}]
    OBVIOUS
  <2>b. 0 \in 0 .. MaxShDrops
    BY ShareAssumption
  <2>6. ShTypes
    BY <2>a, <2>b, <2>2, <2>3, <2>4, <2>5, ShareAssumption DEF ShTypes
  <2>7. Pending = {}
    BY <2>2 DEF Pending, Ro!Range
  <2>. QED
    BY <2>2, <2>6, <2>7 DEF ShareInv, OneNegotiation, JoinedOnce, WatchersListed
<1>3. ASSUME part = "login" PROVE CodesArePolled
  <2>1. Lo!Init
    BY <1>3 DEF Init
  <2>. QED
    BY <2>1 DEF Lo!Init, CodesArePolled, Lo!ShownCodeIsPolled
<1>. QED
  BY <1>1, <1>2, <1>3 DEF WhoInv

\* Once every event has been taken the dialog lists whoever watches.
LEMMA WatchersAreListed ==
  ASSUME ShareInv
  PROVE  Sh!NobodyWatchesUnseen
<1>1. shEvents = <<>> => Pending = {}
  BY DEF Pending, Ro!Range
<1>. QED
  BY <1>1 DEF ShareInv, WatchersListed, StopIsSent, Sh!NobodyWatchesUnseen

\* Tabs of devices that are there are no ghosts.
LEMMA TabsHaveDevices ==
  ASSUME Rv!TypeOK, TabsAreListed
  PROVE  Rv!NoGhostTabs
  BY DEF Rv!NoGhostTabs, TabsAreListed, Rv!TypeOK

\* Every step keeps it.
LEMMA WhoStep ==
  WhoInv /\ [Next]_vars => WhoInv'
<1>1. ASSUME WhoInv, [Next]_vars, part = "view" PROVE Rv!TypeOK' /\ TabsAreListed'
  BY <1>1, PartsStep, ViewTypeStep, ViewStep DEF WhoInv
<1>2. ASSUME WhoInv, [Next]_vars, part = "sharing" PROVE ShareInv'
  <2>1. ShareInv /\ ShTypes /\ ShareNext
    BY <1>2, PartsStep DEF WhoInv, ShareInv
  <2>2. ShTypes'
    BY <2>1, ShareTypeStep
  <2>. QED
    BY <2>1, <2>2, WatchersStep DEF ShareInv
<1>3. ASSUME WhoInv, [Next]_vars, part = "login" PROVE CodesArePolled'
  BY <1>3, PartsStep, LoginStep DEF WhoInv
<1>. QED
  BY <1>1, <1>2, <1>3, PartsStep DEF WhoInv

\* Who is there is known in every reachable state: no ghost tabs, no unlisted
\* watchers but those of an ended task, no code nobody polls (remoteStore.ts, server_host.rs, authStore.ts).
THEOREM WhoIsThere == Spec => []WhoIsThereIsKnown
<1>1. Init => WhoInv
  BY WhoInit
<1>2. WhoInv /\ [Next]_vars => WhoInv'
  BY WhoStep
<1>3. WhoInv => WhoIsThereIsKnown
  BY WatchersAreListed, TabsHaveDevices DEF WhoInv, WhoIsThereIsKnown, CodesArePolled
<1>4. QED
  BY <1>1, <1>2, <1>3, PTL DEF Spec

-----------------------------------------------------------------------------
\* The bounds on prompts are numbers, and the absence of a snapshot is none.
ASSUME PromptAssumption ==
  /\ MaxPrompts \in Nat \ {0} /\ MaxChanges \in Nat /\ MaxLinks \in Nat /\ MaxRequests \in Nat
  /\ \A ps \in Ps!Snapshot : ps # NoSnapshot

\* What is sent of a snapshot is one.
LEMMA OnTheWire ==
  ASSUME NEW ps \in Ps!Snapshot
  PROVE  Ps!ToWire(ps) \in Ps!Snapshot
  BY DEF Ps!ToWire, Ps!Snapshot, Ps!Status

\* A snapshot without a prompt, and with one put in its place.
LEMMA Changed ==
  ASSUME NEW id \in 1..MaxPrompts, NEW s \in Ps!Status, prompts \in Ps!Snapshot
  PROVE  Ps!Without(id) \in Ps!Snapshot /\ Ps!Without(id) \cup {<<id, s>>} \in Ps!Snapshot
  BY DEF Ps!Without, Ps!Snapshot, Ps!Status

\* A sequence whose i-th element is taken out.
LEMMA CarriedOut ==
  ASSUME NEW S, NEW s \in Seq(S), NEW i \in DOMAIN s
  PROVE  /\ s[i] \in S /\ Ps!RemoveAt(s, i) \in Seq(S) /\ Len(Ps!RemoveAt(s, i)) = Len(s) - 1
         /\ i = 1 /\ Len(s) = 1 => Ps!RemoveAt(s, i) = <<>>
         /\ i = 1 /\ Len(s) # 1 => /\ Ps!RemoveAt(s, i) # <<>>
                                   /\ Ps!RemoveAt(s, i)[Len(Ps!RemoveAt(s, i))] = s[Len(s)]
<1>. DEFINE a == SubSeq(s, 1, i - 1)  b == SubSeq(s, i + 1, Len(s))
<1>1. Len(s) \in Nat \ {0} /\ DOMAIN s = 1..Len(s) /\ i \in 1..Len(s) /\ s[i] \in S
  OBVIOUS
<1>2. a \in Seq(S) /\ Len(a) = i - 1 /\ (i = 1 => Len(a) = 0)
  BY <1>1
<1>3. b \in Seq(S) /\ Len(b) = Len(s) - i /\ \A j \in 1..Len(b) : b[j] = s[i + j]
  BY <1>1
<1>4. Ps!RemoveAt(s, i) = a \o b
  BY DEF Ps!RemoveAt
<1>. HIDE DEF a, b
<1>5. i = 1 => a \o b = b
  BY <1>2, <1>3
<1>6. Len(s) = 1 /\ i = 1 => b = <<>>
  BY <1>3
<1>7. Len(s) # 1 /\ i = 1 => b # <<>> /\ b[Len(b)] = s[Len(s)]
  BY <1>1, <1>3
<1>8. a \o b \in Seq(S) /\ Len(a \o b) = Len(a) + Len(b)
  <2>1. a \in Seq(S) /\ b \in Seq(S)
    BY <1>2, <1>3
  <2>. QED
    BY <2>1
<1>9. Len(a) + Len(b) = Len(s) - 1
  BY <1>1, <1>2, <1>3
<1>. QED
  BY <1>1, <1>4, <1>5, <1>6, <1>7, <1>8, <1>9

\* The types of PromptSync.
PromptTypes ==
  /\ prompts \in Ps!Snapshot /\ stored \in Ps!Snapshot /\ latest \in Ps!Snapshot
  /\ read \in Ps!MaybeSnapshot /\ pushTimer \in Ps!MaybeSnapshot /\ phone \in Ps!MaybeSnapshot
  /\ hydrating \in BOOLEAN /\ deferred \in BOOLEAN /\ hydrated \in BOOLEAN
  /\ promptsDirty \in BOOLEAN /\ raced \in BOOLEAN
  /\ invoked \in Seq(Ps!Snapshot)
  /\ ws \in {"down", "open", "registered"}
  /\ changes \in 0..MaxChanges /\ promptsLinks \in 0..MaxLinks /\ requests \in 0..MaxRequests

\* The debounced push would send what the store holds now (usePromptSync.ts).
TimerIsLatest == pushTimer # NoSnapshot => pushTimer = Ps!ToWire(prompts)
\* With no push waiting, the last update on its way has what the store holds.
LastUpdateIsLatest ==
  pushTimer = NoSnapshot /\ ~raced /\ invoked # <<>> => invoked[Len(invoked)] = Ps!ToWire(prompts)
\* With none on its way, the backend's buffer has it.
BufferIsLatest ==
  pushTimer = NoSnapshot /\ ~raced /\ invoked = <<>> /\ hydrated => latest = Ps!ToWire(prompts)
\* A registered phone has the buffer, unless the presence loop is about to send it.
PhoneHasBuffer == ws = "registered" /\ ~promptsDirty /\ hydrated => phone = latest
\* The inductive invariant of PromptSync.
PromptInv == PromptTypes /\ TimerIsLatest /\ LastUpdateIsLatest /\ BufferIsLatest /\ PhoneHasBuffer

\* An update is sent after those on their way.
LEMMA UpdateAdded ==
  ASSUME PromptTypes, NEW ps \in Ps!Snapshot, invoked' = Append(invoked, ps)
  PROVE  invoked' \in Seq(Ps!Snapshot) /\ invoked' # <<>> /\ invoked'[Len(invoked')] = ps
<1>. DEFINE S == Ps!Snapshot
<1>1. invoked \in Seq(S) /\ ps \in S
  BY DEF PromptTypes
<1>. HIDE DEF S
<1>2. Append(invoked, ps) \in Seq(S) /\ Append(invoked, ps) # <<>>
      /\ Append(invoked, ps)[Len(Append(invoked, ps))] = ps
  BY <1>1
<1>. QED
  BY <1>2 DEF S

\* Every step of the prompts' synchronisation keeps it.
LEMMA PromptStep ==
  ASSUME PromptInv, PromptNext
  PROVE  PromptInv'
<1>. USE PromptAssumption DEF Ps!storeVars, Ps!backendVars, Ps!bounds, Ps!MaybeSnapshot
<1>0. PromptTypes /\ TimerIsLatest /\ LastUpdateIsLatest /\ BufferIsLatest /\ PhoneHasBuffer
  BY DEF PromptInv
<1>1. ASSUME NEW ps \in Ps!Snapshot, Ps!Store(ps) PROVE PromptInv'
  <2>1. Ps!ToWire(ps) \in Ps!Snapshot /\ Ps!ToWire(ps) # NoSnapshot
    BY OnTheWire
  <2>2. PromptTypes'
    BY <1>0, <1>1, <2>1 DEF Ps!Store, PromptTypes
  <2>3. TimerIsLatest' /\ LastUpdateIsLatest' /\ BufferIsLatest' /\ PhoneHasBuffer'
    BY <1>0, <1>1, <2>1 DEF Ps!Store, TimerIsLatest, LastUpdateIsLatest, BufferIsLatest, PhoneHasBuffer
  <2>. QED
    BY <2>2, <2>3 DEF PromptInv
<1>2. ASSUME NEW id \in 1..MaxPrompts, Ps!AddPrompt(id) \/ Ps!RemovePrompt(id) \/ Ps!ToggleDone(id)
      PROVE PromptInv'
  <2>1. prompts \in Ps!Snapshot /\ {"pending", "done"} \subseteq Ps!Status
    BY <1>0 DEF PromptTypes, Ps!Status
  <2>2. PICK ps \in Ps!Snapshot : Ps!Store(ps)
    BY <1>2, <2>1, Changed DEF Ps!AddPrompt, Ps!RemovePrompt, Ps!ToggleDone
  <2>. QED
    BY <1>1, <2>2
<1>3. ASSUME NEW p \in prompts, Ps!Advance(p) \/ Ps!FromMenu(p) PROVE PromptInv'
  <2>1. prompts \in Ps!Snapshot /\ p[1] \in 1..MaxPrompts /\ p[2] \in Ps!Status
    BY <1>0 DEF PromptTypes, Ps!Snapshot
  <2>2. Ps!Advanced[p[2]] \in Ps!Status /\ Ps!RunOrRestored[p[2]] \in Ps!Status
    BY <2>1 DEF Ps!Advanced, Ps!RunOrRestored, Ps!Status
  <2>3. PICK ps \in Ps!Snapshot : Ps!Store(ps)
    BY <1>3, <2>1, <2>2, Changed DEF Ps!Advance, Ps!FromMenu, Ps!SetStatus
  <2>. QED
    BY <1>1, <2>3
<1>4. CASE Ps!Hydrate
  <2>1. prompts' \in Ps!Snapshot /\ Ps!ToWire(prompts') \in Ps!Snapshot
    <3>1. prompts' \in Ps!Snapshot
      BY <1>0, <1>4 DEF Ps!Hydrate, PromptTypes
    <3>. DEFINE q == prompts'
    <3>2. q \in Ps!Snapshot
      BY <3>1
    <3>. HIDE DEF q
    <3>3. Ps!ToWire(q) \in Ps!Snapshot
      BY <3>2, OnTheWire
    <3>. QED
      BY <3>1, <3>3 DEF q
  <2>2. /\ read' = NoSnapshot /\ hydrating' = FALSE /\ deferred' = FALSE
        /\ UNCHANGED <<stored, latest, hydrated, promptsDirty, ws, phone, raced, changes, promptsLinks, requests>>
    BY <1>4 DEF Ps!Hydrate
  <2>3. CASE deferred
    <3>1. pushTimer' = NoSnapshot /\ invoked' = Append(invoked, Ps!ToWire(prompts'))
      BY <1>4, <2>3 DEF Ps!Hydrate
    <3>2. invoked' \in Seq(Ps!Snapshot) /\ invoked' # <<>> /\ invoked'[Len(invoked')] = Ps!ToWire(prompts')
      BY <1>0, <2>1, <3>1, UpdateAdded
    <3>3. PromptTypes'
      BY <1>0, <2>1, <2>2, <3>1, <3>2 DEF PromptTypes
    <3>4. TimerIsLatest' /\ LastUpdateIsLatest' /\ BufferIsLatest' /\ PhoneHasBuffer'
      BY <1>0, <2>2, <3>1, <3>2 DEF TimerIsLatest, LastUpdateIsLatest, BufferIsLatest, PhoneHasBuffer
    <3>. QED
      BY <3>3, <3>4 DEF PromptInv
  <2>4. CASE ~deferred
    <3>1. /\ invoked' = invoked
          /\ (prompts' = prompts /\ pushTimer' = pushTimer) \/ pushTimer' = Ps!ToWire(prompts')
      BY <1>4, <2>4 DEF Ps!Hydrate
    <3>2. Ps!ToWire(prompts') # NoSnapshot
      BY <2>1
    <3>3. PromptTypes'
      BY <1>0, <2>1, <2>2, <3>1 DEF PromptTypes
    <3>4. TimerIsLatest' /\ LastUpdateIsLatest' /\ BufferIsLatest' /\ PhoneHasBuffer'
      BY <1>0, <2>2, <3>1, <3>2 DEF TimerIsLatest, LastUpdateIsLatest, BufferIsLatest, PhoneHasBuffer
    <3>. QED
      BY <3>3, <3>4 DEF PromptInv
  <2>. QED
    BY <2>3, <2>4
<1>a. ASSUME NEW ps \in Ps!Snapshot, ps = Ps!ToWire(prompts), invoked' = Append(invoked, ps), pushTimer' = NoSnapshot,
             requests' \in 0..MaxRequests,
             UNCHANGED <<Ps!storeVars, deferred, Ps!backendVars, ws, phone, raced, changes, promptsLinks>>
      PROVE  PromptInv'
  <2>1. invoked' \in Seq(Ps!Snapshot) /\ invoked' # <<>> /\ invoked'[Len(invoked')] = ps
    BY <1>0, <1>a, UpdateAdded
  <2>2. PromptTypes'
    BY <1>0, <1>a, <2>1 DEF PromptTypes
  <2>3. TimerIsLatest' /\ LastUpdateIsLatest' /\ BufferIsLatest' /\ PhoneHasBuffer'
    BY <1>0, <1>a, <2>1 DEF TimerIsLatest, LastUpdateIsLatest, BufferIsLatest, PhoneHasBuffer
  <2>. QED
    BY <2>2, <2>3 DEF PromptInv
<1>5. CASE Ps!PushTimer
  <2>1. pushTimer \in Ps!Snapshot /\ pushTimer = Ps!ToWire(prompts) /\ requests \in 0..MaxRequests
    BY <1>0, <1>5 DEF Ps!PushTimer, PromptTypes, TimerIsLatest
  <2>. QED
    BY <1>5, <1>a, <2>1 DEF Ps!PushTimer
<1>6. CASE Ps!PromptRequest
  <2>1. requests' \in 0..MaxRequests
    BY <1>0, <1>6 DEF Ps!PromptRequest, PromptTypes
  <2>2. CASE hydrating
    <3>1. deferred' = TRUE /\ UNCHANGED <<Ps!storeVars, Ps!backendVars, ws, phone, raced, changes, promptsLinks, pushTimer, invoked>>
      BY <1>6, <2>2 DEF Ps!PromptRequest
    <3>2. PromptTypes'
      BY <1>0, <2>1, <3>1 DEF PromptTypes
    <3>3. TimerIsLatest' /\ LastUpdateIsLatest' /\ BufferIsLatest' /\ PhoneHasBuffer'
      BY <1>0, <3>1 DEF TimerIsLatest, LastUpdateIsLatest, BufferIsLatest, PhoneHasBuffer
    <3>. QED
      BY <3>2, <3>3 DEF PromptInv
  <2>3. CASE ~hydrating
    <3>1. Ps!ToWire(prompts) \in Ps!Snapshot
      BY <1>0, OnTheWire DEF PromptTypes
    <3>. QED
      BY <1>6, <1>a, <2>1, <2>3, <3>1 DEF Ps!PromptRequest
  <2>. QED
    BY <2>2, <2>3
<1>7. ASSUME NEW i \in DOMAIN invoked, Ps!UpdateRemotePrompts(i) PROVE PromptInv'
  <2>. DEFINE t == Ps!RemoveAt(invoked, i)
  <2>1. invoked \in Seq(Ps!Snapshot) /\ Len(invoked) \in Nat /\ invoked # <<>> /\ (Len(invoked) = 1 => invoked[Len(invoked)] = invoked[1])
    BY <1>0, <1>7 DEF PromptTypes
  <2>2. /\ invoked[i] \in Ps!Snapshot /\ t \in Seq(Ps!Snapshot)
        /\ i = 1 /\ Len(invoked) = 1 => t = <<>>
        /\ i = 1 /\ Len(invoked) # 1 => t # <<>> /\ t[Len(t)] = invoked[Len(invoked)]
    BY <2>1, CarriedOut
  <2>. HIDE DEF t
  <2>3. /\ latest' = invoked[i] /\ hydrated' = TRUE /\ promptsDirty' = (ws # "down") /\ invoked' = t
        /\ raced' = (raced \/ i # 1)
        /\ UNCHANGED <<prompts, stored, hydrating, read, deferred, pushTimer, ws, phone, changes, promptsLinks, requests>>
    BY <1>7 DEF Ps!UpdateRemotePrompts, t
  <2>4. PromptTypes'
    BY <1>0, <2>2, <2>3 DEF PromptTypes
  <2>5. TimerIsLatest' /\ LastUpdateIsLatest' /\ BufferIsLatest' /\ PhoneHasBuffer'
    BY <1>0, <2>1, <2>2, <2>3 DEF TimerIsLatest, LastUpdateIsLatest, BufferIsLatest, PhoneHasBuffer
  <2>. QED
    BY <2>4, <2>5 DEF PromptInv
<1>8. CASE Ps!PresencePushes \/ Ps!Connect \/ Ps!Registered \/ Ps!Disconnect
  <2>0. UNCHANGED <<prompts, stored, hydrating, read, deferred, pushTimer, invoked, latest, hydrated, raced,
                    changes, requests>>
    BY <1>8 DEF Ps!PresencePushes, Ps!Connect, Ps!Registered, Ps!Disconnect
  <2>a. phone' \in Ps!MaybeSnapshot /\ promptsDirty' \in BOOLEAN
    BY <1>0, <1>8 DEF PromptTypes, Ps!PresencePushes, Ps!Connect, Ps!Registered, Ps!Disconnect, Ps!PushAgain
  <2>b. ws' \in {"down", "open", "registered"} /\ promptsLinks' \in 0..MaxLinks
    BY <1>0, <1>8 DEF PromptTypes, Ps!PresencePushes, Ps!Connect, Ps!Registered, Ps!Disconnect
  <2>1. PromptTypes'
    BY <1>0, <2>0, <2>a, <2>b DEF PromptTypes
  <2>2. TimerIsLatest' /\ LastUpdateIsLatest' /\ BufferIsLatest'
    BY <1>0, <1>8 DEF TimerIsLatest, LastUpdateIsLatest, BufferIsLatest, Ps!PresencePushes, Ps!Connect, Ps!Registered, Ps!Disconnect
  <2>3. PhoneHasBuffer'
    BY <1>0, <1>8 DEF PromptTypes, PhoneHasBuffer, Ps!PresencePushes, Ps!Connect, Ps!Registered, Ps!Disconnect, Ps!PushAgain
  <2>. QED
    BY <2>1, <2>2, <2>3 DEF PromptInv
<1>9. CASE UNCHANGED psVars
  <2>1. PromptTypes'
    BY <1>0, <1>9 DEF PromptTypes, psVars
  <2>2. TimerIsLatest' /\ LastUpdateIsLatest' /\ BufferIsLatest' /\ PhoneHasBuffer'
    BY <1>0, <1>9 DEF TimerIsLatest, LastUpdateIsLatest, BufferIsLatest, PhoneHasBuffer, psVars
  <2>. QED
    BY <2>1, <2>2 DEF PromptInv
<1>. QED
  BY <1>2, <1>3, <1>4, <1>5, <1>6, <1>7, <1>8, <1>9 DEF PromptNext, Ps!Next

-----------------------------------------------------------------------------
\* The bounds on the remote output are numbers.
ASSUME OutputAssumption ==
  /\ MaxChunks \in Nat /\ MaxLinks \in Nat /\ TailRoom \in Nat /\ MaxToggles \in Nat
  /\ HistoryRoom \in Nat /\ BridgeRoom \in Nat \ {0}

\* The elements of two sequences, one after the other.
LEMMA Concatenated ==
  ASSUME NEW S, NEW s \in Seq(S), NEW t \in Seq(S)
  PROVE  s \o t \in Seq(S) /\ Ro!Range(s \o t) = Ro!Range(s) \cup Ro!Range(t)
<1>. DEFINE u == s \o t
<1>1. /\ u \in Seq(S) /\ Len(u) = Len(s) + Len(t) /\ Len(s) \in Nat /\ Len(t) \in Nat
      /\ DOMAIN u = 1..Len(u) /\ DOMAIN s = 1..Len(s) /\ DOMAIN t = 1..Len(t)
  OBVIOUS
<1>2. \A i \in 1..Len(s) : u[i] = s[i]
  OBVIOUS
<1>3. \A i \in 1..Len(t) : u[Len(s) + i] = t[i]
  OBVIOUS
<1>4. \A i \in 1..Len(u) : i \in 1..Len(s) \/ (i - Len(s) \in 1..Len(t) /\ u[i] = t[i - Len(s)])
  OBVIOUS
<1>. HIDE DEF u
<1>5. ASSUME NEW x \in Ro!Range(u) PROVE x \in Ro!Range(s) \cup Ro!Range(t)
  BY <1>1, <1>2, <1>4, <1>5 DEF Ro!Range
<1>6. ASSUME NEW x \in Ro!Range(s) PROVE x \in Ro!Range(u)
  BY <1>1, <1>2, <1>6 DEF Ro!Range
<1>7. ASSUME NEW x \in Ro!Range(t) PROVE x \in Ro!Range(u)
  <2>1. PICK i \in 1..Len(t) : x = t[i]
    BY <1>1, <1>7 DEF Ro!Range
  <2>2. Len(s) + i \in 1..Len(u)
    BY <1>1
  <2>. QED
    BY <1>1, <1>3, <2>1, <2>2 DEF Ro!Range
<1>8. u \in Seq(S) /\ Ro!Range(u) = Ro!Range(s) \cup Ro!Range(t)
  BY <1>1, <1>5, <1>6, <1>7
<1>. QED
  BY <1>8 DEF u

\* The elements of a sequence cut at any place.
LEMMA CutInTwo ==
  ASSUME NEW S, NEW s \in Seq(S), NEW n \in 0..Len(s)
  PROVE  /\ SubSeq(s, 1, n) \in Seq(S) /\ SubSeq(s, n + 1, Len(s)) \in Seq(S)
         /\ Ro!Range(s) = Ro!Range(SubSeq(s, 1, n)) \cup Ro!Range(SubSeq(s, n + 1, Len(s)))
<1>. DEFINE a == SubSeq(s, 1, n)  b == SubSeq(s, n + 1, Len(s))
<1>1. /\ Len(s) \in Nat /\ DOMAIN s = 1..Len(s) /\ n \in Nat /\ n <= Len(s)
      /\ a \in Seq(S) /\ DOMAIN a = 1..n
      /\ b \in Seq(S) /\ DOMAIN b = 1..(Len(s) - n)
  OBVIOUS
<1>2. /\ \A i \in 1..n : a[i] = s[i]
      /\ \A i \in 1..(Len(s) - n) : b[i] = s[n + i]
  OBVIOUS
<1>. HIDE DEF a, b
<1>3. ASSUME NEW x \in Ro!Range(s) PROVE x \in Ro!Range(a) \cup Ro!Range(b)
  <2>1. PICK i \in 1..Len(s) : x = s[i]
    BY <1>1, <1>3 DEF Ro!Range
  <2>2. CASE i <= n
    BY <1>1, <1>2, <2>1, <2>2 DEF Ro!Range
  <2>3. CASE i > n
    <3>1. i - n \in 1..(Len(s) - n) /\ b[i - n] = s[i]
      BY <1>1, <1>2, <2>3
    <3>. QED
      BY <1>1, <2>1, <3>1 DEF Ro!Range
  <2>. QED
    BY <1>1, <2>2, <2>3
<1>4. ASSUME NEW x \in Ro!Range(a) PROVE x \in Ro!Range(s)
  BY <1>1, <1>2, <1>4 DEF Ro!Range
<1>5. ASSUME NEW x \in Ro!Range(b) PROVE x \in Ro!Range(s)
  <2>1. PICK i \in 1..(Len(s) - n) : x = b[i]
    BY <1>1, <1>5 DEF Ro!Range
  <2>2. n + i \in 1..Len(s) /\ x = s[n + i]
    BY <1>1, <1>2, <2>1
  <2>. QED
    BY <1>1, <2>2 DEF Ro!Range
<1>6. a \in Seq(S) /\ b \in Seq(S) /\ Ro!Range(s) = Ro!Range(a) \cup Ro!Range(b)
  BY <1>1, <1>3, <1>4, <1>5
<1>. QED
  BY <1>6 DEF a, b

\* The elements of a sequence are its head and those of its tail.
LEMMA TailLeft ==
  ASSUME NEW S, NEW s \in Seq(S), s # <<>>
  PROVE  /\ Head(s) \in S /\ Tail(s) \in Seq(S) /\ <<Head(s)>> \in Seq(S)
         /\ Ro!Range(s) = {Head(s)} \cup Ro!Range(Tail(s)) /\ Ro!Range(<<Head(s)>>) = {Head(s)}
<1>1. Head(s) = s[1] /\ Tail(s) = SubSeq(s, 2, Len(s)) /\ Head(s) \in S /\ Tail(s) \in Seq(S)
  OBVIOUS
<1>2. Ro!Range(s) = {s[1]} \cup Ro!Range(SubSeq(s, 2, Len(s)))
  BY HeadTaken
<1>. DEFINE h == Head(s)
<1>3. h \in S
  BY <1>1
<1>. HIDE DEF h
<1>4. <<h>> \in Seq(S) /\ Ro!Range(<<h>>) = {h}
  BY <1>3 DEF Ro!Range
<1>. QED
  BY <1>1, <1>2, <1>4 DEF h

\* The chunks of output, in the order printed.
Chunk == 1..MaxChunks
\* How far a connection has come.
Stage == {"down", "open", "relayed", "left"}
\* The types of RemoteOutput.
OutputTypes ==
  /\ printed \in 0..MaxChunks /\ aired \in 0..printed
  /\ outputLinks \in 0..MaxLinks /\ toggles \in 0..MaxToggles
  /\ stage \in Stage /\ asked \in BOOLEAN /\ historySent \in BOOLEAN
  /\ shownTerm \in BOOLEAN /\ opened \in BOOLEAN /\ sizing \in BOOLEAN /\ privacy \in BOOLEAN
  /\ bridge \in Seq(Chunk) /\ replay \in Seq(Chunk) /\ channel \in Seq(Chunk) /\ early \in Seq(Chunk)
  /\ held \in Seq(Chunk) /\ display \in Seq(Chunk)
  /\ dropped \subseteq Chunk /\ outdated \subseteq Chunk /\ unrelayed \subseteq Chunk
\* The chunks that this side has, or has dropped on purpose.
OnThisSide == Ro!Range(early) \cup Ro!Range(held) \cup Ro!Range(display) \cup dropped
\* What the host has sent, has still to send, had no room to keep, or sent to others only.
FromTheHost == outdated \cup unrelayed \cup Ro!Range(bridge) \cup Ro!Range(replay) \cup Ro!Range(channel)
\* Once a history was answered, a chunk that was broadcast is on its way or on this side.
AllIsThere == Ro!linked /\ historySent => 1..aired \subseteq FromTheHost \cup OnThisSide
\* The inductive invariant of RemoteOutput.
OutputInv == OutputTypes /\ AllIsThere

\* The sequences NothingIsMissing strings together have these elements.
LEMMA AllOfThem ==
  ASSUME OutputTypes
  PROVE  outdated \cup unrelayed \cup dropped \cup Ro!Range(bridge \o replay \o channel \o early \o held \o display)
           = FromTheHost \cup OnThisSide
<1>1. /\ bridge \in Seq(Chunk) /\ replay \in Seq(Chunk) /\ channel \in Seq(Chunk) /\ early \in Seq(Chunk)
      /\ held \in Seq(Chunk) /\ display \in Seq(Chunk)
  BY DEF OutputTypes
<1>. DEFINE z == bridge \o replay  a == z \o channel  b == a \o early  c == b \o held  d == c \o display
<1>0. z \in Seq(Chunk) /\ Ro!Range(z) = Ro!Range(bridge) \cup Ro!Range(replay)
  BY <1>1, Concatenated
<1>. HIDE DEF z
<1>2. a \in Seq(Chunk) /\ Ro!Range(a) = Ro!Range(z) \cup Ro!Range(channel)
  BY <1>0, <1>1, Concatenated
<1>. HIDE DEF a
<1>3. b \in Seq(Chunk) /\ Ro!Range(b) = Ro!Range(a) \cup Ro!Range(early)
  BY <1>1, <1>2, Concatenated
<1>. HIDE DEF b
<1>4. c \in Seq(Chunk) /\ Ro!Range(c) = Ro!Range(b) \cup Ro!Range(held)
  BY <1>1, <1>3, Concatenated
<1>. HIDE DEF c
<1>5. d \in Seq(Chunk) /\ Ro!Range(d) = Ro!Range(c) \cup Ro!Range(display)
  BY <1>1, <1>4, Concatenated
<1>. HIDE DEF d
<1>6. outdated \cup unrelayed \cup dropped \cup Ro!Range(d) = FromTheHost \cup OnThisSide
  BY <1>0, <1>2, <1>3, <1>4, <1>5 DEF FromTheHost, OnThisSide
<1>. QED
  BY <1>6 DEF a, b, c, d, z

\* What is emitted is held or displayed: none of it is lost to this side.
LEMMA EmitKeeps ==
  ASSUME OutputTypes, NEW cs \in Seq(Chunk), Ro!Emit(cs), early' = early
  PROVE  /\ held' \in Seq(Chunk) /\ display' \in Seq(Chunk) /\ dropped' \subseteq Chunk
         /\ OnThisSide' = OnThisSide \cup Ro!Range(cs)
<1>1. held \in Seq(Chunk) /\ display \in Seq(Chunk) /\ dropped \subseteq Chunk
  BY DEF OutputTypes
<1>a. Ro!Range(early') = Ro!Range(early)
  OBVIOUS
<1>2. CASE privacy
  <2>. DEFINE all == held \o cs
              n == IF Len(all) > TailRoom THEN Len(all) - TailRoom ELSE 0
              out == SubSeq(all, 1, n)  rest == SubSeq(all, n + 1, Len(all))
  <2>1. all \in Seq(Chunk) /\ Ro!Range(all) = Ro!Range(held) \cup Ro!Range(cs)
    BY <1>1, Concatenated
  <2>2. display' = display \o out /\ held' = rest /\ dropped' = dropped
    BY <1>2 DEF Ro!Emit, Ro!Pushed
  <2>. HIDE DEF all
  <2>3. n \in 0..Len(all)
    BY <2>1, OutputAssumption
  <2>. HIDE DEF n
  <2>4. out \in Seq(Chunk) /\ rest \in Seq(Chunk) /\ Ro!Range(all) = Ro!Range(out) \cup Ro!Range(rest)
    BY <2>1, <2>3, CutInTwo
  <2>. HIDE DEF out, rest
  <2>5. display \o out \in Seq(Chunk) /\ Ro!Range(display \o out) = Ro!Range(display) \cup Ro!Range(out)
    BY <1>1, <2>4, Concatenated
  <2>. QED
    BY <1>1, <1>a, <2>1, <2>2, <2>4, <2>5 DEF OnThisSide
<1>3. CASE ~privacy
  <2>1. display' = display \o cs /\ held' = <<>> /\ dropped' = dropped \cup Ro!Range(held)
    BY <1>3 DEF Ro!Emit
  <2>2. display \o cs \in Seq(Chunk) /\ Ro!Range(display \o cs) = Ro!Range(display) \cup Ro!Range(cs)
    BY <1>1, Concatenated
  <2>3. Ro!Range(held) \subseteq Chunk
    BY <1>1 DEF Ro!Range
  <2>4. held' \in Seq(Chunk) /\ Ro!Range(held') = {}
    BY <2>1 DEF Ro!Range
  <2>. QED
    BY <1>1, <1>a, <2>1, <2>2, <2>3, <2>4 DEF OnThisSide
<1>. QED
  BY <1>2, <1>3

\* Flushing what arrived before the terminal opened loses none of it.
LEMMA FlushKeeps ==
  ASSUME OutputTypes, Ro!FlushEarly, early' = <<>>
  PROVE  /\ held' \in Seq(Chunk) /\ display' \in Seq(Chunk) /\ dropped' \subseteq Chunk
         /\ early' \in Seq(Chunk) /\ OnThisSide' = OnThisSide
<1>1. held \in Seq(Chunk) /\ display \in Seq(Chunk) /\ early \in Seq(Chunk) /\ dropped \subseteq Chunk
  BY DEF OutputTypes
<1>2. early' \in Seq(Chunk) /\ Ro!Range(early') = {}
  BY DEF Ro!Range
<1>3. CASE early = <<>>
  <2>1. UNCHANGED <<display, held, dropped, early>>
    BY <1>3 DEF Ro!FlushEarly
  <2>. QED
    BY <1>1, <2>1 DEF OnThisSide
<1>4. CASE early # <<>>
  <2>1. /\ display' = IF privacy THEN display \o held \o early ELSE display \o early
        /\ held' = <<>>
        /\ dropped' = IF privacy THEN dropped ELSE dropped \cup Ro!Range(held)
    BY <1>4 DEF Ro!FlushEarly
  <2>2. display \o held \in Seq(Chunk) /\ Ro!Range(display \o held) = Ro!Range(display) \cup Ro!Range(held)
    BY <1>1, Concatenated
  <2>. DEFINE d == display \o held
  <2>3. d \in Seq(Chunk) /\ Ro!Range(d) = Ro!Range(display) \cup Ro!Range(held)
    BY <2>2
  <2>. HIDE DEF d
  <2>4. d \o early \in Seq(Chunk) /\ Ro!Range(d \o early) = Ro!Range(d) \cup Ro!Range(early)
    BY <1>1, <2>3, Concatenated
  <2>5. display \o early \in Seq(Chunk) /\ Ro!Range(display \o early) = Ro!Range(display) \cup Ro!Range(early)
    BY <1>1, Concatenated
  <2>6. held' \in Seq(Chunk) /\ Ro!Range(held') = {}
    BY <2>1 DEF Ro!Range
  <2>7. CASE privacy
    <3>1. display' = d \o early /\ dropped' = dropped
      BY <2>1, <2>7 DEF d
    <3>. QED
      BY <1>1, <1>2, <2>3, <2>4, <2>6, <3>1 DEF OnThisSide
  <2>8. CASE ~privacy
    <3>1. display' = display \o early /\ dropped' = dropped \cup Ro!Range(held)
      BY <2>1, <2>8
    <3>2. Ro!Range(held) \subseteq Chunk
      BY <1>1 DEF Ro!Range
    <3>. QED
      BY <1>1, <1>2, <2>5, <2>6, <3>1, <3>2 DEF OnThisSide
  <2>. QED
    BY <2>7, <2>8
<1>. QED
  BY <1>3, <1>4

\* Every step of the remote output keeps it.
LEMMA OutputStep ==
  ASSUME OutputInv, OutputNext
  PROVE  OutputInv'
<1>. USE OutputAssumption DEF Ro!hostVars, Ro!viewVars, Ro!linked, Stage
<1>0. OutputTypes /\ AllIsThere
  BY DEF OutputInv
<1>s. /\ bridge \in Seq(Chunk) /\ replay \in Seq(Chunk) /\ channel \in Seq(Chunk) /\ early \in Seq(Chunk)
      /\ printed \in 0..MaxChunks /\ aired \in 0..printed /\ stage \in Stage /\ historySent \in BOOLEAN
      /\ outdated \subseteq Chunk /\ unrelayed \subseteq Chunk
  BY <1>0 DEF OutputTypes
<1>a. ASSUME UNCHANGED <<early, held, display, dropped>> PROVE OnThisSide' = OnThisSide
  BY <1>a DEF OnThisSide
<1>b. ASSUME UNCHANGED <<bridge, replay, channel, outdated, unrelayed>> PROVE FromTheHost' = FromTheHost
  BY <1>b DEF FromTheHost
<1>1. CASE Ro!PtyPrints
  <2>1. /\ printed' = printed + 1 /\ printed' \in 0..MaxChunks
        /\ UNCHANGED <<aired, bridge, stage, outputLinks, asked, historySent, replay, channel, outdated,
                       unrelayed, shownTerm, opened, sizing, early, held, display, privacy, toggles, dropped>>
    BY <1>1, <1>s DEF Ro!PtyPrints
  <2>2. aired' \in 0..printed'
    BY <1>s, <2>1
  <2>3. OutputTypes'
    BY <1>0, <2>1, <2>2 DEF OutputTypes
  <2>4. AllIsThere'
    BY <1>0, <1>a, <1>b, <2>1 DEF AllIsThere
  <2>. QED
    BY <2>3, <2>4 DEF OutputInv
<1>8. CASE Ro!Broadcast
  <2>. DEFINE left == IF Len(bridge) < BridgeRoom THEN bridge ELSE Tail(bridge)
  <2>1. /\ aired' = aired + 1 /\ aired' \in 0..printed /\ aired' \in Chunk
        /\ UNCHANGED <<printed, stage, outputLinks, asked, historySent, replay, channel, unrelayed,
                       shownTerm, opened, sizing, early, held, display, privacy, toggles, dropped>>
    BY <1>8, <1>s DEF Ro!Broadcast, Chunk
  <2>2. /\ bridge' = Append(left, aired')
        /\ \/ left = bridge /\ outdated' = outdated
           \/ /\ left = Tail(bridge) /\ outdated' = Ro!Without(outdated, {Head(bridge)})
              /\ Len(bridge) >= BridgeRoom
    BY <1>8, <1>s DEF Ro!Broadcast
  <2>. HIDE DEF left
  <2>3. /\ left \in Seq(Chunk) /\ outdated' \subseteq Chunk
        /\ Ro!linked => outdated \cup Ro!Range(bridge) \subseteq outdated' \cup Ro!Range(left)
    <3>1. CASE Len(bridge) >= BridgeRoom
      <4>1. bridge # <<>>
        BY <1>s, <3>1
      <4>2. /\ Head(bridge) \in Chunk /\ Tail(bridge) \in Seq(Chunk)
            /\ Ro!Range(bridge) = {Head(bridge)} \cup Ro!Range(Tail(bridge))
        BY <1>s, <4>1, TailLeft
      <4>. QED
        BY <1>s, <2>2, <4>2 DEF Ro!Without
    <3>2. CASE ~(Len(bridge) >= BridgeRoom)
      BY <1>s, <2>2, <3>2
    <3>. QED
      BY <3>1, <3>2
  <2>4. Append(left, aired') \in Seq(Chunk) /\ Ro!Range(Append(left, aired')) = Ro!Range(left) \cup {aired'}
    BY <2>1, <2>3, Appended
  <2>5. OutputTypes'
    BY <1>0, <2>1, <2>2, <2>3, <2>4 DEF OutputTypes
  <2>6. Ro!linked => FromTheHost \cup {aired'} \subseteq FromTheHost'
    BY <2>1, <2>2, <2>3, <2>4 DEF FromTheHost
  <2>7. 1..aired' = (1..aired) \cup {aired'} /\ OnThisSide' = OnThisSide
    BY <1>a, <1>s, <2>1
  <2>8. AllIsThere'
    BY <1>0, <2>1, <2>6, <2>7 DEF AllIsThere
  <2>. QED
    BY <2>5, <2>8 DEF OutputInv
<1>9. CASE Ro!BridgeReceives
  <2>. DEFINE h == Head(bridge)  t == Tail(bridge)
  <2>1. h \in Chunk /\ t \in Seq(Chunk) /\ Ro!Range(bridge) = {h} \cup Ro!Range(t)
    BY <1>9, <1>s, TailLeft DEF Ro!BridgeReceives
  <2>2. /\ bridge' = t
        /\ \/ channel' = Append(channel, h) /\ unrelayed' = unrelayed
           \/ channel' = channel /\ unrelayed' = Ro!Without(unrelayed, {h})
        /\ UNCHANGED <<printed, aired, stage, outputLinks, asked, historySent, replay, outdated,
                       shownTerm, opened, sizing, early, held, display, privacy, toggles, dropped>>
    BY <1>9 DEF Ro!BridgeReceives
  <2>. HIDE DEF h, t
  <2>3. Append(channel, h) \in Seq(Chunk) /\ Ro!Range(Append(channel, h)) = Ro!Range(channel) \cup {h}
    BY <1>s, <2>1, Appended
  <2>4. OutputTypes'
    <3>1. unrelayed' \subseteq Chunk /\ channel' \in Seq(Chunk)
      BY <1>s, <2>1, <2>2, <2>3 DEF Ro!Without
    <3>. QED
      BY <1>0, <2>1, <2>2, <3>1 DEF OutputTypes
  <2>5. Ro!linked => FromTheHost' = FromTheHost
    BY <2>1, <2>2, <2>3 DEF FromTheHost, Ro!Without
  <2>6. AllIsThere'
    BY <1>0, <1>a, <2>2, <2>5 DEF AllIsThere
  <2>. QED
    BY <2>4, <2>6 DEF OutputInv
<1>2. CASE Ro!LinkDown
  <2>1. ~Ro!linked'
    BY <1>2 DEF Ro!LinkDown
  <2>2. /\ replay' = <<>> /\ channel' \in {channel, <<>>} /\ early' = <<>>
        /\ held' = <<>> /\ display' = <<>> /\ dropped' = {} /\ outdated' = {} /\ unrelayed' = {}
        /\ stage' = "down" /\ asked' = FALSE /\ shownTerm' = FALSE /\ opened' = FALSE /\ sizing' = FALSE
        /\ UNCHANGED <<printed, aired, bridge, outputLinks, historySent, privacy, toggles>>
    BY <1>2 DEF Ro!LinkDown, Ro!DisposeTerminal, Ro!ClearBuffers
  <2>3. OutputTypes'
    <3>1. <<>> \in Seq(Chunk)
      OBVIOUS
    <3>. QED
      BY <1>0, <2>2, <3>1 DEF OutputTypes
  <2>. QED
    BY <2>1, <2>3 DEF OutputInv, AllIsThere
<1>10. CASE Ro!ChannelOpens \/ Ro!ClientJoins \/ Ro!ClientLeaves
  <2>1. /\ stage' \in Stage /\ historySent' \in BOOLEAN
        /\ Ro!linked' /\ historySent' => Ro!linked /\ historySent
        /\ UNCHANGED <<printed, aired, bridge, asked, replay, channel, outdated, unrelayed,
                       shownTerm, opened, sizing, early, held, display, privacy, toggles, dropped>>
    <3>1. CASE Ro!ChannelOpens
      BY <3>1 DEF Ro!ChannelOpens
    <3>2. CASE Ro!ClientJoins
      BY <1>s, <3>2 DEF Ro!ClientJoins
    <3>3. CASE Ro!ClientLeaves
      BY <1>s, <3>3 DEF Ro!ClientLeaves
    <3>. QED
      BY <1>10, <3>1, <3>2, <3>3
  <2>2. outputLinks' \in 0..MaxLinks
    <3>1. outputLinks \in 0..MaxLinks
      BY <1>0 DEF OutputTypes
    <3>. QED
      BY <1>10, <3>1 DEF Ro!ChannelOpens, Ro!ClientJoins, Ro!ClientLeaves
  <2>3. OutputTypes'
    BY <1>0, <2>1, <2>2 DEF OutputTypes
  <2>4. AllIsThere'
    BY <1>0, <1>a, <1>b, <2>1 DEF AllIsThere
  <2>. QED
    BY <2>3, <2>4 DEF OutputInv
<1>11. CASE Ro!LoopRestarts
  <2>1. /\ stage' \in Stage /\ Ro!linked' = Ro!linked
        /\ bridge' = <<>> /\ unrelayed' = Ro!Without(unrelayed, Ro!Range(bridge))
        /\ UNCHANGED <<printed, aired, outputLinks, asked, historySent, replay, outdated, channel,
                       shownTerm, opened, sizing, early, held, display, privacy, toggles, dropped>>
    BY <1>11, <1>s DEF Ro!LoopRestarts
  <2>2. bridge' \in Seq(Chunk) /\ Ro!Range(bridge) \subseteq Chunk /\ unrelayed' \subseteq Chunk
    BY <1>s, <2>1 DEF Ro!Range, Ro!Without
  <2>3. OutputTypes'
    BY <1>0, <2>1, <2>2 DEF OutputTypes
  <2>4. Ro!linked => FromTheHost \subseteq FromTheHost'
    BY <2>1 DEF FromTheHost, Ro!Without
  <2>5. AllIsThere'
    BY <1>0, <1>a, <2>1, <2>4 DEF AllIsThere
  <2>. QED
    BY <2>3, <2>5 DEF OutputInv
<1>3. CASE Ro!ServeHistory
  <2>. DEFINE gone == Ro!Forgotten
              all == [i \in 1..(printed - gone) |-> gone + i]
  <2>0. gone \in 0..printed
    BY <1>s DEF Ro!Forgotten
  <2>2. /\ asked' = FALSE /\ historySent' = TRUE
        /\ \/ historySent /\ UNCHANGED <<replay, outdated, unrelayed>>
           \/ replay' = all /\ outdated' = 1..gone /\ unrelayed' = {}
        /\ UNCHANGED <<printed, aired, bridge, stage, outputLinks, channel,
                       shownTerm, opened, sizing, early, held, display, privacy, toggles, dropped>>
    BY <1>3 DEF Ro!ServeHistory
  <2>. HIDE DEF gone
  <2>1. all \in Seq(Chunk) /\ Ro!Range(all) = (gone + 1)..printed
    <3>1. \A i \in 1..(printed - gone) : gone + i \in Chunk
      BY <1>s, <2>0 DEF Chunk
    <3>2. all \in Seq(Chunk)
      BY <1>s, <2>0, <3>1
    <3>3. ASSUME NEW x \in (gone + 1)..printed PROVE x \in Ro!Range(all)
      <4>1. x - gone \in 1..(printed - gone) /\ gone + (x - gone) = x
        BY <1>s, <2>0
      <4>. QED
        BY <4>1 DEF Ro!Range
    <3>4. ASSUME NEW x \in Ro!Range(all) PROVE x \in (gone + 1)..printed
      <4>1. PICK i \in 1..(printed - gone) : x = gone + i
        BY DEF Ro!Range
      <4>. QED
        BY <1>s, <2>0, <4>1
    <3>. QED
      BY <3>2, <3>3, <3>4
  <2>. HIDE DEF all
  <2>3. 1..gone \subseteq Chunk /\ 1..aired \subseteq (1..gone) \cup (gone + 1)..printed
    BY <1>s, <2>0 DEF Chunk
  <2>4. OutputTypes'
    BY <1>0, <2>1, <2>2, <2>3 DEF OutputTypes
  <2>5. AllIsThere'
    <3>1. CASE historySent /\ UNCHANGED <<replay, outdated, unrelayed>>
      BY <1>0, <1>a, <1>b, <2>2, <3>1 DEF AllIsThere
    <3>2. CASE replay' = all /\ outdated' = 1..gone /\ unrelayed' = {}
      BY <2>1, <2>2, <2>3, <3>2 DEF AllIsThere, FromTheHost
    <3>. QED
      BY <2>2, <3>1, <3>2
  <2>. QED
    BY <2>4, <2>5 DEF OutputInv
<1>4. CASE Ro!SendHistory
  <2>1. /\ replay # <<>> /\ replay' = Tail(replay) /\ channel' = Append(channel, Head(replay))
        /\ UNCHANGED <<printed, aired, bridge, outdated, unrelayed, stage, outputLinks, asked,
                       historySent, shownTerm, opened, sizing, early, held, display, privacy, toggles, dropped>>
    BY <1>4 DEF Ro!SendHistory
  <2>2. /\ Head(replay) \in Chunk /\ Tail(replay) \in Seq(Chunk)
        /\ Ro!Range(replay) = {Head(replay)} \cup Ro!Range(Tail(replay))
    BY <1>s, <2>1, TailLeft
  <2>. DEFINE h == Head(replay)  t == Tail(replay)
  <2>. HIDE DEF h, t
  <2>3. Append(channel, h) \in Seq(Chunk) /\ Ro!Range(Append(channel, h)) = Ro!Range(channel) \cup {h}
    <3>1. h \in Chunk
      BY <2>2 DEF h
    <3>. QED
      BY <1>s, <3>1, Appended
  <2>4. replay' = t /\ channel' = Append(channel, h) /\ t \in Seq(Chunk) /\ Ro!Range(replay) = {h} \cup Ro!Range(t)
    BY <2>1, <2>2 DEF h, t
  <2>5. OutputTypes'
    BY <1>0, <2>1, <2>3, <2>4 DEF OutputTypes
  <2>6. FromTheHost' = FromTheHost
    BY <2>1, <2>3, <2>4 DEF FromTheHost
  <2>7. AllIsThere'
    BY <1>0, <1>a, <2>1, <2>6 DEF AllIsThere
  <2>. QED
    BY <2>5, <2>7 DEF OutputInv
<1>5. CASE Ro!OnRemoteOutput
  <2>. DEFINE h == Head(channel)  t == Tail(channel)
  <2>1. /\ h \in Chunk /\ t \in Seq(Chunk) /\ <<h>> \in Seq(Chunk) /\ Ro!Range(channel) = {h} \cup Ro!Range(t)
        /\ Ro!Range(<<h>>) = {h}
    BY <1>5, <1>s, TailLeft DEF Ro!OnRemoteOutput
  <2>2. /\ channel' = t
        /\ UNCHANGED <<printed, aired, bridge, outdated, unrelayed, stage, outputLinks, asked, historySent,
                       replay, shownTerm, opened, sizing, privacy, toggles>>
        /\ \/ Ro!Emit(<<h>>) /\ early' = early
           \/ early' = Append(early, h) /\ UNCHANGED <<display, held, dropped>>
    BY <1>5 DEF Ro!OnRemoteOutput
  <2>. HIDE DEF h, t
  <2>3. /\ held' \in Seq(Chunk) /\ display' \in Seq(Chunk) /\ dropped' \subseteq Chunk /\ early' \in Seq(Chunk)
        /\ OnThisSide' = OnThisSide \cup {h}
    <3>1. CASE Ro!Emit(<<h>>) /\ early' = early
      <4>. DEFINE c == <<h>>
      <4>1. c \in Seq(Chunk) /\ Ro!Emit(c) /\ Ro!Range(c) = {h}
        BY <2>1, <3>1
      <4>. HIDE DEF c
      <4>. QED
        BY <1>0, <1>s, <3>1, <4>1, EmitKeeps
    <3>2. CASE early' = Append(early, h) /\ UNCHANGED <<display, held, dropped>>
      <4>1. Append(early, h) \in Seq(Chunk) /\ Ro!Range(Append(early, h)) = Ro!Range(early) \cup {h}
        BY <1>s, <2>1, Appended
      <4>. QED
        BY <1>0, <3>2, <4>1 DEF OutputTypes, OnThisSide
    <3>. QED
      BY <2>2, <3>1, <3>2
  <2>4. OutputTypes'
    BY <1>0, <2>1, <2>2, <2>3 DEF OutputTypes
  <2>5. FromTheHost \subseteq FromTheHost' \cup {h}
    BY <2>1, <2>2 DEF FromTheHost
  <2>6. AllIsThere'
    BY <1>0, <2>2, <2>3, <2>5 DEF AllIsThere
  <2>. QED
    BY <2>4, <2>6 DEF OutputInv
<1>6. CASE Ro!OpenPane
  <2>1. /\ Ro!FlushEarly /\ early' = <<>> /\ shownTerm' = TRUE /\ opened' = TRUE
        /\ sizing' \in BOOLEAN /\ asked' \in {asked, Ro!linked}
        /\ UNCHANGED <<printed, aired, bridge, outdated, unrelayed, stage, outputLinks, historySent, replay,
                       channel, privacy, toggles>>
    BY <1>6 DEF Ro!OpenPane
  <2>2. /\ held' \in Seq(Chunk) /\ display' \in Seq(Chunk) /\ dropped' \subseteq Chunk
        /\ early' \in Seq(Chunk) /\ OnThisSide' = OnThisSide
    BY <1>0, <2>1, FlushKeeps
  <2>3. OutputTypes'
    BY <1>0, <2>1, <2>2 DEF OutputTypes
  <2>4. AllIsThere'
    BY <1>0, <1>b, <2>1, <2>2 DEF AllIsThere
  <2>. QED
    BY <2>3, <2>4 DEF OutputInv
<1>7. CASE Ro!LeavePane \/ Ro!TogglePrivacy \/ Ro!TryFit \/ UNCHANGED roVars
  <2>1. UNCHANGED <<printed, aired, bridge, outdated, unrelayed, stage, outputLinks, historySent, replay,
                    channel, shownTerm, early, held, display, dropped>>
    BY <1>7 DEF Ro!LeavePane, Ro!TogglePrivacy, Ro!TryFit, roVars
  <2>2. toggles' \in 0..MaxToggles /\ privacy' \in BOOLEAN /\ opened' \in BOOLEAN /\ asked' \in BOOLEAN
        /\ sizing' \in BOOLEAN
    <3>1. /\ toggles \in 0..MaxToggles /\ privacy \in BOOLEAN /\ opened \in BOOLEAN /\ asked \in BOOLEAN
          /\ sizing \in BOOLEAN
      BY <1>0 DEF OutputTypes
    <3>2. CASE Ro!TogglePrivacy
      BY <3>1, <3>2 DEF Ro!TogglePrivacy
    <3>3. CASE Ro!LeavePane
      BY <3>1, <3>3 DEF Ro!LeavePane
    <3>4. CASE UNCHANGED roVars
      BY <3>1, <3>4 DEF roVars
    <3>5. CASE Ro!TryFit
      BY <1>s, <3>1, <3>5 DEF Ro!TryFit
    <3>. QED
      BY <1>7, <3>2, <3>3, <3>4, <3>5
  <2>3. OutputTypes'
    BY <1>0, <2>1, <2>2 DEF OutputTypes
  <2>4. AllIsThere'
    BY <1>0, <1>a, <1>b, <2>1 DEF AllIsThere
  <2>. QED
    BY <2>3, <2>4 DEF OutputInv
<1>. QED
  BY <1>1, <1>2, <1>3, <1>4, <1>5, <1>6, <1>7, <1>8, <1>9, <1>10, <1>11 DEF OutputNext, Ro!Next

-----------------------------------------------------------------------------
\* What the far side's being current rests on.
FarInv ==
  /\ part = "output" => OutputInv
  /\ part = "prompts" => PromptInv

\* It holds at the start.
LEMMA FarInit ==
  ASSUME Init
  PROVE  FarInv
<1>1. ASSUME part = "output" PROVE OutputInv
  <2>1. Ro!Init
    BY <1>1 DEF Init
  <2>2. <<>> \in Seq(Chunk)
    OBVIOUS
  <2>3. OutputTypes
    <3>1. /\ printed \in 0..MaxChunks /\ aired \in 0..printed
          /\ outputLinks \in 0..MaxLinks /\ toggles \in 0..MaxToggles
      BY <2>1, OutputAssumption DEF Ro!Init
    <3>2. /\ stage \in Stage /\ asked \in BOOLEAN /\ historySent \in BOOLEAN
          /\ shownTerm \in BOOLEAN /\ opened \in BOOLEAN /\ sizing \in BOOLEAN /\ privacy \in BOOLEAN
      BY <2>1 DEF Ro!Init, Stage
    <3>3. /\ replay \in Seq(Chunk) /\ channel \in Seq(Chunk) /\ early \in Seq(Chunk)
          /\ bridge \in Seq(Chunk) /\ held \in Seq(Chunk) /\ display \in Seq(Chunk)
          /\ dropped \subseteq Chunk /\ outdated \subseteq Chunk /\ unrelayed \subseteq Chunk
      BY <2>1, <2>2 DEF Ro!Init
    <3>. QED
      BY <3>1, <3>2, <3>3 DEF OutputTypes
  <2>4. AllIsThere
    BY <2>1 DEF Ro!Init, AllIsThere
  <2>. QED
    BY <2>3, <2>4 DEF OutputInv
<1>2. ASSUME part = "prompts" PROVE PromptInv
  <2>. USE PromptAssumption
  <2>1. Ps!Init
    BY <1>2 DEF Init
  <2>2. stored \in Ps!Snapshot
    <3>1. stored \in {{}, {<<1, "testing">>}} /\ 1 \in 1..MaxPrompts
      BY <2>1 DEF Ps!Init
    <3>. QED
      BY <3>1 DEF Ps!Snapshot, Ps!Status
  <2>3. {} \in Ps!Snapshot /\ <<>> \in Seq(Ps!Snapshot)
    BY DEF Ps!Snapshot
  <2>4. PromptTypes
    <3>1. /\ prompts \in Ps!Snapshot /\ latest \in Ps!Snapshot /\ invoked \in Seq(Ps!Snapshot)
          /\ ws \in {"down", "open", "registered"}
      BY <2>1, <2>3 DEF Ps!Init
    <3>2. read \in Ps!MaybeSnapshot /\ pushTimer \in Ps!MaybeSnapshot /\ phone \in Ps!MaybeSnapshot
      BY <2>1, <2>2 DEF Ps!Init, Ps!MaybeSnapshot
    <3>3. /\ hydrating \in BOOLEAN /\ deferred \in BOOLEAN /\ hydrated \in BOOLEAN
          /\ promptsDirty \in BOOLEAN /\ raced \in BOOLEAN
      BY <2>1 DEF Ps!Init
    <3>4. changes \in 0..MaxChanges /\ promptsLinks \in 0..MaxLinks /\ requests \in 0..MaxRequests
      BY <2>1 DEF Ps!Init
    <3>. QED
      BY <2>2, <3>1, <3>2, <3>3, <3>4 DEF PromptTypes
  <2>5. TimerIsLatest /\ LastUpdateIsLatest /\ BufferIsLatest /\ PhoneHasBuffer
    BY <2>1 DEF Ps!Init, TimerIsLatest, LastUpdateIsLatest, BufferIsLatest, PhoneHasBuffer
  <2>. QED
    BY <2>4, <2>5 DEF PromptInv
<1>. QED
  BY <1>1, <1>2 DEF FarInv

\* It says that the far side is current.
LEMMA FarSideIsCurrent ==
  ASSUME FarInv
  PROVE  TheFarSideIsCurrent
<1>1. ASSUME OutputInv PROVE Ro!NothingIsMissing
  BY <1>1, AllOfThem DEF OutputInv, AllIsThere, Ro!NothingIsMissing
<1>2. ASSUME PromptInv PROVE Ps!PhoneIsCurrent
  BY <1>2 DEF PromptInv, BufferIsLatest, PhoneHasBuffer, Ps!PhoneIsCurrent
<1>. QED
  BY <1>1, <1>2 DEF FarInv, TheFarSideIsCurrent

\* The far side is current in every reachable state: a remote pane misses nothing
\* that was printed but the tails a masker dropped, what the host had no room for
\* and what it relayed while the client was not in its loop's map; and a registered
\* phone has the prompts of the store once all is quiet (remotePtyOutputBuffer.ts,
\* server_host.rs, promptStore.ts).
THEOREM FarSide == Spec => []TheFarSideIsCurrent
<1>1. Init => FarInv
  BY FarInit
<1>2. FarInv /\ [Next]_vars => FarInv'
  BY PartsStep, OutputStep, PromptStep DEF FarInv
<1>3. FarInv => TheFarSideIsCurrent
  BY FarSideIsCurrent
<1>4. QED
  BY <1>1, <1>2, <1>3, PTL DEF Spec

-----------------------------------------------------------------------------
\* At least one tab may be opened; the bound on dialogs is a number.
ASSUME BrowserAssumption == MaxBvTabs \in Nat \ {0} /\ MaxBvDialogs \in Nat

\* The tabs.
BvTab == [id : Bv!Ids, url : Url \cup {Blank}]
\* The navigations.
BvNav == [id : Bv!Ids, at : Bv!Ids, url : Url]
\* Where a webview may be.
BvWhere == {"none", "here", "away"}
\* What a dialog's guard may be doing.
BvGuard == {"timer", "fired", "idle"}
\* The types of the tabs, their webviews and the dialogs' guards.
BrowserTypes ==
  /\ bvTabs \in Seq(BvTab) /\ bvOpened \in 0..MaxBvTabs /\ Len(bvTabs) <= bvOpened
  /\ bvActive \in Nat \ {0}
  /\ bvActive <= Len(bvTabs) \/ (bvActive = 1 /\ bvTabs = <<>>)
  /\ bvMounted \in {0} \cup Bv!Ids
  /\ bvViews \in [Bv!Ids -> BvWhere]
  /\ bvHidden \subseteq Bv!Ids /\ bvCreating \subseteq Bv!Ids
  /\ bvNavs \subseteq BvNav
  /\ bvGuards \in [BvGuard -> Nat] /\ Bv!Dialogs <= MaxBvDialogs
\* The viewer that is mounted is the one of the active tab.
MountedIsActive ==
  bvMounted # 0 => bvTabs # <<>> /\ bvTabs[bvActive].id = bvMounted

\* The address bar is a record with these fields.
BarHasItsFields ==
  /\ bvBar = [address |-> bvBar.address, typed |-> bvBar.typed, list |-> bvBar.list,
              pick |-> bvBar.pick, open |-> bvBar.open, aside |-> bvBar.aside,
              crashed |-> bvBar.crashed]
  /\ bvBar.aside \in BOOLEAN
\* The types of the address bar and the URLs visited.
BarTypes ==
  /\ bvHistory \subseteq Url /\ IsFiniteSet(bvHistory)
  /\ bvBar.address \in Url \cup {Blank} /\ bvBar.typed \in Url \cup {Blank}
  /\ bvBar.list \in Seq(Url) /\ bvBar.pick \in Nat
\* The address is the suggestion picked, unless the pointer picked it or it was
\* picked in an earlier list.
PickedIsShown ==
  ~bvBar.aside /\ bvBar.pick \in DOMAIN bvBar.list => bvBar.list[bvBar.pick] = bvBar.address
\* What the address bar's going where it says rests on.
BarInv == BarHasItsFields /\ BarTypes /\ PickedIsShown

\* Hiding and placing webviews neither creates nor destroys one, and leaves at
\* most the one placed in sight.
LEMMA PlacedTypes ==
  ASSUME NEW views \in [Bv!Ids -> BvWhere], NEW ids, NEW id \in Bv!Ids, NEW url
  PROVE  /\ Bv!Hide(views, ids) \in [Bv!Ids -> BvWhere]
         /\ Bv!Placed(id, url, views) \in [Bv!Ids -> BvWhere]
         /\ \A v \in Bv!Ids : Bv!Hide(views, ids)[v] = "none" <=> views[v] = "none"
         /\ \A v \in Bv!Ids : Bv!Placed(id, url, views)[v] = "none" <=> views[v] = "none"
         /\ \A v \in Bv!Ids : Bv!Hide(views, Bv!Ids)[v] # "here"
         /\ \A v \in Bv!Ids : Bv!Placed(id, url, views)[v] = "here" => v = id
<1>1. \A i : /\ Bv!Hide(views, i) \in [Bv!Ids -> BvWhere]
             /\ \A v \in Bv!Ids : /\ Bv!Hide(views, i)[v] = "none" <=> views[v] = "none"
                                  /\ Bv!Hide(views, i)[v] = "here" => v \notin i
  BY DEF Bv!Hide, BvWhere
<1>. DEFINE h == Bv!Hide(views, Bv!Ids \ {id})
<1>2. /\ h \in [Bv!Ids -> BvWhere]
      /\ \A v \in Bv!Ids : /\ h[v] = "none" <=> views[v] = "none"
                           /\ h[v] = "here" => v = id
  BY <1>1
<1>3. CASE url # Blank /\ views[id] # "none"
  <2>1. Bv!Placed(id, url, views) = [h EXCEPT ![id] = "here"]
    BY <1>3 DEF Bv!Placed
  <2>. HIDE DEF h
  <2>2. /\ [h EXCEPT ![id] = "here"] \in [Bv!Ids -> BvWhere]
        /\ \A v \in Bv!Ids : /\ [h EXCEPT ![id] = "here"][v] = "none" <=> views[v] = "none"
                             /\ [h EXCEPT ![id] = "here"][v] = "here" => v = id
    BY <1>2, <1>3 DEF BvWhere
  <2>. QED
    BY <1>1, <2>1, <2>2
<1>4. CASE ~(url # Blank /\ views[id] # "none")
  <2>1. Bv!Placed(id, url, views) = Bv!Hide(views, Bv!Ids)
    BY <1>4 DEF Bv!Placed
  <2>. QED
    BY <1>1, <2>1
<1>. QED
  BY <1>3, <1>4

\* Closing a tab leaves another active, or none when it was the last.
LEMMA TabClosed ==
  ASSUME BrowserTypes, NEW i \in DOMAIN bvTabs,
         NEW rest, rest = Bv!RemoveAt(bvTabs, i),
         NEW at, at = IF i <= bvActive /\ bvActive > 1 THEN bvActive - 1 ELSE bvActive
  PROVE  /\ rest \in Seq(BvTab) /\ Len(rest) = Len(bvTabs) - 1
         /\ at \in Nat \ {0} /\ (at <= Len(rest) \/ (at = 1 /\ rest = <<>>))
         /\ rest # <<>> => at \in DOMAIN rest /\ rest[at] \in BvTab
         /\ rest = <<>> => i = bvActive
<1>0. /\ bvTabs \in Seq(BvTab) /\ Len(bvTabs) \in Nat \ {0} /\ i \in 1..Len(bvTabs)
      /\ bvActive \in Nat \ {0} /\ bvActive <= Len(bvTabs)
  BY DEF BrowserTypes
<1>1. Bv!RemoveAt(bvTabs, i) = Ps!RemoveAt(bvTabs, i)
  BY DEF Bv!RemoveAt, Ps!RemoveAt
<1>2. rest \in Seq(BvTab) /\ Len(rest) = Len(bvTabs) - 1
  BY <1>0, <1>1, CarriedOut
<1>3. at \in Nat \ {0} /\ (at <= Len(rest) \/ (at = 1 /\ Len(rest) = 0))
  BY <1>0, <1>2
<1>4. Len(rest) \in Nat /\ (Len(rest) = 0 <=> rest = <<>>)
  BY <1>2
<1>5. ASSUME rest # <<>> PROVE at \in DOMAIN rest /\ rest[at] \in BvTab
  <2>0. Len(rest) # 0
    BY <1>4, <1>5
  <2>1. at \in 1..Len(rest)
    BY <1>0, <1>3, <1>4, <2>0
  <2>2. at \in DOMAIN rest
    BY <1>2, <2>1
  <2>. QED
    BY <1>2, <2>2
<1>. QED
  BY <1>0, <1>2, <1>3, <1>4, <1>5

\* Mounting a tab's viewer keeps the types.
LEMMA ShowTypes ==
  ASSUME BrowserTypes, NEW id \in Bv!Ids, NEW url, NEW views \in [Bv!Ids -> BvWhere],
         Bv!Show(id, url, views)
  PROVE  /\ bvMounted' = id /\ bvViews' \in [Bv!Ids -> BvWhere] /\ bvCreating' \subseteq Bv!Ids
<1>1. bvViews' = Bv!Placed(id, url, views) /\ bvMounted' = id /\ bvCreating' \subseteq bvCreating \cup {id}
  BY DEF Bv!Show
<1>. QED
  BY <1>1, PlacedTypes DEF BrowserTypes

\* Unmounting it keeps them.
LEMMA NoneShown ==
  ASSUME BrowserTypes, NEW views \in [Bv!Ids -> BvWhere], Bv!ShowNone(views)
  PROVE  bvMounted' = 0 /\ bvViews' \in [Bv!Ids -> BvWhere] /\ bvCreating' \subseteq Bv!Ids
  BY DEF Bv!ShowNone, BrowserTypes

\* A tab that gets another URL stays the tab it is.
LEMMA RenamedTypes ==
  ASSUME BrowserTypes, MountedIsActive, NEW at, NEW u \in Url, Bv!Renamed(at, u), bvMounted' = bvMounted,
         bvActive' = bvActive
  PROVE  /\ bvTabs' \in Seq(BvTab) /\ Len(bvTabs') = Len(bvTabs) /\ (bvTabs' = <<>> <=> bvTabs = <<>>)
         /\ bvViews' \in [Bv!Ids -> BvWhere] /\ bvCreating' \subseteq Bv!Ids /\ MountedIsActive'
<1>0. /\ bvTabs \in Seq(BvTab) /\ bvMounted \in {0} \cup Bv!Ids /\ bvViews \in [Bv!Ids -> BvWhere]
      /\ bvCreating \subseteq Bv!Ids /\ bvActive \in Nat \ {0}
      /\ bvTabs # <<>> => bvActive \in DOMAIN bvTabs
  BY DEF BrowserTypes
<1>1. CASE at \in DOMAIN bvTabs /\ bvTabs[at].url # u
  <2>1. bvTabs' = [bvTabs EXCEPT ![at].url = u]
    BY <1>1 DEF Bv!Renamed, Bv!Renames
  <2>. DEFINE t == [bvTabs[at] EXCEPT !.url = u]
  <2>a. bvTabs[at] \in BvTab
    BY <1>0, <1>1
  <2>2. t \in BvTab /\ t.id = bvTabs[at].id /\ bvTabs[at].id \in Bv!Ids
    BY <2>a DEF BvTab
  <2>3. bvTabs' = [bvTabs EXCEPT ![at] = t]
    BY <2>1
  <2>. HIDE DEF t
  <2>4. /\ bvTabs' \in Seq(BvTab) /\ Len(bvTabs') = Len(bvTabs) /\ DOMAIN bvTabs' = DOMAIN bvTabs
        /\ bvTabs'[at] = t /\ \A i \in DOMAIN bvTabs : i # at => bvTabs'[i] = bvTabs[i]
    BY <1>0, <1>1, <2>2, <2>3
  <2>5. bvTabs' # <<>> /\ bvTabs # <<>> /\ MountedIsActive'
    BY <1>0, <1>1, <2>2, <2>4 DEF MountedIsActive
  <2>6. CASE bvTabs[at].id = bvMounted
    <3>1. bvViews' = Bv!Placed(bvMounted, u, bvViews) /\ bvCreating' \subseteq bvCreating \cup {bvMounted}
      BY <1>1, <2>6 DEF Bv!Renamed, Bv!Renames
    <3>. QED
      BY <1>0, <2>2, <2>4, <2>5, <2>6, <3>1, PlacedTypes
  <2>7. CASE bvTabs[at].id # bvMounted
    <3>1. UNCHANGED <<bvViews, bvCreating>>
      BY <1>1, <2>7 DEF Bv!Renamed, Bv!Renames
    <3>. QED
      BY <1>0, <2>4, <2>5, <3>1
  <2>. QED
    BY <2>6, <2>7
<1>2. CASE ~(at \in DOMAIN bvTabs /\ bvTabs[at].url # u)
  <2>1. UNCHANGED <<bvTabs, bvViews, bvCreating>>
    BY <1>2 DEF Bv!Renamed, Bv!Renames
  <2>. QED
    BY <1>0, <2>1 DEF MountedIsActive
<1>. QED
  BY <1>1, <1>2

\* What is suggested was visited.
LEMMA ListTyped ==
  ASSUME BarTypes, NEW list \in Bv!Lists
  PROVE  list \in Seq(Url)
<1>1. PICK S \in SUBSET bvHistory : list \in Bv!SetToSeqs(S)
  BY DEF Bv!Lists
<1>2. list \in [1..Cardinality(S) -> S]
  BY <1>1 DEF Bv!SetToSeqs, Bv!Cardinality, Cardinality
<1>3. IsFiniteSet(S) /\ S \subseteq Url
  BY <1>1, FS_Subset DEF BarTypes
<1>4. Cardinality(S) \in Nat
  BY <1>3, FS_CardinalityType
<1>. DEFINE n == Cardinality(S)
<1>5. n \in Nat /\ list \in [1..n -> Url]
  BY <1>2, <1>3, <1>4
<1>. HIDE DEF n
<1>. QED
  BY <1>5

\* The address bar of a viewer just mounted.
LEMMA BarStarts ==
  ASSUME NEW url \in Url \cup {Blank}, bvBar' = Bv!Bar(url), bvHistory' \subseteq Url, IsFiniteSet(bvHistory')
  PROVE  BarInv'
<1>. DEFINE noList == <<>>
<1>1. noList \in Seq(Url) /\ 0 \notin DOMAIN noList
  OBVIOUS
<1>. HIDE DEF noList
<1>2. bvBar' = [address |-> url, typed |-> Blank, list |-> noList, pick |-> 0, open |-> FALSE,
                aside |-> FALSE, crashed |-> FALSE]
  BY DEF Bv!Bar, noList
<1>3. BarHasItsFields' /\ bvBar'.address = url /\ bvBar'.typed = Blank /\ bvBar'.list = noList /\ bvBar'.pick = 0
  BY <1>2 DEF BarHasItsFields
<1>. QED
  BY <1>1, <1>3 DEF BarInv, BarTypes, PickedIsShown

\* Enter and a click on a suggestion go to a URL, or nowhere.
LEMMA TargetTyped ==
  ASSUME BarTypes
  PROVE  /\ Bv!Target \in Url \cup {Blank}
         /\ \A i \in DOMAIN bvBar.list : bvBar.list[i] \in Url
<1>1. bvBar.list \in Seq(Url) /\ bvBar.address \in Url \cup {Blank}
  BY DEF BarTypes
<1>2. \A i \in DOMAIN bvBar.list : bvBar.list[i] \in Url
  BY <1>1
<1>. QED
  BY <1>1, <1>2 DEF Bv!Target

\* Every step of the browser leaves the address bar true to its pick.
LEMMA BarStep ==
  ASSUME BrowserTypes, BarInv, BrowserNext
  PROVE  BarInv'
<1>. USE DEF BarHasItsFields
<1>0. /\ BarHasItsFields /\ PickedIsShown /\ BarTypes
      /\ bvHistory \subseteq Url /\ IsFiniteSet(bvHistory)
      /\ bvBar.address \in Url \cup {Blank} /\ bvBar.typed \in Url \cup {Blank}
      /\ bvBar.list \in Seq(Url) /\ bvBar.pick \in Nat
  BY DEF BarInv, BarTypes
<1>a. ASSUME NEW id, NEW url \in Url \cup {Blank}, NEW views, Bv!Show(id, url, views), bvHistory' = bvHistory
      PROVE  BarInv'
  BY <1>0, <1>a, BarStarts DEF Bv!Show
<1>b. ASSUME NEW views, Bv!ShowNone(views), bvHistory' = bvHistory PROVE BarInv'
  BY <1>0, <1>b, BarStarts DEF Bv!ShowNone
<1>t. ASSUME NEW i \in DOMAIN bvTabs PROVE bvTabs[i].url \in Url \cup {Blank}
  <2>1. bvTabs \in Seq(BvTab)
    BY DEF BrowserTypes
  <2>2. bvTabs[i] \in BvTab
    BY <2>1
  <2>. QED
    BY <2>2 DEF BvTab
<1>1. ASSUME NEW u \in Url \cup {Blank}, Bv!OpenTab(u) PROVE BarInv'
  BY <1>1, <1>a DEF Bv!OpenTab
<1>2. ASSUME NEW i \in DOMAIN bvTabs, Bv!Activate(i) PROVE BarInv'
  BY <1>2, <1>a, <1>t DEF Bv!Activate
<1>c. ASSUME BarHasItsFields', PickedIsShown', bvHistory' = bvHistory,
             bvBar'.address \in Url \cup {Blank}, bvBar'.typed \in Url \cup {Blank},
             bvBar'.list \in Seq(Url), bvBar'.pick \in Nat
      PROVE  BarInv'
  BY <1>0, <1>c DEF BarInv, BarTypes
<1>3. ASSUME NEW i \in DOMAIN bvTabs, Bv!CloseTab(i) PROVE BarInv'
  <2>. DEFINE rest == Bv!RemoveAt(bvTabs, i)
              at == IF i <= bvActive /\ bvActive > 1 THEN bvActive - 1 ELSE bvActive
              views == [bvViews EXCEPT ![bvTabs[i].id] = "none"]
  <2>1. /\ \/ rest = <<>> /\ Bv!ShowNone(views)
           \/ bvBar' = bvBar
           \/ rest # <<>> /\ Bv!Show(rest[at].id, rest[at].url, views)
        /\ bvHistory' = bvHistory
    BY <1>3 DEF Bv!CloseTab
  <2>2. rest # <<>> => at \in DOMAIN rest /\ rest[at] \in BvTab
    <3>. HIDE DEF rest, at
    <3>1. rest = Bv!RemoveAt(bvTabs, i) /\ at = IF i <= bvActive /\ bvActive > 1 THEN bvActive - 1 ELSE bvActive
      BY DEF rest, at
    <3>. QED
      BY <3>1, TabClosed
  <2>. HIDE DEF rest, at, views
  <2>3. rest # <<>> => rest[at].url \in Url \cup {Blank}
    BY <2>2 DEF BvTab
  <2>4. CASE bvBar' = bvBar
    BY <1>0, <1>c, <2>1, <2>4 DEF PickedIsShown
  <2>5. CASE rest = <<>> /\ Bv!ShowNone(views)
    BY <1>b, <2>1, <2>5
  <2>6. CASE rest # <<>> /\ Bv!Show(rest[at].id, rest[at].url, views)
    BY <1>a, <2>1, <2>3, <2>6
  <2>. QED
    BY <2>1, <2>4, <2>5, <2>6
<1>4. CASE Bv!LookAway \/ Bv!ClosePanel
  BY <1>4, <1>b DEF Bv!LookAway, Bv!ClosePanel
<1>d. ASSUME NEW s \in Seq(Url) PROVE 0 \notin DOMAIN s
  BY <1>d
<1>5. ASSUME NEW list \in Bv!Lists, Bv!Focus(list) PROVE BarInv'
  <2>1. /\ bvBar'.list = list /\ bvBar'.pick = bvBar.pick /\ bvBar'.address = bvBar.address
        /\ bvBar'.typed = bvBar.typed /\ bvHistory' = bvHistory
        /\ bvBar'.aside = (bvBar.aside \/ bvBar.pick # 0) /\ BarHasItsFields'
    BY <1>0, <1>5 DEF Bv!Focus, Bv!Suggest
  <2>2. list \in Seq(Url) /\ 0 \notin DOMAIN list
    BY <1>0, <1>d, ListTyped
  <2>3. PickedIsShown'
    BY <2>1, <2>2 DEF PickedIsShown
  <2>. QED
    BY <1>0, <1>c, <2>1, <2>2, <2>3
<1>6. ASSUME NEW list \in Bv!Lists, NEW u \in Url, Bv!Change(u, list) PROVE BarInv'
  <2>1. /\ bvBar'.list = list /\ bvBar'.pick = 0 /\ bvBar'.address = u /\ bvBar'.typed = u
        /\ bvHistory' = bvHistory /\ bvBar'.aside = FALSE /\ BarHasItsFields'
    BY <1>0, <1>6 DEF Bv!Change, Bv!Suggest, Bv!Typed
  <2>2. list \in Seq(Url) /\ 0 \notin DOMAIN list
    BY <1>0, <1>d, ListTyped
  <2>3. PickedIsShown'
    BY <2>1, <2>2 DEF PickedIsShown
  <2>. QED
    BY <1>c, <2>1, <2>2, <2>3
<1>e. ASSUME NEW next \in Nat, Bv!PickAt(next), bvHistory' = bvHistory PROVE BarInv'
  <2>1. Len(bvBar.list) \in Nat /\ DOMAIN bvBar.list = 1..Len(bvBar.list) /\ 0 \notin DOMAIN bvBar.list
    BY <1>0
  <2>2. CASE next > Len(bvBar.list)
    <3>1. /\ bvBar'.list = bvBar.list /\ bvBar'.pick = bvBar.pick /\ bvBar'.address = bvBar.address
          /\ bvBar'.typed = bvBar.typed /\ bvBar'.aside = bvBar.aside /\ BarHasItsFields'
      BY <1>0, <1>e, <2>2 DEF Bv!PickAt
    <3>. QED
      BY <1>0, <1>c, <1>e, <3>1 DEF PickedIsShown
  <2>3. CASE ~(next > Len(bvBar.list))
    <3>1. /\ bvBar'.list = bvBar.list /\ bvBar'.pick = next
          /\ bvBar'.address = (IF next = 0 THEN bvBar.typed ELSE bvBar.list[next])
          /\ bvBar'.typed = bvBar.typed /\ bvBar'.aside = FALSE /\ BarHasItsFields'
      BY <1>0, <1>e, <2>3 DEF Bv!PickAt, Bv!Picked
    <3>2. next # 0 => next \in DOMAIN bvBar.list
      BY <2>1, <2>3
    <3>3. bvBar'.address \in Url \cup {Blank}
      BY <1>0, <3>1, <3>2, TargetTyped
    <3>4. PickedIsShown'
      BY <2>1, <3>1 DEF PickedIsShown
    <3>. QED
      BY <1>0, <1>c, <1>e, <3>1, <3>3, <3>4
  <2>. QED
    BY <2>2, <2>3
<1>7. CASE Bv!ArrowDown \/ Bv!ArrowUp \/ Bv!Tab
  <2>1. Len(bvBar.list) \in Nat
    BY <1>0
  <2>2. Bv!Smaller(bvBar.pick + 1, Len(bvBar.list)) \in Nat
    BY <1>0, <2>1 DEF Bv!Smaller
  <2>3. (IF bvBar.pick = 0 THEN 0 ELSE bvBar.pick - 1) \in Nat
    BY <1>0
  <2>4. CASE Bv!ArrowDown \/ Bv!ArrowUp
    BY <1>e, <2>2, <2>3, <2>4 DEF Bv!ArrowDown, Bv!ArrowUp
  <2>5. CASE Bv!Tab
    <3>. DEFINE next == IF bvBar.pick = 0 THEN 1 ELSE bvBar.pick
    <3>1. /\ bvBar' = IF next > Len(bvBar.list) THEN bvBar ELSE Bv!Picked(next)
          /\ bvHistory' = bvHistory
      BY <2>5 DEF Bv!Tab
    <3>2. next \in Nat
      BY <1>0
    <3>. HIDE DEF next
    <3>3. CASE next > Len(bvBar.list)
      <4>1. bvBar' = bvBar
        BY <3>1, <3>3
      <4>. QED
        BY <1>0, <3>1, <4>1 DEF BarInv, BarTypes, PickedIsShown
    <3>4. CASE ~(next > Len(bvBar.list))
      <4>1. Bv!PickAt(next)
        BY <3>1, <3>4 DEF Bv!PickAt
      <4>. QED
        BY <1>e, <3>1, <3>2, <4>1
    <3>. QED
      BY <3>3, <3>4
  <2>. QED
    BY <1>7, <2>4, <2>5
<1>8. CASE Bv!CloseSuggestions
  <2>1. /\ bvBar'.list = bvBar.list /\ bvBar'.pick = bvBar.pick /\ bvBar'.address = bvBar.address
        /\ bvBar'.typed = bvBar.typed /\ bvBar'.aside = bvBar.aside /\ BarHasItsFields'
        /\ bvHistory' = bvHistory
    BY <1>0, <1>8 DEF Bv!CloseSuggestions
  <2>. QED
    BY <1>0, <1>c, <2>1 DEF PickedIsShown
<1>14. ASSUME NEW i \in DOMAIN bvBar.list, Bv!PointAt(i) PROVE BarInv'
  <2>1. /\ bvBar'.list = bvBar.list /\ bvBar'.pick = i /\ bvBar'.address = bvBar.address
        /\ bvBar'.typed = bvBar.typed /\ bvBar'.aside = TRUE /\ BarHasItsFields'
        /\ bvHistory' = bvHistory
    BY <1>0, <1>14 DEF Bv!PointAt
  <2>2. i \in Nat /\ 0 \notin DOMAIN bvBar.list
    BY <1>0
  <2>3. PickedIsShown'
    BY <2>1, <2>2 DEF PickedIsShown
  <2>. QED
    BY <1>0, <1>c, <2>1, <2>2, <2>3
<1>f. ASSUME NEW u \in Url, bvBar'.address = u, bvBar'.list = bvBar.list, bvBar'.pick = bvBar.pick,
             bvBar'.typed = bvBar.typed, bvBar'.aside = (bvBar.aside \/ bvBar.pick # 0),
             BarHasItsFields'
      PROVE  PickedIsShown'
  <2>1. 0 \notin DOMAIN bvBar.list
    BY <1>0
  <2>. QED
    BY <1>0, <1>f, <2>1 DEF PickedIsShown
<1>9. ASSUME NEW u \in Url, Bv!Navigate(u) PROVE BarInv'
  <2>1. /\ bvBar'.address = u /\ bvBar'.list = bvBar.list /\ bvBar'.pick = bvBar.pick
        /\ bvBar'.typed = bvBar.typed /\ bvBar'.aside = (bvBar.aside \/ bvBar.pick # 0)
        /\ BarHasItsFields' /\ bvHistory' = bvHistory
    BY <1>0, <1>9 DEF Bv!Navigate
  <2>2. PickedIsShown'
    BY <1>f, <2>1
  <2>. QED
    BY <1>0, <1>c, <2>1, <2>2
<1>10. ASSUME NEW at, NEW u \in Url, Bv!Renamed(at, u), bvBar' = bvBar \/ bvBar' = Bv!Readdressed(u)
       PROVE  BarInv'
  <2>1. bvHistory' \subseteq Url /\ IsFiniteSet(bvHistory')
    <3>1. bvHistory' = bvHistory \cup {u}
      BY <1>10 DEF Bv!Renamed, Bv!Visited
    <3>. QED
      BY <1>0, <3>1, FS_AddElement
  <2>2. CASE bvBar' = bvBar
    BY <1>0, <2>1, <2>2 DEF BarInv, BarTypes, PickedIsShown
  <2>3. CASE bvBar' = Bv!Readdressed(u)
    <3>1. /\ bvBar'.address = u /\ bvBar'.list = bvBar.list /\ bvBar'.pick = bvBar.pick
          /\ bvBar'.typed = bvBar.typed /\ bvBar'.aside = (bvBar.aside \/ bvBar.pick # 0)
          /\ BarHasItsFields'
      BY <1>0, <2>3 DEF Bv!Readdressed
    <3>2. PickedIsShown'
      BY <1>f, <3>1
    <3>. QED
      BY <1>0, <2>1, <3>1, <3>2 DEF BarInv, BarTypes
  <2>. QED
    BY <1>10, <2>2, <2>3
<1>11. ASSUME NEW n \in bvNavs, Bv!NavEnds(n) PROVE BarInv'
  <2>1. n.url \in Url
    BY DEF BrowserTypes, BvNav
  <2>2. Bv!Renamed(n.at, n.url) /\ (bvBar' = bvBar \/ bvBar' = Bv!Readdressed(n.url))
    BY <1>11 DEF Bv!NavEnds
  <2>. QED
    BY <1>10, <2>1, <2>2
<1>12. ASSUME NEW u \in Url, Bv!PageLoaded(u) PROVE BarInv'
  BY <1>10, <1>12 DEF Bv!PageLoaded
<1>13. CASE \/ (\E id \in Bv!Ids : Bv!Created(id)) \/ Bv!DialogOpens \/ Bv!GuardFires
            \/ (\E k \in {"timer", "fired", "idle"} : Bv!DialogCloses(k))
            \/ UNCHANGED bvVars
  <2>1. bvBar' = bvBar /\ bvHistory' = bvHistory
    BY <1>13 DEF Bv!Created, Bv!DialogOpens, Bv!GuardFires, Bv!DialogCloses, bvVars
  <2>. QED
    BY <1>0, <1>c, <2>1 DEF PickedIsShown
<1>15. ASSUME Bv!Enter \/ \E i \in DOMAIN bvBar.list : Bv!ClickSuggestion(i) PROVE BarInv'
  <2>1. PICK u \in Url : Bv!Navigate(u)
    BY <1>0, <1>15, TargetTyped DEF Bv!Enter, Bv!ClickSuggestion, Bv!Navigate
  <2>. QED
    BY <1>9, <2>1
<1>. QED
  BY <1>1, <1>2, <1>3, <1>4, <1>5, <1>6, <1>7, <1>8, <1>11, <1>12, <1>13, <1>14, <1>15
     DEF BrowserNext, Bv!BvNext

\* Every step keeps the types, and the mounted viewer that of the active tab.
LEMMA BrowserTypesStep ==
  ASSUME BrowserTypes, MountedIsActive, BarInv, BrowserNext
  PROVE  BrowserTypes' /\ MountedIsActive'
<1>. USE BrowserAssumption DEF Bv!bvPanes, Bv!Ids, Bv!Dialogs
<1>0. /\ bvTabs \in Seq(BvTab) /\ bvOpened \in 0..MaxBvTabs /\ Len(bvTabs) <= bvOpened
      /\ bvActive \in Nat \ {0} /\ bvMounted \in {0} \cup Bv!Ids
      /\ bvViews \in [Bv!Ids -> BvWhere] /\ bvHidden \subseteq Bv!Ids /\ bvCreating \subseteq Bv!Ids
      /\ bvNavs \subseteq BvNav /\ bvGuards \in [BvGuard -> Nat] /\ Bv!Dialogs <= MaxBvDialogs
      /\ bvTabs # <<>> => bvActive \in Bv!Ids /\ bvActive \in DOMAIN bvTabs
      /\ Len(bvTabs) \in Nat
  BY DEF BrowserTypes
<1>1. ASSUME NEW u \in Url \cup {Blank}, Bv!OpenTab(u) PROVE BrowserTypes' /\ MountedIsActive'
  <2>. DEFINE id == bvOpened + 1  t == [id |-> id, url |-> u]
  <2>1. /\ bvOpened < MaxBvTabs /\ bvOpened' = id /\ bvTabs' = Append(bvTabs, t)
        /\ bvActive' = Len(bvTabs) + 1 /\ Bv!Show(id, u, bvViews)
        /\ UNCHANGED <<bvHidden, bvNavs, bvGuards>>
    BY <1>1 DEF Bv!OpenTab
  <2>2. id \in Bv!Ids /\ t \in BvTab /\ t.id = id
    BY <1>0, <2>1 DEF BvTab
  <2>. HIDE DEF t, id
  <2>3. /\ bvTabs' \in Seq(BvTab) /\ bvTabs' # <<>> /\ Len(bvTabs') = Len(bvTabs) + 1
        /\ bvTabs'[Len(bvTabs) + 1] = t
    BY <1>0, <2>1, <2>2
  <2>4. bvMounted' = id /\ bvViews' \in [Bv!Ids -> BvWhere] /\ bvCreating' \subseteq Bv!Ids
    BY <1>0, <2>1, <2>2, ShowTypes
  <2>5. bvOpened' \in 0..MaxBvTabs /\ Len(bvTabs') <= bvOpened' /\ bvActive' \in Nat \ {0} /\ bvActive' <= Len(bvTabs')
    BY <1>0, <2>1, <2>3 DEF id
  <2>6. BrowserTypes'
    BY <1>0, <2>1, <2>2, <2>3, <2>4, <2>5 DEF BrowserTypes
  <2>. QED
    BY <2>1, <2>2, <2>3, <2>4, <2>6 DEF MountedIsActive
<1>2. ASSUME NEW i \in DOMAIN bvTabs, Bv!Activate(i) PROVE BrowserTypes' /\ MountedIsActive'
  <2>0. i \in 1..Len(bvTabs) /\ bvTabs[i] \in BvTab /\ bvTabs # <<>>
    BY <1>0
  <2>1. i \in 1..Len(bvTabs) /\ bvTabs[i].id \in Bv!Ids /\ bvTabs # <<>>
    BY <2>0 DEF BvTab
  <2>2. /\ bvActive' = i /\ Bv!Show(bvTabs[i].id, bvTabs[i].url, bvViews)
        /\ UNCHANGED <<bvOpened, bvTabs, bvHidden, bvNavs, bvGuards>>
    BY <1>2 DEF Bv!Activate
  <2>3. bvMounted' = bvTabs[i].id /\ bvViews' \in [Bv!Ids -> BvWhere] /\ bvCreating' \subseteq Bv!Ids
    BY <1>0, <2>1, <2>2, ShowTypes
  <2>4. BrowserTypes'
    BY <1>0, <2>1, <2>2, <2>3 DEF BrowserTypes
  <2>. QED
    BY <2>1, <2>2, <2>3, <2>4 DEF MountedIsActive
<1>3. ASSUME NEW i \in DOMAIN bvTabs, Bv!CloseTab(i) PROVE BrowserTypes' /\ MountedIsActive'
  <2>. DEFINE id == bvTabs[i].id  rest == Bv!RemoveAt(bvTabs, i)
              at == IF i <= bvActive /\ bvActive > 1 THEN bvActive - 1 ELSE bvActive
              views == [bvViews EXCEPT ![id] = "none"]
  <2>1. /\ bvMounted # 0 /\ bvTabs' = rest /\ bvActive' = at /\ bvHidden' \subseteq bvHidden
        /\ \/ rest = <<>> /\ Bv!ShowNone(views)
           \/ rest # <<>> /\ rest[at].id = bvMounted /\ bvViews' = views /\ UNCHANGED <<bvMounted, bvCreating>>
           \/ rest # <<>> /\ Bv!Show(rest[at].id, rest[at].url, views)
        /\ UNCHANGED <<bvOpened, bvNavs, bvGuards>>
    BY <1>3 DEF Bv!CloseTab
  <2>2. /\ rest \in Seq(BvTab) /\ Len(rest) = Len(bvTabs) - 1
        /\ at \in Nat \ {0} /\ (at <= Len(rest) \/ (at = 1 /\ rest = <<>>))
        /\ rest # <<>> => at \in DOMAIN rest /\ rest[at] \in BvTab
    <3>. HIDE DEF rest, at
    <3>1. rest = Bv!RemoveAt(bvTabs, i) /\ at = IF i <= bvActive /\ bvActive > 1 THEN bvActive - 1 ELSE bvActive
      BY DEF rest, at
    <3>. QED
      BY <3>1, TabClosed
  <2>3. views \in [Bv!Ids -> BvWhere]
    BY <1>0 DEF BvWhere
  <2>. HIDE DEF rest, at, views
  <2>4. /\ bvViews' \in [Bv!Ids -> BvWhere] /\ bvCreating' \subseteq Bv!Ids
        /\ bvMounted' \in {0} \cup Bv!Ids
        /\ bvMounted' # 0 => rest # <<>> /\ rest[at].id = bvMounted'
    <3>1. CASE rest = <<>> /\ Bv!ShowNone(views)
      BY <1>0, <2>3, <3>1, NoneShown
    <3>2. CASE rest # <<>> /\ rest[at].id = bvMounted /\ bvViews' = views /\ UNCHANGED <<bvMounted, bvCreating>>
      BY <1>0, <2>3, <3>2
    <3>3. CASE rest # <<>> /\ Bv!Show(rest[at].id, rest[at].url, views)
      <4>0. rest[at].id \in Bv!Ids
        BY <2>2, <3>3 DEF BvTab
      <4>1. bvMounted' = rest[at].id /\ bvViews' \in [Bv!Ids -> BvWhere] /\ bvCreating' \subseteq Bv!Ids
        BY <2>3, <3>3, <4>0, ShowTypes
      <4>. QED
        BY <3>3, <4>0, <4>1
    <3>. QED
      BY <2>1, <3>1, <3>2, <3>3
  <2>5. Len(rest) <= bvOpened
    BY <1>0, <2>2
  <2>6. BrowserTypes'
    BY <1>0, <2>1, <2>2, <2>4, <2>5 DEF BrowserTypes
  <2>. QED
    BY <2>1, <2>4, <2>6 DEF MountedIsActive
<1>4. CASE Bv!LookAway \/ Bv!ClosePanel
  <2>1. PICK views \in [Bv!Ids -> BvWhere] : Bv!ShowNone(views)
    <3>1. Bv!Hide(bvViews, Bv!Ids) \in [Bv!Ids -> BvWhere]
      BY <1>0 DEF Bv!Hide, BvWhere
    <3>2. [v \in Bv!Ids |-> "none"] \in [Bv!Ids -> BvWhere]
      BY DEF BvWhere
    <3>. QED
      BY <1>4, <3>1, <3>2 DEF Bv!LookAway, Bv!ClosePanel
  <2>2. bvHidden' \subseteq Bv!Ids /\ UNCHANGED <<bvOpened, bvTabs, bvActive, bvNavs, bvGuards>>
    BY <1>0, <1>4 DEF Bv!LookAway, Bv!ClosePanel
  <2>3. bvMounted' = 0 /\ bvViews' \in [Bv!Ids -> BvWhere] /\ bvCreating' \subseteq Bv!Ids
    BY <2>1, NoneShown
  <2>. QED
    BY <2>2, <2>3 DEF BrowserTypes, MountedIsActive
<1>5. ASSUME NEW id \in Bv!Ids, Bv!Created(id) PROVE BrowserTypes' /\ MountedIsActive'
  <2>1. /\ bvCreating' = bvCreating \ {id} /\ bvViews' = [bvViews EXCEPT ![id] = "here"]
        /\ UNCHANGED <<bvOpened, bvTabs, bvActive, bvMounted, bvHidden, bvNavs, bvGuards>>
    BY <1>5 DEF Bv!Created
  <2>2. bvViews' \in [Bv!Ids -> BvWhere]
    BY <1>0, <2>1 DEF BvWhere
  <2>. QED
    BY <2>1, <2>2 DEF BrowserTypes, MountedIsActive
<1>6. ASSUME UNCHANGED <<bvOpened, bvTabs, bvActive, bvMounted, bvViews>>,
             bvHidden' \subseteq Bv!Ids, bvCreating' \subseteq Bv!Ids, bvNavs' \subseteq BvNav,
             bvGuards' \in [BvGuard -> Nat], Bv!Dialogs' <= MaxBvDialogs
      PROVE  BrowserTypes' /\ MountedIsActive'
  BY <1>6 DEF BrowserTypes, MountedIsActive
<1>7. ASSUME NEW u \in Url, Bv!Navigate(u) PROVE BrowserTypes' /\ MountedIsActive'
  <2>1. bvMounted \in Bv!Ids /\ bvTabs # <<>>
    BY <1>0, <1>7 DEF Bv!Navigate, Bv!HasBar, MountedIsActive
  <2>2. [id |-> bvMounted, at |-> bvActive, url |-> u] \in BvNav
    BY <1>0, <2>1 DEF BvNav
  <2>3. bvNavs' \subseteq BvNav /\ bvCreating' \subseteq Bv!Ids
    BY <1>0, <1>7, <2>1, <2>2 DEF Bv!Navigate
  <2>4. UNCHANGED <<bvOpened, bvTabs, bvActive, bvMounted, bvViews, bvHidden, bvGuards>>
    BY <1>7 DEF Bv!Navigate
  <2>. QED
    BY <1>0, <1>6, <2>3, <2>4
<1>8. ASSUME NEW at, NEW u \in Url, Bv!Renamed(at, u), bvNavs' \subseteq bvNavs,
             UNCHANGED <<bvOpened, bvActive, bvMounted, bvHidden, bvGuards>>
      PROVE  BrowserTypes' /\ MountedIsActive'
  <2>1. /\ bvTabs' \in Seq(BvTab) /\ Len(bvTabs') = Len(bvTabs) /\ (bvTabs' = <<>> <=> bvTabs = <<>>)
        /\ bvViews' \in [Bv!Ids -> BvWhere] /\ bvCreating' \subseteq Bv!Ids /\ MountedIsActive'
    BY <1>8, RenamedTypes
  <2>2. bvActive <= Len(bvTabs) \/ (bvActive = 1 /\ bvTabs = <<>>)
    BY DEF BrowserTypes
  <2>. QED
    BY <1>0, <1>8, <2>1, <2>2 DEF BrowserTypes
<1>9. ASSUME NEW n \in bvNavs, Bv!NavEnds(n) PROVE BrowserTypes' /\ MountedIsActive'
  <2>1. n.url \in Url
    BY <1>0 DEF BvNav
  <2>2. Bv!Renamed(n.at, n.url) /\ bvNavs' \subseteq bvNavs /\ UNCHANGED <<bvOpened, bvActive, bvMounted, bvHidden, bvGuards>>
    BY <1>9 DEF Bv!NavEnds
  <2>. QED
    BY <1>8, <2>1, <2>2
<1>10. ASSUME NEW u \in Url, Bv!PageLoaded(u) PROVE BrowserTypes' /\ MountedIsActive'
  <2>1. Bv!Renamed(bvActive, u) /\ bvNavs' = bvNavs /\ UNCHANGED <<bvOpened, bvActive, bvMounted, bvHidden, bvGuards>>
    BY <1>10 DEF Bv!PageLoaded
  <2>. QED
    BY <1>8, <2>1
<1>g. bvGuards["timer"] \in Nat /\ bvGuards["fired"] \in Nat /\ bvGuards["idle"] \in Nat
      /\ bvGuards["timer"] + bvGuards["fired"] + bvGuards["idle"] <= MaxBvDialogs
  BY <1>0 DEF BvGuard, Bv!Dialogs
<1>h. ASSUME NEW t \in Nat, NEW f \in Nat, NEW d \in Nat, bvGuards' \in [BvGuard -> Nat],
             bvGuards'["timer"] = t, bvGuards'["fired"] = f, bvGuards'["idle"] = d,
             t + f + d <= MaxBvDialogs, bvHidden' \subseteq Bv!Ids,
             UNCHANGED <<bvOpened, bvTabs, bvActive, bvMounted, bvViews, bvCreating, bvNavs>>
      PROVE  BrowserTypes' /\ MountedIsActive'
  <2>1. Bv!Dialogs' <= MaxBvDialogs
    BY <1>h DEF Bv!Dialogs
  <2>. QED
    BY <1>0, <1>6, <1>h, <2>1
<1>11. CASE Bv!DialogOpens
  <2>1. /\ bvGuards["timer"] + bvGuards["fired"] + bvGuards["idle"] < MaxBvDialogs
        /\ \/ bvGuards' = [bvGuards EXCEPT !["idle"] = @ + 1]
           \/ bvGuards' = [bvGuards EXCEPT !["timer"] = @ + 1]
        /\ UNCHANGED <<bvOpened, bvTabs, bvActive, bvMounted, bvViews, bvHidden, bvCreating, bvNavs>>
    BY <1>11 DEF Bv!DialogOpens, Bv!Dialogs
  <2>2. CASE bvGuards' = [bvGuards EXCEPT !["idle"] = @ + 1]
    <3>1. /\ bvGuards' \in [BvGuard -> Nat] /\ bvGuards'["timer"] = bvGuards["timer"]
          /\ bvGuards'["fired"] = bvGuards["fired"] /\ bvGuards'["idle"] = bvGuards["idle"] + 1
      BY <1>0, <1>g, <2>2 DEF BvGuard
    <3>2. /\ bvGuards["idle"] + 1 \in Nat
          /\ bvGuards["timer"] + bvGuards["fired"] + (bvGuards["idle"] + 1) <= MaxBvDialogs
      BY <1>g, <2>1
    <3>. QED
      BY <1>0, <1>g, <1>h, <2>1, <3>1, <3>2
  <2>3. CASE bvGuards' = [bvGuards EXCEPT !["timer"] = @ + 1]
    <3>1. /\ bvGuards' \in [BvGuard -> Nat] /\ bvGuards'["timer"] = bvGuards["timer"] + 1
          /\ bvGuards'["fired"] = bvGuards["fired"] /\ bvGuards'["idle"] = bvGuards["idle"]
      BY <1>g, <2>3, <1>0 DEF BvGuard
    <3>2. /\ bvGuards["timer"] + 1 \in Nat
          /\ (bvGuards["timer"] + 1) + bvGuards["fired"] + bvGuards["idle"] <= MaxBvDialogs
      BY <1>g, <2>1
    <3>. QED
      BY <1>0, <1>g, <1>h, <2>1, <3>1, <3>2
  <2>. QED
    BY <2>1, <2>2, <2>3
<1>12. CASE Bv!GuardFires
  <2>1. /\ bvGuards["timer"] > 0 /\ bvGuards' = [bvGuards EXCEPT !["timer"] = @ - 1, !["fired"] = @ + 1]
        /\ bvHidden' = bvHidden \cup Bv!Heard
        /\ UNCHANGED <<bvOpened, bvTabs, bvActive, bvMounted, bvViews, bvCreating, bvNavs>>
    BY <1>12 DEF Bv!GuardFires
  <2>2. /\ bvGuards' \in [BvGuard -> Nat] /\ bvGuards'["timer"] = bvGuards["timer"] - 1
        /\ bvGuards'["fired"] = bvGuards["fired"] + 1 /\ bvGuards'["idle"] = bvGuards["idle"]
    BY <1>0, <1>g, <2>1 DEF BvGuard
  <2>3. bvHidden' \subseteq Bv!Ids
    BY <1>0, <2>1 DEF Bv!Heard
  <2>4. bvGuards["timer"] - 1 \in Nat /\ bvGuards["fired"] + 1 \in Nat
    BY <1>g, <2>1
  <2>5. (bvGuards["timer"] - 1) + (bvGuards["fired"] + 1) + bvGuards["idle"] <= MaxBvDialogs
    BY <1>g, <2>1
  <2>. QED
    BY <1>g, <1>h, <2>1, <2>2, <2>3, <2>4, <2>5
<1>13. ASSUME NEW k \in {"timer", "fired", "idle"}, Bv!DialogCloses(k) PROVE BrowserTypes' /\ MountedIsActive'
  <2>1. /\ bvGuards[k] > 0 /\ bvGuards' = [bvGuards EXCEPT ![k] = @ - 1]
        /\ bvHidden' \subseteq bvHidden
        /\ UNCHANGED <<bvOpened, bvTabs, bvActive, bvMounted, bvViews, bvCreating, bvNavs>>
    BY <1>13 DEF Bv!DialogCloses, Bv!ShownAgain
  <2>2. /\ bvGuards' \in [BvGuard -> Nat] /\ bvGuards[k] - 1 \in Nat
        /\ \A j \in BvGuard : bvGuards'[j] = IF j = k THEN bvGuards[j] - 1 ELSE bvGuards[j]
    BY <1>0, <1>g, <2>1 DEF BvGuard
  <2>3. /\ bvGuards'["timer"] \in Nat /\ bvGuards'["fired"] \in Nat /\ bvGuards'["idle"] \in Nat
        /\ bvGuards'["timer"] <= bvGuards["timer"] /\ bvGuards'["fired"] <= bvGuards["fired"]
        /\ bvGuards'["idle"] <= bvGuards["idle"]
    BY <1>g, <2>2 DEF BvGuard
  <2>4. bvGuards'["timer"] + bvGuards'["fired"] + bvGuards'["idle"] <= MaxBvDialogs
    BY <1>g, <2>3
  <2>. QED
    BY <1>0, <1>h, <2>1, <2>2, <2>3, <2>4
<1>14. CASE \/ (\E list \in Bv!Lists : Bv!Focus(list) \/ \E u \in Url : Bv!Change(u, list))
            \/ Bv!ArrowDown \/ Bv!ArrowUp \/ Bv!Tab \/ Bv!CloseSuggestions
            \/ (\E i \in DOMAIN bvBar.list : Bv!PointAt(i))
            \/ UNCHANGED bvVars
  <2>1. UNCHANGED <<bvOpened, bvTabs, bvActive, bvMounted, bvViews, bvHidden, bvCreating, bvNavs, bvGuards>>
    BY <1>14 DEF Bv!Focus, Bv!Change, Bv!ArrowDown, Bv!ArrowUp, Bv!Tab, Bv!CloseSuggestions, Bv!PointAt, bvVars
  <2>. QED
    BY <1>0, <1>6, <2>1
<1>15. ASSUME Bv!Enter \/ \E i \in DOMAIN bvBar.list : Bv!ClickSuggestion(i)
       PROVE  BrowserTypes' /\ MountedIsActive'
  <2>1. PICK u \in Url : Bv!Navigate(u)
    BY <1>15, TargetTyped DEF BarInv, Bv!Enter, Bv!ClickSuggestion, Bv!Navigate
  <2>. QED
    BY <1>7, <2>1
<1>. QED
  BY <1>1, <1>2, <1>3, <1>4, <1>5, <1>9, <1>10, <1>11, <1>12, <1>13, <1>14, <1>15
     DEF BrowserNext, Bv!BvNext

-----------------------------------------------------------------------------
\* A dialog open for a while has hidden the page that heard of it.
HeardAreHidden == bvGuards["fired"] > 0 /\ bvCalm => Bv!Heard \subseteq bvHidden
\* A hidden page is that of the mounted viewer or was left hidden.
HiddenAreLost == bvHidden \subseteq bvLost \cup {bvMounted}
\* A hidden page exists.
HiddenAreThere == \A v \in bvHidden : bvViews[v] # "none"
\* When no dialog hides pages, those hidden were left so.
HidingIsUndone == bvGuards["timer"] = 0 /\ bvGuards["fired"] = 0 => bvHidden \subseteq bvLost
\* What the pages' being where they should rests on.
PagesInv ==
  /\ Bv!OnlyTheShownPage /\ HeardAreHidden
  /\ HiddenAreLost /\ HiddenAreThere /\ HidingIsUndone

\* Mounting a tab's viewer.
LEMMA PageShown ==
  ASSUME BrowserTypes, PagesInv, NEW id \in Bv!Ids, NEW url, NEW views \in [Bv!Ids -> BvWhere],
         Bv!Show(id, url, views), bvGuards' = bvGuards, bvHidden' \subseteq bvHidden,
         \A v \in bvHidden' : views[v] # "none"
  PROVE  PagesInv'
<1>0. /\ bvMounted \in {0} \cup Bv!Ids /\ bvHidden \subseteq Bv!Ids /\ 0 \notin Bv!Ids
      /\ bvGuards \in [BvGuard -> Nat]
      /\ HiddenAreLost /\ HidingIsUndone
  BY DEF BrowserTypes, PagesInv, Bv!Ids
<1>1. /\ bvMounted' = id /\ bvViews' = Bv!Placed(id, url, views)
      /\ bvCalm' => Bv!Dialogs = 0
      /\ bvLost \subseteq bvLost'
      /\ bvMounted \notin {0, id} => {bvMounted} \cap bvHidden \subseteq bvLost'
  BY DEF Bv!Show
<1>2. \A v \in Bv!Ids : /\ bvViews'[v] = "none" <=> views[v] = "none"
                        /\ bvViews'[v] = "here" => v = id
  BY <1>1, PlacedTypes
<1>3. Bv!OnlyTheShownPage'
  BY <1>1, <1>2 DEF Bv!OnlyTheShownPage
<1>4. HeardAreHidden'
  <2>1. /\ bvGuards["timer"] \in Nat /\ bvGuards["fired"] \in Nat /\ bvGuards["idle"] \in Nat
        /\ Bv!Dialogs = bvGuards["timer"] + bvGuards["fired"] + bvGuards["idle"]
    BY <1>0 DEF BvGuard, Bv!Dialogs
  <2>2. Bv!Dialogs = 0 => ~(bvGuards["fired"] > 0)
    BY <2>1
  <2>. QED
    BY <1>1, <2>2 DEF HeardAreHidden
<1>5. HiddenAreLost'
  BY <1>0, <1>1 DEF HiddenAreLost
<1>6. HiddenAreThere'
  BY <1>0, <1>2 DEF HiddenAreThere
<1>7. HidingIsUndone'
  BY <1>0, <1>1 DEF HidingIsUndone
<1>. QED
  BY <1>3, <1>4, <1>5, <1>6, <1>7 DEF PagesInv

\* Unmounting it.
LEMMA PageLeft ==
  ASSUME BrowserTypes, PagesInv, NEW views \in [Bv!Ids -> BvWhere],
         Bv!ShowNone(views), bvGuards' = bvGuards, bvHidden' \subseteq bvHidden,
         \A v \in bvHidden' : views[v] # "none",
         \A v \in Bv!Ids : views[v] = "here" => v \in bvLate
  PROVE  PagesInv'
<1>0. bvHidden \subseteq Bv!Ids /\ 0 \notin Bv!Ids /\ HiddenAreLost /\ HidingIsUndone
  BY DEF BrowserTypes, PagesInv, Bv!Ids
<1>1. /\ bvMounted' = 0 /\ bvViews' = views
      /\ bvLate' = {v \in bvLate : views[v] = "here"}
      /\ bvLost' = (bvLost \cup ({bvMounted} \cap bvHidden)) \ {v \in Bv!Ids : views[v] = "none"}
  BY DEF Bv!ShowNone
<1>2. Bv!OnlyTheShownPage'
  BY <1>1 DEF Bv!OnlyTheShownPage
<1>3. HeardAreHidden'
  BY <1>0, <1>1 DEF HeardAreHidden, Bv!Heard
<1>4. HiddenAreLost' /\ HidingIsUndone'
  BY <1>0, <1>1 DEF HiddenAreLost, HidingIsUndone
<1>5. HiddenAreThere'
  BY <1>1 DEF HiddenAreThere
<1>. QED
  BY <1>2, <1>3, <1>4, <1>5 DEF PagesInv

\* Every step of the browser leaves the pages where they should be.
LEMMA PagesStep ==
  ASSUME BrowserTypes, MountedIsActive, PagesInv, BrowserNext
  PROVE  PagesInv'
<1>. USE DEF Bv!bvPanes
<1>0. /\ bvTabs \in Seq(BvTab) /\ bvMounted \in {0} \cup Bv!Ids /\ 0 \notin Bv!Ids
      /\ bvViews \in [Bv!Ids -> BvWhere] /\ bvHidden \subseteq Bv!Ids
      /\ bvGuards["timer"] \in Nat /\ bvGuards["fired"] \in Nat /\ bvGuards["idle"] \in Nat
      /\ Bv!Dialogs = bvGuards["timer"] + bvGuards["fired"] + bvGuards["idle"]
      /\ \A k \in {"timer", "fired", "idle"} : bvGuards[k] \in Nat
  BY DEF BrowserTypes, BvGuard, Bv!Ids, Bv!Dialogs
<1>1. /\ Bv!OnlyTheShownPage /\ HeardAreHidden
      /\ HiddenAreLost /\ HiddenAreThere /\ HidingIsUndone
  BY DEF PagesInv
<1>2. ASSUME NEW u, Bv!OpenTab(u) PROVE PagesInv'
  <2>1. bvOpened + 1 \in Bv!Ids
    BY <1>2, BrowserAssumption DEF BrowserTypes, Bv!OpenTab, Bv!Ids
  <2>2. Bv!Show(bvOpened + 1, u, bvViews) /\ bvHidden' = bvHidden /\ bvGuards' = bvGuards
    BY <1>2 DEF Bv!OpenTab
  <2>. QED
    BY <1>0, <1>1, <2>1, <2>2, PageShown DEF HiddenAreThere
<1>t. ASSUME NEW i \in DOMAIN bvTabs PROVE bvTabs[i].id \in Bv!Ids
  <2>1. bvTabs[i] \in BvTab
    BY <1>0
  <2>. QED
    BY <2>1 DEF BvTab
<1>3. ASSUME NEW i \in DOMAIN bvTabs, Bv!Activate(i) PROVE PagesInv'
  <2>1. Bv!Show(bvTabs[i].id, bvTabs[i].url, bvViews) /\ bvHidden' = bvHidden /\ bvGuards' = bvGuards
    BY <1>3 DEF Bv!Activate
  <2>. QED
    BY <1>0, <1>1, <1>t, <2>1, PageShown DEF HiddenAreThere
<1>4. CASE Bv!LookAway
  <2>. DEFINE views == Bv!Hide(bvViews, Bv!Ids)
  <2>1. Bv!ShowNone(views) /\ bvHidden' = bvHidden /\ bvGuards' = bvGuards
    BY <1>4 DEF Bv!LookAway
  <2>2. /\ views \in [Bv!Ids -> BvWhere]
        /\ \A v \in Bv!Ids : (views[v] = "none" <=> bvViews[v] = "none") /\ views[v] # "here"
    BY <1>0 DEF Bv!Hide, BvWhere
  <2>. HIDE DEF views
  <2>. QED
    BY <1>0, <1>1, <2>1, <2>2, PageLeft DEF HiddenAreThere
<1>5. CASE Bv!ClosePanel
  <2>. DEFINE views == [v \in Bv!Ids |-> "none"]
  <2>1. Bv!ShowNone(views) /\ bvHidden' = {} /\ bvGuards' = bvGuards
    BY <1>5 DEF Bv!ClosePanel
  <2>2. views \in [Bv!Ids -> BvWhere] /\ \A v \in Bv!Ids : views[v] # "here"
    BY DEF BvWhere
  <2>. HIDE DEF views
  <2>. QED
    BY <2>1, <2>2, PageLeft
<1>6. ASSUME NEW i \in DOMAIN bvTabs, Bv!CloseTab(i) PROVE PagesInv'
  <2>. DEFINE id == bvTabs[i].id  rest == Bv!RemoveAt(bvTabs, i)
              at == IF i <= bvActive /\ bvActive > 1 THEN bvActive - 1 ELSE bvActive
              views == [bvViews EXCEPT ![id] = "none"]
  <2>1. /\ bvMounted # 0 /\ bvHidden' = bvHidden \ {id} /\ bvGuards' = bvGuards
        /\ \/ rest = <<>> /\ Bv!ShowNone(views)
           \/ /\ rest # <<>> /\ bvViews' = views
              /\ bvLate' = bvLate \ {id} /\ bvLost' = bvLost \ {id}
              /\ UNCHANGED <<bvMounted, bvCalm>>
           \/ rest # <<>> /\ Bv!Show(rest[at].id, rest[at].url, views)
    BY <1>6 DEF Bv!CloseTab
  <2>2. /\ rest # <<>> => at \in DOMAIN rest /\ rest[at] \in BvTab
        /\ rest = <<>> => i = bvActive
    <3>. HIDE DEF rest, at
    <3>1. rest = Bv!RemoveAt(bvTabs, i) /\ at = IF i <= bvActive /\ bvActive > 1 THEN bvActive - 1 ELSE bvActive
      BY DEF rest, at
    <3>. QED
      BY <3>1, TabClosed
  <2>3. /\ views \in [Bv!Ids -> BvWhere] /\ id \in Bv!Ids /\ views[id] = "none"
        /\ \A v \in Bv!Ids : v # id => views[v] = bvViews[v]
    BY <1>0, <1>t DEF BvWhere
  <2>4. rest = <<>> => id = bvMounted
    BY <2>1, <2>2 DEF MountedIsActive
  <2>. HIDE DEF rest, at, views, id
  <2>5. \A v \in bvHidden' : v \in Bv!Ids /\ views[v] # "none"
    BY <1>0, <1>1, <2>1, <2>3 DEF HiddenAreThere
  <2>6. CASE rest = <<>> /\ Bv!ShowNone(views)
    <3>1. \A v \in Bv!Ids : views[v] = "here" => v \in bvLate
      BY <1>0, <1>1, <2>3, <2>4, <2>6 DEF Bv!OnlyTheShownPage
    <3>. QED
      BY <2>1, <2>3, <2>5, <2>6, <3>1, PageLeft
  <2>7. CASE rest # <<>> /\ Bv!Show(rest[at].id, rest[at].url, views)
    <3>1. rest[at].id \in Bv!Ids
      BY <2>2, <2>7 DEF BvTab
    <3>. QED
      BY <2>1, <2>3, <2>5, <2>7, <3>1, PageShown
  <2>8. ASSUME bvViews' = views, bvLate' = bvLate \ {id}, bvLost' = bvLost \ {id},
               UNCHANGED <<bvMounted, bvCalm>>
        PROVE  PagesInv'
    <3>1. Bv!OnlyTheShownPage'
      BY <1>1, <2>3, <2>8 DEF Bv!OnlyTheShownPage
    <3>2. HeardAreHidden'
      BY <1>1, <2>1, <2>3, <2>8 DEF HeardAreHidden, Bv!Heard
    <3>3. HiddenAreLost' /\ HidingIsUndone'
      BY <1>1, <2>1, <2>8 DEF HiddenAreLost, HidingIsUndone
    <3>4. HiddenAreThere'
      BY <2>5, <2>8 DEF HiddenAreThere
    <3>. QED
      BY <3>1, <3>2, <3>3, <3>4 DEF PagesInv
  <2>. QED
    BY <2>1, <2>6, <2>7, <2>8
<1>7. ASSUME NEW id \in Bv!Ids, Bv!Created(id) PROVE PagesInv'
  <2>1. /\ bvViews' = [bvViews EXCEPT ![id] = "here"]
        /\ bvLate' = (IF id = bvMounted THEN bvLate ELSE bvLate \cup {id})
        /\ bvCalm' => Bv!Dialogs = 0
        /\ UNCHANGED <<bvMounted, bvHidden, bvGuards, bvLost>>
    BY <1>7 DEF Bv!Created
  <2>2. /\ bvViews'[id] = "here" /\ \A v \in Bv!Ids : v # id => bvViews'[v] = bvViews[v]
    BY <1>0, <2>1
  <2>3. Bv!OnlyTheShownPage'
    BY <1>1, <2>1, <2>2 DEF Bv!OnlyTheShownPage
  <2>4. HeardAreHidden'
    <3>1. Bv!Dialogs = 0 => ~(bvGuards["fired"] > 0)
      BY <1>0
    <3>. QED
      BY <2>1, <3>1 DEF HeardAreHidden
  <2>5. HiddenAreLost' /\ HidingIsUndone'
    BY <1>1, <2>1 DEF HiddenAreLost, HidingIsUndone
  <2>6. HiddenAreThere'
    BY <1>0, <1>1, <2>1, <2>2 DEF HiddenAreThere
  <2>. QED
    BY <2>3, <2>4, <2>5, <2>6 DEF PagesInv
<1>8. ASSUME UNCHANGED <<bvViews, bvMounted, bvHidden, bvGuards, bvLate, bvLost, bvCalm>> PROVE PagesInv'
  BY <1>1, <1>8 DEF PagesInv, Bv!OnlyTheShownPage, HeardAreHidden, HiddenAreLost, HiddenAreThere, HidingIsUndone, Bv!Heard
<1>9. ASSUME NEW u, Bv!Navigate(u) PROVE PagesInv'
  BY <1>8, <1>9 DEF Bv!Navigate
<1>10. ASSUME NEW at, NEW u, Bv!Renamed(at, u),
              UNCHANGED <<bvMounted, bvHidden, bvGuards, bvLost, bvCalm>>
       PROVE  PagesInv'
  <2>1. CASE bvMounted # 0 /\ bvViews' = Bv!Placed(bvMounted, u, bvViews)
    <3>. DEFINE views == bvViews'
    <3>0. bvMounted \in Bv!Ids /\ views = Bv!Placed(bvMounted, u, bvViews) /\ bvViews \in [Bv!Ids -> BvWhere]
      BY <1>0, <2>1
    <3>. HIDE DEF views
    <3>a. \A v \in Bv!Ids : /\ views[v] = "none" <=> bvViews[v] = "none"
                            /\ views[v] = "here" => v = bvMounted
      BY <3>0, PlacedTypes
    <3>1. /\ bvMounted \in Bv!Ids
          /\ \A v \in Bv!Ids : /\ bvViews'[v] = "none" <=> bvViews[v] = "none"
                               /\ bvViews'[v] = "here" => v = bvMounted
      BY <3>0, <3>a DEF views
    <3>2. Bv!OnlyTheShownPage'
      BY <1>10, <3>1 DEF Bv!OnlyTheShownPage
    <3>3. HeardAreHidden'
      BY <1>1, <1>10, <3>1 DEF HeardAreHidden, Bv!Heard
    <3>4. HiddenAreLost' /\ HidingIsUndone'
      BY <1>1, <1>10 DEF HiddenAreLost, HidingIsUndone
    <3>5. HiddenAreThere'
      BY <1>0, <1>1, <1>10, <3>1 DEF HiddenAreThere
    <3>. QED
      BY <3>2, <3>3, <3>4, <3>5 DEF PagesInv
  <2>2. CASE UNCHANGED <<bvViews, bvLate>>
    BY <1>8, <1>10, <2>2
  <2>3. at \in DOMAIN bvTabs /\ bvTabs[at].id = bvMounted => bvMounted # 0
    BY <1>0, <1>t
  <2>. QED
    BY <1>10, <2>1, <2>2, <2>3 DEF Bv!Renamed, Bv!Renames
<1>11. ASSUME NEW n, Bv!NavEnds(n) PROVE PagesInv'
  BY <1>10, <1>11 DEF Bv!NavEnds
<1>12. ASSUME NEW u, Bv!PageLoaded(u) PROVE PagesInv'
  BY <1>10, <1>12 DEF Bv!PageLoaded
<1>13. CASE Bv!DialogOpens
  <2>1. /\ UNCHANGED <<bvViews, bvMounted, bvHidden, bvLate, bvLost>>
        /\ bvCalm' => Bv!Dialogs = 0
        /\ \/ bvGuards' = [bvGuards EXCEPT !["idle"] = @ + 1]
           \/ bvGuards' = [bvGuards EXCEPT !["timer"] = @ + 1]
    BY <1>13 DEF Bv!DialogOpens
  <2>2. bvGuards \in [BvGuard -> Nat]
    BY DEF BrowserTypes
  <2>3. /\ bvGuards'["fired"] = bvGuards["fired"]
        /\ bvGuards'["timer"] = 0 => bvGuards["timer"] = 0
    BY <2>1, <2>2 DEF BvGuard
  <2>4. Bv!Dialogs = 0 => ~(bvGuards["fired"] > 0)
    BY <1>0
  <2>5. HeardAreHidden'
    BY <2>1, <2>3, <2>4 DEF HeardAreHidden
  <2>6. HidingIsUndone' /\ HiddenAreLost' /\ HiddenAreThere' /\ Bv!OnlyTheShownPage'
    BY <1>1, <2>1, <2>3 DEF HidingIsUndone, HiddenAreLost, HiddenAreThere, Bv!OnlyTheShownPage
  <2>. QED
    BY <2>5, <2>6 DEF PagesInv
<1>14. CASE Bv!GuardFires
  <2>1. /\ UNCHANGED <<bvViews, bvMounted, bvLate, bvLost, bvCalm>> /\ bvHidden' = bvHidden \cup Bv!Heard
        /\ bvGuards' = [bvGuards EXCEPT !["timer"] = @ - 1, !["fired"] = @ + 1]
    BY <1>14 DEF Bv!GuardFires
  <2>2. bvGuards \in [BvGuard -> Nat]
    BY DEF BrowserTypes
  <2>3. bvGuards'["fired"] # 0
    BY <2>1, <2>2 DEF BvGuard
  <2>4. Bv!Heard' = Bv!Heard
    BY <2>1 DEF Bv!Heard
  <2>5. HeardAreHidden' /\ HidingIsUndone' /\ Bv!OnlyTheShownPage'
    BY <1>1, <2>1, <2>3, <2>4 DEF HeardAreHidden, HidingIsUndone, Bv!OnlyTheShownPage
  <2>6. HiddenAreLost' /\ HiddenAreThere'
    BY <1>1, <2>1 DEF HiddenAreLost, HiddenAreThere, Bv!Heard
  <2>. QED
    BY <2>5, <2>6 DEF PagesInv
<1>15. ASSUME NEW k \in {"timer", "fired", "idle"}, Bv!DialogCloses(k) PROVE PagesInv'
  <2>1. /\ UNCHANGED <<bvViews, bvMounted, bvLate>> /\ (bvCalm' => Bv!Dialogs = 1)
        /\ bvGuards[k] > 0 /\ bvGuards' = [bvGuards EXCEPT ![k] = @ - 1]
        /\ k = "idle" => UNCHANGED <<bvHidden, bvLost>>
        /\ k # "idle" => bvHidden' = bvHidden \ Bv!Heard /\ bvLost' = bvLost \ Bv!Heard
    BY <1>15 DEF Bv!DialogCloses, Bv!ShownAgain
  <2>2. bvGuards \in [BvGuard -> Nat]
    BY DEF BrowserTypes
  <2>3. \A j \in {"timer", "fired", "idle"} :
           bvGuards'[j] = IF j = k THEN bvGuards[j] - 1 ELSE bvGuards[j]
    BY <2>1, <2>2 DEF BvGuard
  <2>4. HeardAreHidden'
    <3>1. Bv!Dialogs = 1 => ~(bvGuards'["fired"] > 0)
      BY <1>0, <2>1, <2>3
    <3>. QED
      BY <2>1, <3>1 DEF HeardAreHidden
  <2>5. HiddenAreThere' /\ Bv!OnlyTheShownPage'
    BY <1>1, <2>1 DEF HiddenAreThere, Bv!OnlyTheShownPage
  <2>6. CASE k = "idle"
    BY <1>1, <2>1, <2>3, <2>4, <2>5, <2>6 DEF PagesInv, HiddenAreLost, HidingIsUndone
  <2>7. CASE k # "idle"
    <3>1. bvHidden' \subseteq bvLost'
      BY <1>0, <1>1, <2>1, <2>7 DEF HiddenAreLost, HiddenAreThere, Bv!Heard
    <3>. QED
      BY <2>4, <2>5, <3>1 DEF PagesInv, HiddenAreLost, HidingIsUndone
  <2>. QED
    BY <2>6, <2>7
<1>16. CASE \/ (\E list \in Bv!Lists : Bv!Focus(list) \/ \E u \in Url : Bv!Change(u, list))
            \/ Bv!ArrowDown \/ Bv!ArrowUp \/ Bv!Tab \/ Bv!CloseSuggestions
            \/ (\E i \in DOMAIN bvBar.list : Bv!PointAt(i))
            \/ UNCHANGED bvVars
  <2>1. UNCHANGED <<bvViews, bvMounted, bvHidden, bvGuards, bvLate, bvLost, bvCalm>>
    BY <1>16 DEF Bv!Focus, Bv!Change, Bv!ArrowDown, Bv!ArrowUp, Bv!Tab, Bv!CloseSuggestions, Bv!PointAt, bvVars
  <2>. QED
    BY <1>8, <2>1
<1>17. ASSUME Bv!Enter \/ \E i \in DOMAIN bvBar.list : Bv!ClickSuggestion(i) PROVE PagesInv'
  BY <1>9, <1>17 DEF Bv!Enter, Bv!ClickSuggestion
<1>. QED
  BY <1>2, <1>3, <1>4, <1>5, <1>6, <1>7, <1>11, <1>12, <1>13, <1>14, <1>15, <1>16, <1>17
     DEF BrowserNext, Bv!BvNext

\* The inductive invariant of BrowserViews.
BrowserInv ==
  part = "browser" => BrowserTypes /\ MountedIsActive /\ BarInv /\ PagesInv

\* It holds at the start.
LEMMA BrowserInit ==
  ASSUME Init
  PROVE  BrowserInv
<1>1. SUFFICES ASSUME part = "browser" PROVE BrowserTypes /\ MountedIsActive /\ BarInv /\ PagesInv
  BY DEF BrowserInv
<1>2. Bv!BvInit
  BY <1>1 DEF Init
<1>3. BrowserTypes
  <2>1. <<>> \in Seq(BvTab) /\ Len(<<>>) = 0
    OBVIOUS
  <2>2. bvTabs \in Seq(BvTab) /\ bvOpened \in 0..MaxBvTabs /\ Len(bvTabs) <= bvOpened /\ bvActive = 1 /\ bvTabs = <<>>
    BY <1>2, <2>1, BrowserAssumption DEF Bv!BvInit
  <2>3. bvViews \in [Bv!Ids -> BvWhere] /\ bvMounted = 0 /\ bvHidden = {} /\ bvCreating = {} /\ bvNavs = {}
    BY <1>2 DEF Bv!BvInit, BvWhere
  <2>4. bvGuards \in [BvGuard -> Nat] /\ Bv!Dialogs <= MaxBvDialogs
    BY <1>2, BrowserAssumption DEF Bv!BvInit, Bv!NoGuards, BvGuard, Bv!Dialogs
  <2>. QED
    BY <2>2, <2>3, <2>4 DEF BrowserTypes
<1>4. MountedIsActive
  BY <1>2 DEF Bv!BvInit, MountedIsActive
<1>5. BarInv
  <2>. DEFINE noList == <<>>
  <2>1. noList \in Seq(Url) /\ 0 \notin DOMAIN noList
    OBVIOUS
  <2>. HIDE DEF noList
  <2>2. bvBar = [address |-> Blank, typed |-> Blank, list |-> noList, pick |-> 0, open |-> FALSE,
                 aside |-> FALSE, crashed |-> FALSE]
    BY <1>2 DEF Bv!BvInit, Bv!Bar, noList
  <2>3. BarHasItsFields /\ bvBar.address = Blank /\ bvBar.typed = Blank /\ bvBar.list = noList /\ bvBar.pick = 0
    BY <2>2 DEF BarHasItsFields
  <2>4. bvHistory \subseteq Url /\ IsFiniteSet(bvHistory)
    BY <1>2, FS_EmptySet DEF Bv!BvInit
  <2>. QED
    BY <2>1, <2>3, <2>4 DEF BarInv, BarTypes, PickedIsShown
<1>6. PagesInv
  BY <1>2 DEF Bv!BvInit, Bv!Heard, PagesInv, Bv!OnlyTheShownPage, HeardAreHidden, HiddenAreLost,
              HiddenAreThere, HidingIsUndone
<1>. QED
  BY <1>3, <1>4, <1>5, <1>6

\* It says that the browser shows its page.
LEMMA ItsPageIsShown ==
  ASSUME BrowserTypes, BarInv, PagesInv
  PROVE  /\ Bv!OnlyTheShownPage /\ Bv!NothingOverTheDialog
         /\ Bv!PageComesBack /\ Bv!EnterGoesWhereItSays
<1>1. Bv!OnlyTheShownPage
  BY DEF PagesInv
<1>2. Bv!NothingOverTheDialog
  BY DEF PagesInv, Bv!OnlyTheShownPage, HeardAreHidden, Bv!Heard, Bv!NothingOverTheDialog
<1>3. Bv!PageComesBack
  BY DEF PagesInv, HidingIsUndone, Bv!PageComesBack, Bv!NoGuards
<1>4. Bv!EnterGoesWhereItSays
  BY DEF BarInv, PickedIsShown, Bv!Target, Bv!EnterGoesWhereItSays
<1>. QED
  BY <1>1, <1>2, <1>3, <1>4

\* The browser shows the page of its tab and no other, none over a dialog, and the
\* address it goes to is the one it shows unless the list or the address changed
\* under a pick, in every reachable state
\* (webviewHelpers.ts, BrowserHideGuard, BrowserViewer.tsx).
THEOREM ItsPage == Spec => []BrowserShowsItsPage
<1>1. Init => BrowserInv
  BY BrowserInit
<1>2. BrowserInv /\ [Next]_vars => BrowserInv'
  BY PartsStep, BrowserTypesStep, BarStep, PagesStep DEF BrowserInv
<1>3. BrowserInv => BrowserShowsItsPage
  BY ItsPageIsShown DEF BrowserInv, BrowserShowsItsPage
<1>4. QED
  BY <1>1, <1>2, <1>3, PTL DEF Spec

-----------------------------------------------------------------------------
\* The bounds on logins and polls are numbers.
ASSUME LoginAssumption == MaxFlows \in Nat /\ MaxPolls \in Nat
\* The size of the panels' caches and the bounds on their use are numbers.
ASSUME LogAssumption ==
  LogCacheSize \in Nat /\ MaxLogClicks \in Nat /\ MaxLogLoads \in Nat /\ MaxHookLoads \in Nat

\* The types of Login; a login that starts is not more than the bound allows.
LoginTypes == Lo!TypeOK /\ flows + starting <= MaxFlows

\* Every step of the sign-in keeps them.
LEMMA LoginTypesStep ==
  ASSUME LoginTypes, LoginNext
  PROVE  LoginTypes'
<1>. USE LoginAssumption DEF LoginTypes, Lo!TypeOK, Lo!Flow, Lo!NoFlow, Lo!dflow
<1>1. ASSUME NEW share \in BOOLEAN, Lo!StartLogin(share) PROVE LoginTypes'
  BY <1>1 DEF Lo!StartLogin
<1>2. CASE Lo!LoginStarted
  <2>1. flows + 1 \in 1..MaxFlows /\ starting - 1 \in 0..MaxFlows /\ flows + 1 + (starting - 1) <= MaxFlows
    BY <1>2 DEF Lo!LoginStarted
  <2>2. /\ starting' = starting - 1 /\ flows' = flows + 1 /\ code' = flows + 1
        /\ isPolling' = TRUE /\ isDialogOpen' = TRUE /\ waiting' = waiting \cup {flows + 1}
        /\ UNCHANGED <<isAuthenticated, polls, asking, expired, resume, hosting>>
    BY <1>2 DEF Lo!LoginStarted, Lo!PollersAfterStart
  <2>3. /\ code' \in 0..MaxFlows /\ flows' \in 0..MaxFlows /\ starting' \in 0..MaxFlows
        /\ flows' + starting' <= MaxFlows
    BY <2>1, <2>2
  <2>4. waiting' \subseteq 1..MaxFlows
    BY <2>1, <2>2
  <2>5. {isAuthenticated', isPolling', isDialogOpen', resume', hosting'} \subseteq BOOLEAN
    BY <2>2
  <2>6. code' \in Lo!Flow \cup {Lo!NoFlow}
    BY <2>1, <2>2
  <2>. QED
    BY <2>2, <2>3, <2>4, <2>5, <2>6
<1>3. CASE Lo!LoginUnreachable
  <2>1. flows + 1 \in 1..MaxFlows /\ starting - 1 \in 0..MaxFlows /\ flows + 1 + (starting - 1) <= MaxFlows
    BY <1>3 DEF Lo!LoginUnreachable
  <2>. QED
    BY <1>3, <2>1 DEF Lo!LoginUnreachable
<1>4. CASE Lo!CancelLogin \/ Lo!DismissLoginDialog
  BY <1>4 DEF Lo!CancelLogin, Lo!DismissLoginDialog
<1>5. ASSUME NEW f \in Lo!Flow, Lo!CodeExpires(f) PROVE LoginTypes'
  BY <1>5 DEF Lo!CodeExpires
<1>6. ASSUME NEW f \in Lo!Flow, Lo!Poll(f) PROVE LoginTypes'
  <2>1. /\ waiting' = waiting \ {f} /\ asking' \subseteq asking \cup {f}
        /\ (code' = code) /\ UNCHANGED <<starting, flows, polls, expired, hosting, isAuthenticated>>
    BY <1>6 DEF Lo!Poll, Lo!Fails
  <2>2. isPolling' \in BOOLEAN /\ isDialogOpen' \in BOOLEAN /\ resume' \in BOOLEAN
    BY <1>6 DEF Lo!Poll, Lo!Fails
  <2>. QED
    BY <2>1, <2>2
<1>7. ASSUME NEW f \in Lo!Flow, Lo!PollAnswered(f) PROVE LoginTypes'
  <2>1. /\ asking' = asking \ {f} /\ waiting' \subseteq waiting \cup {f}
        /\ (code' = code \/ code' = 0) /\ polls' \in 0..MaxPolls
        /\ UNCHANGED <<starting, flows, expired, hosting>>
    BY <1>7 DEF Lo!PollAnswered, Lo!Fails
  <2>2. isPolling' \in BOOLEAN /\ isDialogOpen' \in BOOLEAN /\ resume' \in BOOLEAN /\ isAuthenticated' \in BOOLEAN
    BY <1>7 DEF Lo!PollAnswered, Lo!Fails
  <2>. QED
    BY <2>1, <2>2
<1>8. CASE Lo!ResumeHosting \/ Lo!Logout
  BY <1>8 DEF Lo!ResumeHosting, Lo!Logout
<1>9. CASE UNCHANGED loVars
  BY <1>9 DEF loVars
<1>. QED
  BY <1>1, <1>2, <1>3, <1>4, <1>5, <1>6, <1>7, <1>8, <1>9 DEF LoginNext, Lo!Next

\* The sessions of a panel's cache: each once, and no more than it may have.
CacheTypes ==
  /\ sessionCache \in Seq(LogSession) /\ Lp!IsInjective(sessionCache)
  /\ kind.bounded => Len(sessionCache) <= LogCacheSize
\* The types of a panel.
PanelTypes ==
  /\ kind \in Lp!Kinds /\ place \in [LogSession -> Lp!Place]
  /\ {loading, loadError, cwdFilter, tooltipLoading, showMore, overtaken} \subseteq BOOLEAN
  /\ entries \subseteq LogSession /\ openGroups \subseteq Lp!Place
  /\ viewMode \in {"flat", "grouped"} /\ {filter, tooltip, tooltipMessages} \subseteq Lp!MaybeSession
  /\ loads \in Nat /\ loads <= logLoads + 1 /\ reads \subseteq [key : LogSession, live : BOOLEAN]
  /\ logClicks \in 0..MaxLogClicks /\ logLoads \in 0..MaxLogLoads

\* What a cache remembers after a read.
LEMMA Remembered ==
  ASSUME CacheTypes, NEW k \in LogSession
  PROVE  /\ Lp!Remember(k) \in Seq(LogSession) /\ Lp!IsInjective(Lp!Remember(k))
         /\ kind.bounded => Len(Lp!Remember(k)) <= LogCacheSize
<1>. DEFINE put == IF k \in Lp!ToSet(sessionCache) THEN sessionCache ELSE Append(sessionCache, k)
<1>0. /\ sessionCache \in Seq(LogSession) /\ Len(sessionCache) \in Nat
      /\ DOMAIN sessionCache = 1..Len(sessionCache)
      /\ \A a, b \in DOMAIN sessionCache : sessionCache[a] = sessionCache[b] => a = b
      /\ kind.bounded => Len(sessionCache) <= LogCacheSize
  BY DEF CacheTypes, Lp!IsInjective
<1>1. /\ put \in Seq(LogSession) /\ Len(put) \in Nat /\ DOMAIN put = 1..Len(put)
      /\ \A a, b \in DOMAIN put : put[a] = put[b] => a = b
      /\ kind.bounded => Len(put) <= LogCacheSize + 1
  <2>1. CASE k \in Lp!ToSet(sessionCache)
    BY <1>0, <2>1, LogAssumption
  <2>2. CASE k \notin Lp!ToSet(sessionCache)
    <3>. DEFINE t == Append(sessionCache, k)
    <3>1. /\ t \in Seq(LogSession) /\ Len(t) = Len(sessionCache) + 1 /\ DOMAIN t = 1..Len(t)
          /\ t[Len(sessionCache) + 1] = k
      BY <1>0
    <3>2. \A a \in DOMAIN sessionCache : t[a] = sessionCache[a]
      BY <1>0
    <3>. HIDE DEF t
    <3>3. \A a \in DOMAIN sessionCache : sessionCache[a] # k
      BY <2>2 DEF Lp!ToSet
    <3>4. \A a \in DOMAIN t : a \in DOMAIN sessionCache \/ a = Len(sessionCache) + 1
      BY <1>0, <3>1
    <3>5. \A a, b \in DOMAIN t : t[a] = t[b] => a = b
      BY <1>0, <3>1, <3>2, <3>3, <3>4
    <3>6. put = t
      BY <2>2 DEF t
    <3>7. kind.bounded => Len(t) <= LogCacheSize + 1
      BY <1>0, <3>1, LogAssumption
    <3>. HIDE DEF put
    <3>. QED
      BY <1>0, <3>1, <3>5, <3>6, <3>7
  <2>. QED
    BY <2>1, <2>2
<1>2. Lp!Remember(k) = IF kind.bounded /\ Len(put) > LogCacheSize THEN Tail(put) ELSE put
  BY DEF Lp!Remember
<1>. HIDE DEF put
<1>3. CASE kind.bounded /\ Len(put) > LogCacheSize
  <2>. DEFINE t == Tail(put)
  <2>1. Len(put) # 0 /\ put # <<>>
    BY <1>1, <1>3, LogAssumption
  <2>2. /\ t \in Seq(LogSession) /\ Len(t) = Len(put) - 1 /\ DOMAIN t = 1..(Len(put) - 1)
        /\ \A a \in 1..(Len(put) - 1) : t[a] = put[a + 1]
    BY <1>1, <2>1
  <2>3. Lp!Remember(k) = t
    BY <1>2, <1>3
  <2>. HIDE DEF t
  <2>4. \A a \in DOMAIN t : a + 1 \in DOMAIN put /\ a \in Int
    BY <1>1, <2>2
  <2>5. \A a, b \in DOMAIN t : t[a] = t[b] => a = b
    BY <1>1, <2>2, <2>4
  <2>6. Len(t) <= LogCacheSize
    BY <1>1, <1>3, <2>2, LogAssumption
  <2>. QED
    BY <2>2, <2>3, <2>5, <2>6 DEF Lp!IsInjective
<1>4. CASE ~(kind.bounded /\ Len(put) > LogCacheSize)
  <2>1. Lp!Remember(k) = put
    BY <1>2, <1>4
  <2>2. kind.bounded => Len(put) <= LogCacheSize
    BY <1>1, <1>4, LogAssumption
  <2>. QED
    BY <1>1, <2>1, <2>2 DEF Lp!IsInjective
<1>. QED
  BY <1>3, <1>4

\* Every step of a panel keeps them.
LEMMA PanelTypesStep ==
  ASSUME PanelTypes, CacheTypes, LogNext
  PROVE  PanelTypes' /\ CacheTypes'
<1>. USE LogAssumption DEF Lp!listVars, Lp!lookVars, Lp!detailVars, Lp!logWorld
<1>0. PanelTypes /\ CacheTypes
  OBVIOUS
<1>c. ASSUME sessionCache' = sessionCache, kind' = kind PROVE CacheTypes'
  BY <1>0, <1>c DEF CacheTypes
<1>n. /\ loads \in Nat /\ logLoads \in 0..MaxLogLoads /\ loads <= logLoads + 1
      /\ entries \subseteq LogSession
      /\ loading \in BOOLEAN /\ loadError \in BOOLEAN
  BY <1>0 DEF PanelTypes
<1>e. ASSUME loading' \in BOOLEAN, loadError' \in BOOLEAN, entries' \subseteq LogSession,
             loads' \in Nat, loads' <= logLoads' + 1, logLoads' \in 0..MaxLogLoads,
             UNCHANGED <<Lp!lookVars, Lp!detailVars, Lp!logWorld, logClicks>>
      PROVE  PanelTypes' /\ CacheTypes'
  <2>1. CacheTypes'
    BY <1>c, <1>e
  <2>. QED
    BY <1>0, <1>e, <2>1 DEF PanelTypes
<1>1. CASE Lp!LoadHistory \/ Lp!LoadFailed
  <2>1. loading' \in BOOLEAN /\ loadError' \in BOOLEAN
    BY <1>1 DEF Lp!LoadHistory, Lp!LoadFailed
  <2>2. loads' \in Nat /\ loads' <= logLoads' + 1 /\ logLoads' \in 0..MaxLogLoads
    <3>1. CASE Lp!LoadHistory
      <4>1. loads' = loads + 1 /\ logLoads' = logLoads + 1 /\ logLoads < MaxLogLoads
        BY <3>1 DEF Lp!LoadHistory
      <4>. QED
        BY <1>n, <4>1
    <3>2. CASE Lp!LoadFailed
      <4>1. loads' = loads - 1 /\ logLoads' = logLoads /\ loads > 0
        BY <3>2 DEF Lp!LoadFailed
      <4>. QED
        BY <1>n, <4>1
    <3>. QED
      BY <1>1, <3>1, <3>2
  <2>3. entries' \subseteq LogSession /\ UNCHANGED <<Lp!lookVars, Lp!detailVars, Lp!logWorld, logClicks>>
    BY <1>1, <1>n DEF Lp!LoadHistory, Lp!LoadFailed
  <2>. QED
    BY <1>e, <2>1, <2>2, <2>3
<1>2. CASE Lp!Look
  <2>1. CacheTypes'
    BY <1>2, <1>c DEF Lp!Look
  <2>2. /\ logClicks' \in 0..MaxLogClicks
        /\ UNCHANGED <<kind, place, loading, loadError, tooltip, tooltipMessages, tooltipLoading, showMore, overtaken,
                       entries, loads, logLoads, reads>>
    BY <1>0, <1>2 DEF PanelTypes, Lp!Look
  <2>3. /\ cwdFilter' \in BOOLEAN /\ filter' \in Lp!MaybeSession /\ viewMode' \in {"flat", "grouped"}
        /\ openGroups' \subseteq Lp!Place
    <3>1. CASE Lp!ToggleCwdFilter \/ Lp!ToggleViewMode
      BY <1>0, <3>1 DEF PanelTypes, Lp!ToggleCwdFilter, Lp!ToggleViewMode
    <3>2. ASSUME NEW g \in Lp!Place, Lp!ToggleGroup(g) PROVE <2>3
      BY <1>0, <3>2 DEF PanelTypes, Lp!ToggleGroup, Lp!SymDiff
    <3>3. ASSUME NEW k \in LogSession, Lp!ToggleFilter(k) PROVE <2>3
      BY <1>0, <3>3 DEF PanelTypes, Lp!ToggleFilter, Lp!MaybeSession
    <3>. QED
      BY <1>2, <3>1, <3>2, <3>3 DEF Lp!Look
  <2>. QED
    BY <1>0, <2>1, <2>2, <2>3 DEF PanelTypes
<1>d. ASSUME {tooltip', tooltipMessages'} \subseteq Lp!MaybeSession,
             {tooltipLoading', showMore', overtaken'} \subseteq BOOLEAN,
             reads' \subseteq [key : LogSession, live : BOOLEAN], logClicks' \in 0..MaxLogClicks,
             UNCHANGED <<Lp!listVars, Lp!lookVars, Lp!logWorld>>
      PROVE  PanelTypes'
  BY <1>0, <1>d DEF PanelTypes
<1>3. CASE Lp!HandleDetailClose \/ Lp!ShowMore
  <2>1. CacheTypes'
    BY <1>3, <1>c DEF Lp!HandleDetailClose, Lp!CloseDetail, Lp!ShowMore
  <2>. QED
    BY <1>0, <1>3, <1>d, <2>1 DEF PanelTypes, Lp!HandleDetailClose, Lp!CloseDetail, Lp!ShowMore, Lp!MaybeSession
<1>4. CASE Lp!Remount
  <2>1. CacheTypes'
    BY <1>4, <1>c DEF Lp!Remount
  <2>2. reads' \subseteq [key : LogSession, live : BOOLEAN]
    <3>1. reads \subseteq [key : LogSession, live : BOOLEAN] /\ reads' = {[r EXCEPT !.live = FALSE] : r \in reads}
      BY <1>0, <1>4 DEF PanelTypes, Lp!Remount
    <3>. QED
      BY <3>1
  <2>3. /\ {loading', loadError', cwdFilter', tooltipLoading', showMore', overtaken'} \subseteq BOOLEAN
        /\ {filter', tooltip', tooltipMessages'} \subseteq Lp!MaybeSession
        /\ entries' = {} /\ openGroups' = {} /\ viewMode' = "flat"
    BY <1>4 DEF Lp!Remount, Lp!MaybeSession
  <2>4. logLoads' = logLoads + 1 /\ logLoads < MaxLogLoads /\ loads' = 1
        /\ UNCHANGED <<kind, place, logClicks>>
    BY <1>4 DEF Lp!Remount
  <2>5. loads' \in Nat /\ loads' <= logLoads' + 1 /\ logLoads' \in 0..MaxLogLoads
    BY <1>n, <2>4
  <2>. QED
    BY <1>0, <2>1, <2>2, <2>3, <2>4, <2>5 DEF PanelTypes
<1>5. ASSUME NEW data \in SUBSET LogSession, Lp!Loaded(data) PROVE PanelTypes' /\ CacheTypes'
  <2>1. /\ loads' = loads - 1 /\ loads > 0 /\ loading' = FALSE /\ entries' = data
        /\ UNCHANGED <<loadError, logLoads, Lp!lookVars, Lp!detailVars, Lp!logWorld, logClicks>>
    BY <1>5 DEF Lp!Loaded
  <2>2. loads' \in Nat /\ loads' <= logLoads' + 1 /\ logLoads' \in 0..MaxLogLoads
    BY <1>n, <2>1
  <2>. QED
    BY <1>e, <1>n, <2>1, <2>2
<1>6. ASSUME NEW k \in LogSession, Lp!HandleRowClick(k) PROVE PanelTypes' /\ CacheTypes'
  <2>1. CacheTypes'
    BY <1>6, <1>c DEF Lp!HandleRowClick, Lp!CloseDetail, Lp!OpenDetail
  <2>2. /\ logClicks' \in 0..MaxLogClicks /\ UNCHANGED <<Lp!listVars, Lp!lookVars, Lp!logWorld>>
    BY <1>0, <1>6 DEF PanelTypes, Lp!HandleRowClick
  <2>3. CASE Lp!CloseDetail
    BY <1>0, <1>d, <2>1, <2>2, <2>3 DEF PanelTypes, Lp!CloseDetail, Lp!MaybeSession
  <2>4. CASE Lp!OpenDetail(k)
    <3>1. tooltip' = k /\ tooltipMessages' \in {k, None} /\ tooltipLoading' \in BOOLEAN /\ overtaken' \in BOOLEAN
          /\ showMore' = showMore
      BY <2>4 DEF Lp!OpenDetail, Lp!Opened
    <3>2. reads' \subseteq reads \cup {[key |-> k, live |-> TRUE]}
      BY <2>4 DEF Lp!OpenDetail
    <3>a. [key |-> k, live |-> TRUE] \in [key : LogSession, live : BOOLEAN]
      OBVIOUS
    <3>b. reads \subseteq [key : LogSession, live : BOOLEAN]
      BY <1>0 DEF PanelTypes
    <3>3. reads' \subseteq [key : LogSession, live : BOOLEAN]
      BY <3>2, <3>a, <3>b
    <3>. QED
      BY <1>0, <1>d, <2>1, <2>2, <3>1, <3>3 DEF PanelTypes, Lp!MaybeSession
  <2>. QED
    BY <1>6, <2>3, <2>4 DEF Lp!HandleRowClick
<1>7. ASSUME NEW r \in reads, NEW ok \in BOOLEAN, Lp!ReadDone(r, ok) PROVE PanelTypes' /\ CacheTypes'
  <2>1. r.key \in LogSession
    BY <1>0 DEF PanelTypes
  <2>2. CacheTypes'
    <3>1. sessionCache' = (IF ok THEN Lp!Remember(r.key) ELSE sessionCache) /\ kind' = kind
      BY <1>7 DEF Lp!ReadDone
    <3>2. CASE ok
      BY <1>0, <2>1, <3>1, <3>2, Remembered DEF CacheTypes
    <3>. QED
      BY <1>c, <3>1, <3>2
  <2>3. tooltipMessages' \in Lp!MaybeSession /\ tooltipLoading' \in BOOLEAN
    BY <1>0, <1>7, <2>1 DEF PanelTypes, Lp!ReadDone, Lp!MaybeSession
  <2>4. /\ reads' \subseteq reads
        /\ UNCHANGED <<tooltip, showMore, overtaken, Lp!listVars, Lp!lookVars, Lp!logWorld, logClicks>>
    BY <1>7 DEF Lp!ReadDone
  <2>. QED
    BY <1>0, <1>d, <2>2, <2>3, <2>4 DEF PanelTypes
<1>8. CASE UNCHANGED lpVars
  BY <1>0, <1>8 DEF lpVars, PanelTypes, CacheTypes
<1>. QED
  BY <1>1, <1>2, <1>3, <1>4, <1>5, <1>6, <1>7, <1>8 DEF LogNext, Lp!Next

\* The types of HookLog.
HookTypes == Hl!TypeOK /\ hookRequests <= hookLoads + 1

\* Every step of the hook log keeps them.
LEMMA HookTypesStep ==
  ASSUME HookTypes, HookNext
  PROVE  HookTypes'
<1>. USE LogAssumption DEF HookTypes, Hl!TypeOK, Hl!MaybeRow, Hl!hoverVars
<1>n. hookRequests \in Nat /\ hookLoads \in 0..MaxHookLoads /\ hookRequests <= hookLoads + 1
  OBVIOUS
<1>1. CASE Hl!Refresh
  <2>1. /\ hookRequests' = hookRequests + 1 /\ hookLoads' = hookLoads + 1 /\ hookLoads < MaxHookLoads
        /\ hookLoading' = TRUE /\ UNCHANGED <<hookNodes, showTimer, hideTimer, tip>>
    BY <1>1 DEF Hl!Refresh
  <2>2. hookRequests' \in 0..(MaxHookLoads + 1) /\ hookLoads' \in 0..MaxHookLoads /\ hookRequests' <= hookLoads' + 1
    BY <1>n, <2>1
  <2>3. pointer' \in Hl!MaybeRow \cup {"tip"} /\ {hookLoading', hideTimer', vanished'} \subseteq BOOLEAN
    BY <1>1, <2>1 DEF Hl!Refresh, Hl!RowsGo
  <2>. QED
    BY <2>1, <2>2, <2>3
<1>2. CASE Hl!HandleClear
  BY <1>2 DEF Hl!HandleClear, Hl!RowsGo
<1>3. CASE Hl!HandleHoverLeave \/ Hl!HandleTipEnter \/ Hl!HandleTipLeave
  BY <1>3 DEF Hl!HandleHoverLeave, Hl!HandleTipEnter, Hl!HandleTipLeave
<1>4. CASE Hl!ShowTip \/ Hl!HideTip
  BY <1>4 DEF Hl!ShowTip, Hl!HideTip
<1>5. ASSUME NEW tree \in SUBSET HookRow, Hl!HooksRead(tree) PROVE HookTypes'
  <2>1. /\ hookRequests' = hookRequests - 1 /\ hookRequests > 0 /\ hookNodes' = tree /\ hookLoading' = FALSE
        /\ UNCHANGED <<pointer, showTimer, hideTimer, tip, vanished, hookLoads>>
    BY <1>5 DEF Hl!HooksRead
  <2>2. hookRequests' \in 0..(MaxHookLoads + 1) /\ hookRequests' <= hookLoads' + 1
    BY <1>n, <2>1
  <2>. QED
    BY <2>1, <2>2
<1>6. ASSUME NEW n \in HookRow, Hl!HandleHover(n) PROVE HookTypes'
  BY <1>6 DEF Hl!HandleHover
<1>7. CASE UNCHANGED hlVars
  BY <1>7 DEF hlVars
<1>. QED
  BY <1>1, <1>2, <1>3, <1>4, <1>5, <1>6, <1>7 DEF HookNext, Hl!Next

\* The types the other invariants leave out.
TypesInv ==
  /\ part = "login" => LoginTypes
  /\ part = "logs" => PanelTypes /\ CacheTypes
  /\ part = "hooks" => HookTypes

\* They hold at the start.
LEMMA TypesInit ==
  ASSUME Init
  PROVE  TypesInv
<1>1. ASSUME part = "login" PROVE LoginTypes
  <2>1. Lo!Init
    BY <1>1 DEF Init
  <2>2. /\ flows = 0 /\ starting = 0 /\ polls = 0 /\ code = Lo!NoFlow
        /\ waiting = {} /\ asking = {} /\ expired = {}
        /\ {isAuthenticated, isPolling, isDialogOpen, resume, hosting} \subseteq BOOLEAN
    BY <2>1 DEF Lo!Init
  <2>3. flows + starting <= MaxFlows /\ {flows, starting} \subseteq 0..MaxFlows /\ polls \in 0..MaxPolls
    BY <2>2, LoginAssumption
  <2>. QED
    BY <2>2, <2>3 DEF LoginTypes, Lo!TypeOK
<1>2. ASSUME part = "logs" PROVE PanelTypes /\ CacheTypes
  <2>1. Lp!Init
    BY <1>2 DEF Init
  <2>2. <<>> \in Seq(LogSession) /\ Len(<<>>) = 0 /\ DOMAIN <<>> = {}
    OBVIOUS
  <2>3. CacheTypes
    BY <2>1, <2>2, LogAssumption DEF Lp!Init, CacheTypes, Lp!IsInjective
  <2>4. PanelTypes
    <3>1. /\ {loading, loadError, cwdFilter, tooltipLoading, showMore, overtaken} \subseteq BOOLEAN
          /\ {filter, tooltip, tooltipMessages} \subseteq Lp!MaybeSession
          /\ entries = {} /\ openGroups = {} /\ viewMode = "flat" /\ reads = {}
          /\ kind \in Lp!Kinds /\ place \in [LogSession -> Lp!Place]
          /\ loads = 1 /\ logLoads = 0 /\ logClicks = 0
      BY <2>1 DEF Lp!Init, Lp!MaybeSession
    <3>2. loads \in Nat /\ loads <= logLoads + 1 /\ logClicks \in 0..MaxLogClicks /\ logLoads \in 0..MaxLogLoads
      BY <3>1, LogAssumption
    <3>. QED
      BY <3>1, <3>2 DEF PanelTypes
  <2>. QED
    BY <2>3, <2>4
<1>3. ASSUME part = "hooks" PROVE HookTypes
  <2>1. Hl!Init
    BY <1>3 DEF Init
  <2>2. /\ hookNodes = {} /\ {hookLoading, hideTimer, vanished} \subseteq BOOLEAN
        /\ pointer = NoRow /\ showTimer = NoRow /\ tip = NoRow
        /\ hookRequests = 1 /\ hookLoads = 0
    BY <2>1 DEF Hl!Init
  <2>3. hookRequests <= hookLoads + 1 /\ hookLoads \in 0..MaxHookLoads /\ hookRequests \in 0..(MaxHookLoads + 1)
    BY <2>2, LogAssumption
  <2>. QED
    BY <2>2, <2>3 DEF HookTypes, Hl!TypeOK, Hl!MaybeRow
<1>. QED
  BY <1>1, <1>2, <1>3 DEF TypesInv

\* The types of Sharing, as its module states them.
LEMMA SharesTyped ==
  ASSUME ShTypes
  PROVE  Sh!ShTypeOK
<1>. DEFINE E == [is : Sh!Reports \cup {"joined", "left"}, room : {<<>>} \cup {<<r>> : r \in Room}]
<1>1. \A e \in ShEvent : e \in E
  BY DEF ShEvent
<1>2. shEvents \in Seq(ShEvent)
  BY DEF ShTypes
<1>. HIDE DEF E
<1>3. shEvents \in Seq(E)
  BY <1>1, <1>2
<1>. QED
  BY <1>3 DEF ShTypes, ShCall, ShNegotiation, Sh!ShTypeOK, E

\* The types of BrowserViews, as its module states them.
LEMMA BrowserTyped ==
  ASSUME BrowserTypes, BarTypes
  PROVE  Bv!BvTypeOK
<1>1. /\ bvTabs \in Seq(BvTab) /\ bvMounted \in {0} \cup Bv!Ids /\ bvViews \in [Bv!Ids -> BvWhere]
      /\ bvHidden \subseteq Bv!Ids /\ bvCreating \subseteq Bv!Ids /\ bvNavs \subseteq BvNav
      /\ bvHistory \subseteq Url
  BY DEF BrowserTypes, BarTypes
<1>2. bvActive \in Bv!Ids
  <2>1. /\ Len(bvTabs) \in Nat /\ bvOpened \in 0..MaxBvTabs /\ Len(bvTabs) <= bvOpened
        /\ bvActive \in Nat \ {0} /\ (bvActive <= Len(bvTabs) \/ bvActive = 1)
    BY DEF BrowserTypes
  <2>. QED
    BY <2>1, BrowserAssumption DEF Bv!Ids
<1>3. bvGuards \in [BvGuard -> 0..MaxBvDialogs]
  <2>1. /\ bvGuards \in [BvGuard -> Nat]
        /\ bvGuards["timer"] + bvGuards["fired"] + bvGuards["idle"] <= MaxBvDialogs
    BY DEF BrowserTypes, Bv!Dialogs
  <2>2. bvGuards["timer"] \in Nat /\ bvGuards["fired"] \in Nat /\ bvGuards["idle"] \in Nat
    BY <2>1 DEF BvGuard
  <2>3. \A k \in BvGuard : bvGuards[k] \in 0..MaxBvDialogs
    BY <2>1, <2>2, BrowserAssumption DEF BvGuard
  <2>. QED
    BY <2>1, <2>3
<1>. QED
  BY <1>1, <1>2, <1>3 DEF Bv!BvTypeOK, BvTab, BvWhere, BvNav, BvGuard

\* Every part's state is well typed in every reachable state; the caches of the
\* log panels have each session once and stay within their size (sessionCache).
THEOREM TypeCorrect == Spec => []TypeOK
<1>. DEFINE I == WhoInv /\ FarInv /\ BrowserInv /\ TypesInv
<1>1. Init => I
  BY WhoInit, FarInit, BrowserInit, TypesInit
<1>2. WhoInv /\ [Next]_vars => WhoInv'
  BY WhoStep
<1>3. FarInv /\ [Next]_vars => FarInv'
  BY PartsStep, OutputStep, PromptStep DEF FarInv
<1>4. BrowserInv /\ [Next]_vars => BrowserInv'
  BY PartsStep, BrowserTypesStep, BarStep, PagesStep DEF BrowserInv
<1>5. TypesInv /\ [Next]_vars => TypesInv'
  BY PartsStep, LoginTypesStep, PanelTypesStep, HookTypesStep DEF TypesInv
<1>6. I => TypeOK
  <2>1. SUFFICES ASSUME I PROVE TypeOK
    OBVIOUS
  <2>2. part = "sharing" => Sh!ShTypeOK
    BY <2>1, SharesTyped DEF WhoInv, ShareInv
  <2>3. part = "output" => Ro!TypeOK
    BY <2>1 DEF FarInv, OutputInv, OutputTypes, Ro!TypeOK, Ro!Printed, Chunk, Stage
  <2>4. part = "prompts" => Ps!TypeOK
    BY <2>1 DEF FarInv, PromptInv, PromptTypes, Ps!TypeOK
  <2>5. part = "logs" => Lp!TypeOK
    <3>1. ASSUME PanelTypes, CacheTypes PROVE Lp!TypeOK
      BY <3>1, LogAssumption DEF PanelTypes, CacheTypes, Lp!TypeOK
    <3>. QED
      BY <2>1, <3>1 DEF TypesInv
  <2>6. part = "browser" => Bv!BvTypeOK
    BY <2>1, BrowserTyped DEF BrowserInv, BarInv
  <2>7. (part = "view" => Rv!TypeOK) /\ (part = "login" => Lo!TypeOK) /\ (part = "hooks" => Hl!TypeOK)
    BY <2>1 DEF WhoInv, TypesInv, LoginTypes, HookTypes
  <2>. QED
    BY <2>2, <2>3, <2>4, <2>5, <2>6, <2>7 DEF TypeOK
<1>7. QED
  BY <1>1, <1>2, <1>3, <1>4, <1>5, <1>6, PTL DEF Spec
=============================================================================
