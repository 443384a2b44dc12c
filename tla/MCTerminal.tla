---------------------------- MODULE MCTerminal ----------------------------
(***************************************************************************)
(* The window's terminals: tabs, renderers, sizes, marks of the shell,     *)
(* alerts, AI help, the history of commands, and what is typed into them   *)
(* (Typing).  They are pieces of state with their own handlers, so each    *)
(* behaviour runs one of them and leaves the others idle: the run explores *)
(* the sum of their state spaces, not the product.  The theorems follow:   *)
(* an invariant of a part is one of the whole, since no other part moves   *)
(* it.                                                                     *)
(***************************************************************************)
EXTENDS Typing, FiniteSetTheorems, WellFoundedInduction, TLAPS

CONSTANTS
  MaxSessions, MaxPanes, MaxOps, RemoteTab, None, MaxEntries, MaxAddons,
  Retries, Terms, MaxPages, MaxGlyphs, MaxSize, MaxLayouts, MaxCommands,
  Stdin, Sessions, NoSession, Grace, Threshold, MaxTime,
  MaxFailures, MaxTasks, MAX_ENTRIES, ChWord, ChStyle,
  MaxChActs, MaxChLoads, MaxChFaults

VARIABLES
  server, tabsBorn, tabsCalls, replies, broadcasts, tabs,
  tabsActive, focus, ops, latest, overtaken,   \* Tabs
  entry, webglEntries, loads, addons, webglBorn, current,   \* WebglLoader
  pages, slots, glyphs, shown,   \* GlyphAtlas
  room, mounted, made, observed, fitting, orphan, term,
  last, sizeCalls, pty, sizeEvents, layouts, sizeAstray,
  untold,   \* PaneSize
  shell, at, cmd, failed, complaint, lastEntered, forError,
  pending, running, executing, integrated, error,
  marksEntries, marksAstray, marksMounted, untracked,   \* ShellMarks
  now, front, awaited, left, lastOutput, notified, timer,
  grace, badge, alerted, seen, direct,   \* Silence
  commandError, failures, showErrorPopup, popup, explains,
  tasks, killed, taskCount, aiEntries, expanded, leftEarly,
  reloaded,   \* AiHelp
  chDisk, chDiskFavs, chEntries, chFavs, chLoaded, chLoads,
  chCalls, chAnswers, chSearch, chStale, chActs, chFaults   \* CommandHistory

Tb == INSTANCE Tabs WITH
  born <- tabsBorn, calls <- tabsCalls, active <- tabsActive
Wl == INSTANCE WebglLoader WITH
  entries <- webglEntries, born <- webglBorn
Ga == INSTANCE GlyphAtlas
Sz == INSTANCE PaneSize WITH
  calls <- sizeCalls, events <- sizeEvents, astray <- sizeAstray
Sm == INSTANCE ShellMarks WITH
  entries <- marksEntries, astray <- marksAstray, mounted <- marksMounted
Si == INSTANCE Silence
Ah == INSTANCE AiHelp
Ch == INSTANCE CommandHistory

Parts == {"tabs", "webgl", "atlas", "size", "marks", "silence", "bar",
          "mac", "win", "completion", "help", "history"}

Init ==
  /\ part \in Parts
  /\ IF part = "tabs"
       THEN Tb!Init
       ELSE /\ server = Idle /\ tabsBorn = Idle /\ tabsCalls = Idle
            /\ replies = Idle /\ broadcasts = Idle /\ tabs = Idle
            /\ tabsActive = Idle /\ focus = Idle /\ ops = Idle
            /\ latest = Idle /\ overtaken = Idle
  /\ IF part = "webgl"
       THEN Wl!Init
       ELSE /\ entry = Idle /\ webglEntries = Idle /\ loads = Idle
            /\ addons = Idle /\ webglBorn = Idle /\ current = Idle
  /\ IF part = "atlas"
       THEN Ga!Init
       ELSE /\ pages = Idle /\ slots = Idle /\ glyphs = Idle /\ shown = Idle
  /\ IF part = "size"
       THEN Sz!Init
       ELSE /\ room = Idle /\ mounted = Idle /\ made = Idle /\ observed = Idle
            /\ fitting = Idle /\ orphan = Idle /\ term = Idle /\ last = Idle
            /\ sizeCalls = Idle /\ pty = Idle /\ sizeEvents = Idle
            /\ layouts = Idle /\ sizeAstray = Idle /\ untold = Idle
  /\ IF part = "marks"
       THEN Sm!Init
       ELSE /\ shell = Idle /\ at = Idle /\ cmd = Idle /\ failed = Idle
            /\ complaint = Idle /\ lastEntered = Idle /\ forError = Idle
            /\ pending = Idle /\ running = Idle /\ executing = Idle
            /\ integrated = Idle /\ error = Idle /\ marksEntries = Idle
            /\ marksAstray = Idle /\ marksMounted = Idle /\ untracked = Idle
  /\ IF part = "silence"
       THEN Si!Init
       ELSE /\ now = Idle /\ front = Idle /\ awaited = Idle /\ left = Idle
            /\ lastOutput = Idle /\ notified = Idle /\ timer = Idle
            /\ grace = Idle /\ badge = Idle /\ alerted = Idle /\ seen = Idle
            /\ direct = Idle
  /\ TypingInit
  /\ IF part = "help"
       THEN Ah!Init
       ELSE /\ commandError = Idle /\ failures = Idle /\ showErrorPopup = Idle
            /\ popup = Idle /\ explains = Idle /\ tasks = Idle
            /\ killed = Idle /\ taskCount = Idle /\ aiEntries = Idle
            /\ expanded = Idle /\ leftEarly = Idle /\ reloaded = Idle
  /\ IF part = "history"
       THEN Ch!ChInit
       ELSE /\ chDisk = Idle /\ chDiskFavs = Idle /\ chEntries = Idle
            /\ chFavs = Idle /\ chLoaded = Idle /\ chLoads = Idle
            /\ chCalls = Idle /\ chAnswers = Idle /\ chSearch = Idle
            /\ chStale = Idle /\ chActs = Idle /\ chFaults = Idle

tbVars == <<server, tabsBorn, tabsCalls, replies, broadcasts, tabs,
            tabsActive, focus, ops, latest, overtaken>>
wlVars == <<entry, webglEntries, loads, addons, webglBorn, current>>
gaVars == <<pages, slots, glyphs, shown>>
szVars == <<room, mounted, made, observed, fitting, orphan, term, last,
            sizeCalls, pty, sizeEvents, layouts, sizeAstray, untold>>
smVars == <<shell, at, cmd, failed, complaint, lastEntered, forError,
            pending, running, executing, integrated, error, marksEntries,
            marksAstray, marksMounted, untracked>>
siVars == <<now, front, awaited, left, lastOutput, notified, timer, grace,
            badge, alerted, seen, direct>>
ahVars == <<commandError, failures, showErrorPopup, popup, explains, tasks,
            killed, taskCount, aiEntries, expanded, leftEarly, reloaded>>
chVars == <<chDisk, chDiskFavs, chEntries, chFavs, chLoaded, chLoads,
            chCalls, chAnswers, chSearch, chStale, chActs, chFaults>>
vars == <<part, tbVars, wlVars, gaVars, szVars, smVars, siVars, ibVars,
          miVars, wiVars, acVars, ahVars, chVars>>

Next ==
  /\ TypingNext
  /\ IF part = "tabs" THEN Tb!Next ELSE UNCHANGED tbVars
  /\ IF part = "webgl" THEN Wl!Next ELSE UNCHANGED wlVars
  /\ IF part = "atlas" THEN Ga!Next ELSE UNCHANGED gaVars
  /\ IF part = "size" THEN Sz!Next ELSE UNCHANGED szVars
  /\ IF part = "marks" THEN Sm!Next ELSE UNCHANGED smVars
  /\ IF part = "silence" THEN Si!Next ELSE UNCHANGED siVars
  /\ IF part = "help" THEN Ah!Next ELSE UNCHANGED ahVars
  /\ IF part = "history" THEN Ch!ChNext ELSE UNCHANGED chVars

Spec == Init /\ [][Next]_vars

-----------------------------------------------------------------------------
(* One type invariant for each component.                                    *)
TypeOK ==
  /\ TypingTypeOK
  /\ part = "tabs" => Tb!TypeOK
  /\ part = "webgl" => Wl!TypeOK
  /\ part = "atlas" => Ga!TypeOK
  /\ part = "size" => Sz!TypeOK
  /\ part = "marks" => Sm!TypeOK
  /\ part = "silence" => Si!TypeOK
  /\ part = "help" => Ah!TypeOK
  /\ part = "history" => Ch!ChTypeOK

(* However lists, broadcasts and answers cross, the tabs end up being the     *)
(* server's sessions, and one of them is shown (useIpcSetup.ts 206-244).      *)
TabsFollowTheServer ==
  part = "tabs" => Tb!CatchUpUnlessOvertaken /\ Tb!ATabIsShown

(* What draws the terminals is theirs and current: no WebGL addon on a        *)
(* terminal that is gone, no texture older than its glyphs, no pane whose     *)
(* PTY, terminal and container disagree on the size once all is quiet         *)
(* (terminalRegistry.ts 295-445, useTerminalSetup.ts).                        *)
RenderersAreCurrent ==
  /\ part = "webgl" => Wl!NoAddonOnTheGone
  /\ part = "atlas" => Ga!FreshTextures
  /\ part = "size" => Sz!SizesAgree

(* What the user is told later is true: an alert is for output nobody saw, an *)
(* AI task whose popup went away is not left running in the list, the history *)
(* holds the commands that succeeded and its stars are those of the file      *)
(* (silenceDetector.ts, aiHistoryStore.ts, commandTracker.ts,                 *)
(* historyStore.ts).                                                          *)
TheUserIsToldTheTruth ==
  /\ part = "silence" => Si!AlertsOnlyUnseen
  /\ part = "help" => Ah!TasksAreSettled
  /\ part = "marks" => Sm!HistoryHoldsSuccesses
  /\ part = "history" => Ch!StarsAreThoseOfTheFile

(***************************************************************************)
(* Theorems                                                                *)
(***************************************************************************)
\* The bounds on the terminals of a pane and on their addons are numbers.
ASSUME AddonAssumption == MaxEntries \in Nat /\ MaxAddons \in Nat /\ Retries \in Nat
\* Pages are merged only where there are two of them.
ASSUME PageAssumption == MaxPages \in Nat \ {0, 1} /\ MaxGlyphs \in Nat
\* There is a size, and the bound on the layouts is a number.
ASSUME SizeAssumption == MaxSize \in Nat \ {0, 1} /\ MaxLayouts \in Nat

\* A step of each part, or none of it.
TabsNext == [Tb!Next]_tbVars
WebglNext == [Wl!Next]_wlVars
AtlasNext == [Ga!Next]_gaVars
SizeNext == [Sz!Next]_szVars
MarksNext == [Sm!Next]_smVars
SilenceNext == [Si!Next]_siVars
HelpNext == [Ah!Next]_ahVars
HistoryNext == [Ch!ChNext]_chVars

\* A step is a step of the part that runs.
LEMMA PartsStep ==
  ASSUME [Next]_vars
  PROVE  /\ part' = part
         /\ part = "tabs" => TabsNext
         /\ part = "webgl" => WebglNext
         /\ part = "atlas" => AtlasNext
         /\ part = "size" => SizeNext
         /\ part = "marks" => MarksNext
         /\ part = "silence" => SilenceNext
         /\ part = "help" => HelpNext
         /\ part = "history" => HistoryNext
  BY DEF Next, TypingNext, vars, TabsNext, WebglNext, AtlasNext, SizeNext, MarksNext, SilenceNext,
         HelpNext, HistoryNext

-----------------------------------------------------------------------------
\* Every addon is on the terminal that is registered.
AddonsAreHere == Wl!NoAddonOnTheGone /\ (entry = 0 => addons = {})

\* Every step of the loader leaves the addons on the terminal that is there.
LEMMA WebglStep ==
  ASSUME AddonsAreHere, Wl!TypeOK, WebglNext
  PROVE  AddonsAreHere'
<1>. USE DEF AddonsAreHere, Wl!NoAddonOnTheGone
<1>1. CASE Wl!Create
  BY <1>1 DEF Wl!Create, Wl!TypeOK
<1>2. CASE Wl!Dispose
  BY <1>2 DEF Wl!Dispose
<1>3. CASE Wl!Recover
  BY <1>3 DEF Wl!Recover
<1>4. ASSUME NEW l \in loads, Wl!Load(l)
      PROVE AddonsAreHere'
  BY <1>4 DEF Wl!Load, Wl!Attach, Wl!TypeOK
<1>5. ASSUME NEW a \in addons, Wl!LoseContext(a)
      PROVE AddonsAreHere'
  BY <1>5 DEF Wl!LoseContext
<1>6. CASE UNCHANGED wlVars
  BY <1>6 DEF wlVars
<1>. QED
  BY <1>1, <1>2, <1>3, <1>4, <1>5, <1>6 DEF WebglNext, Wl!Next

\* Its types are kept.
LEMMA WebglTypes ==
  ASSUME Wl!TypeOK, WebglNext
  PROVE  Wl!TypeOK'
<1>. USE AddonAssumption DEF Wl!TypeOK, Wl!Addon, Wl!Recovered
<1>1. CASE Wl!Create
  BY <1>1 DEF Wl!Create
<1>2. CASE Wl!Dispose
  BY <1>2 DEF Wl!Dispose
<1>3. CASE Wl!Recover
  BY <1>3 DEF Wl!Recover
<1>4. ASSUME NEW l \in loads, Wl!Load(l)
      PROVE Wl!TypeOK'
  <2>1. /\ entry \in Nat /\ webglEntries \in Nat /\ webglBorn \in Nat /\ l.entry \in Nat
        /\ l.retry \in 0..Retries
    BY <1>4
  <2>2. loads' = loads \ {l} /\ UNCHANGED <<entry, webglEntries>>
    BY <1>4 DEF Wl!Load
  <2>3. CASE UNCHANGED <<addons, webglBorn, current>>
    BY <2>2, <2>3
  <2>4. CASE Wl!Attach(l.entry, l.retry)
    BY <1>4, <2>1, <2>2, <2>4 DEF Wl!Attach
  <2>. QED
    BY <1>4, <2>3, <2>4 DEF Wl!Load
<1>5. ASSUME NEW a \in addons, Wl!LoseContext(a)
      PROVE Wl!TypeOK'
  BY <1>5 DEF Wl!LoseContext
<1>6. CASE UNCHANGED wlVars
  BY <1>6 DEF wlVars
<1>. QED
  BY <1>1, <1>2, <1>3, <1>4, <1>5, <1>6 DEF WebglNext, Wl!Next

-----------------------------------------------------------------------------
Page == [content : Nat, version : Nat]
Slot == [content : Nat, version : Nat \cup {-1}]
\* Uploads of an older version than the page's, or of the page itself.
Behind(slot, page) ==
  /\ slot.version <= page.version
  /\ slot.version = page.version => slot.content = page.content
\* What is uploaded of a page is older than the page or the page; where there is no
\* page, nothing that could be taken for one.
UploadsAreBehind(ss, ps) ==
  /\ ps \in Seq(Page) /\ Len(ps) \in 1..MaxPages
  /\ ss \in [Terms -> [1..MaxPages -> Slot]]
  /\ \A t \in Terms : \A i \in 1..MaxPages :
       IF i \in 1..Len(ps) THEN Behind(ss[t][i], ps[i]) ELSE ss[t][i].version = -1
AtlasTypes == glyphs \in 0..MaxGlyphs /\ shown \in [Terms -> [sampled : Seq(Nat), there : Seq(Nat)]]
AtlasInv == AtlasTypes /\ UploadsAreBehind(slots, pages) /\ Ga!FreshTextures

\* A terminal whose uploads are behind has the pages' contents once it has drawn a
\* frame; the others stay behind.
LEMMA FrameDrawn ==
  ASSUME NEW t \in Terms, NEW ps, NEW ss, UploadsAreBehind(ss, ps), Ga!FreshTextures, AtlasTypes,
         Ga!Frame(t, ps, ss)
  PROVE  /\ UploadsAreBehind(slots', pages') /\ Ga!FreshTextures'
         /\ shown' \in [Terms -> [sampled : Seq(Nat), there : Seq(Nat)]]
<1>. DEFINE up == Ga!Uploaded(ss[t], ps)
            sampled == [i \in DOMAIN ps |-> up[i].content]
            there == [i \in DOMAIN ps |-> ps[i].content]
<1>1. /\ ps \in Seq(Page) /\ Len(ps) \in 1..MaxPages /\ DOMAIN ps = 1..Len(ps) /\ Len(ps) \in Nat
      /\ DOMAIN ps \subseteq 1..MaxPages
  BY PageAssumption DEF UploadsAreBehind
<1>2. \A i \in DOMAIN ps : ps[i] \in Page
  BY <1>1
<1>3. ss[t] \in [1..MaxPages -> Slot]
  BY DEF UploadsAreBehind
<1>4. up = [i \in 1..MaxPages |-> IF i \in DOMAIN ps /\ ss[t][i].version # ps[i].version THEN ps[i] ELSE ss[t][i]]
  BY DEF Ga!Uploaded, Ga!Places
<1>5. \A i \in DOMAIN ps : up[i] \in Slot /\ up[i].content = ps[i].content /\ up[i].version = ps[i].version
  <2>. SUFFICES ASSUME NEW i \in DOMAIN ps
                PROVE  up[i] \in Slot /\ up[i].content = ps[i].content /\ up[i].version = ps[i].version
    OBVIOUS
  <2>1. i \in 1..MaxPages /\ Behind(ss[t][i], ps[i]) /\ ss[t][i] \in Slot /\ ps[i] \in Page
    BY <1>1, <1>2, <1>3 DEF UploadsAreBehind
  <2>2. ps[i] \in Slot
    BY <2>1 DEF Page, Slot
  <2>. QED
    BY <1>4, <2>1, <2>2 DEF Behind
<1>6. \A i \in 1..MaxPages : i \notin DOMAIN ps => up[i] = ss[t][i]
  BY <1>4
<1>7. sampled = there
  BY <1>5
<1>8. sampled \in Seq(Nat)
  <2>1. \A i \in 1..Len(ps) : ps[i].content \in Nat
    BY <1>1, <1>2 DEF Page
  <2>2. there \in [1..Len(ps) -> Nat]
    BY <1>1, <2>1
  <2>. QED
    BY <1>1, <1>7, <2>2
<1>9. up \in [1..MaxPages -> Slot]
  BY <1>3, <1>4, <1>5, <1>6
<1>10. /\ pages' = ps /\ slots' = [ss EXCEPT ![t] = up]
       /\ shown' = [shown EXCEPT ![t] = [sampled |-> sampled, there |-> there]]
  BY DEF Ga!Frame
<1>11. Ga!FreshTextures'
  <2>. HIDE DEF sampled, there, up
  <2>. QED
    BY <1>7, <1>10 DEF Ga!FreshTextures, AtlasTypes
<1>12. shown' \in [Terms -> [sampled : Seq(Nat), there : Seq(Nat)]]
  <2>. HIDE DEF sampled, there, up
  <2>. QED
    BY <1>7, <1>8, <1>10 DEF AtlasTypes
<1>13. \A i \in DOMAIN ps : Behind(up[i], ps[i])
  BY <1>2, <1>5 DEF Behind, Page
<1>14. slots' \in [Terms -> [1..MaxPages -> Slot]]
  <2>. HIDE DEF up
  <2>. QED
    BY <1>9, <1>10 DEF UploadsAreBehind
<1>15. ASSUME NEW u \in Terms, NEW i \in 1..MaxPages
       PROVE  IF i \in 1..Len(ps) THEN Behind(slots'[u][i], ps[i]) ELSE slots'[u][i].version = -1
  <2>. HIDE DEF up
  <2>1. slots'[u] = IF u = t THEN up ELSE ss[u]
    BY <1>10 DEF UploadsAreBehind
  <2>2. IF i \in 1..Len(ps) THEN Behind(ss[u][i], ps[i]) ELSE ss[u][i].version = -1
    BY DEF UploadsAreBehind
  <2>. QED
    BY <1>1, <1>6, <1>13, <2>1, <2>2
<1>. QED
  <2>. HIDE DEF up
  <2>1. UploadsAreBehind(slots', pages')
    BY <1>1, <1>10, <1>14, <1>15 DEF UploadsAreBehind
  <2>. QED
    BY <2>1, <1>11, <1>12

\* What is behind a page is behind what is drawn into it.
LEMMA DrawnInto ==
  ASSUME NEW slot \in Slot, NEW p \in Page, NEW g \in Nat, Behind(slot, p)
  PROVE  Ga!Drawn(p, g) \in Page /\ Behind(slot, Ga!Drawn(p, g))
BY DEF Behind, Slot, Page, Ga!Drawn

\* A sequence without its last element.
LEMMA ShortenedSeq ==
  ASSUME NEW S, NEW s \in Seq(S), Len(s) > 0
  PROVE  /\ SubSeq(s, 1, Len(s) - 1) \in Seq(S) /\ Len(SubSeq(s, 1, Len(s) - 1)) = Len(s) - 1
         /\ \A i \in 1..(Len(s) - 1) : SubSeq(s, 1, Len(s) - 1)[i] = s[i]
<1>1. Len(s) - 1 \in Nat
  OBVIOUS
<1>. DEFINE m == Len(s) - 1
<1>2. SubSeq(s, 1, m) = [i \in 1..m |-> s[i]]
  BY <1>1
<1>3. \A i \in 1..m : s[i] \in S
  BY <1>1
<1>4. [i \in 1..m |-> s[i]] \in Seq(S) /\ Len([i \in 1..m |-> s[i]]) = m
  BY <1>1, <1>3
<1>. QED
  BY <1>2, <1>4

\* A glyph drawn into the last page, or into a new one.
LEMMA GlyphDrawn ==
  ASSUME NEW ps, NEW ss, UploadsAreBehind(ss, ps), NEW g \in Nat
  PROVE  /\ UploadsAreBehind(ss, Ga!WithGlyph(ps, g))
         /\ Len(ps) < MaxPages => UploadsAreBehind(ss, Ga!WithPage(ps, g))
<1>1. /\ ps \in Seq(Page) /\ Len(ps) \in 1..MaxPages /\ Len(ps) \in Nat
      /\ ss \in [Terms -> [1..MaxPages -> Slot]]
  BY PageAssumption DEF UploadsAreBehind
<1>2. \A i \in 1..Len(ps) : ps[i] \in Page
  BY <1>1
<1>3. ASSUME NEW t \in Terms, NEW i \in 1..MaxPages
      PROVE  /\ ss[t][i] \in Slot
             /\ i \in 1..Len(ps) => Behind(ss[t][i], ps[i])
             /\ i \notin 1..Len(ps) => ss[t][i].version = -1
  BY <1>1 DEF UploadsAreBehind
<1>4. UploadsAreBehind(ss, Ga!WithGlyph(ps, g))
  <2>. DEFINE n == Len(ps)
              qs == Ga!WithGlyph(ps, g)
              q == Ga!Drawn(ps[n], g)
  <2>1. ps[n] \in Page
    BY <1>1, <1>2
  <2>2. q \in Page
    BY <2>1 DEF Ga!Drawn, Page
  <2>3. /\ SubSeq(ps, 1, n - 1) \in Seq(Page) /\ Len(SubSeq(ps, 1, n - 1)) = n - 1
        /\ \A i \in 1..(n - 1) : SubSeq(ps, 1, n - 1)[i] = ps[i]
    BY <1>1, ShortenedSeq
  <2>4. qs = Append(SubSeq(ps, 1, n - 1), q)
    BY DEF Ga!WithGlyph, Ga!Front, Ga!Last
  <2>5. qs \in Seq(Page) /\ Len(qs) = n /\ qs[n] = q /\ \A i \in 1..(n - 1) : qs[i] = ps[i]
    <3>. HIDE DEF qs, q
    <3>. QED
      BY <1>1, <2>2, <2>3, <2>4
  <2>6. ASSUME NEW t \in Terms, NEW i \in 1..MaxPages
        PROVE  IF i \in 1..Len(qs) THEN Behind(ss[t][i], qs[i]) ELSE ss[t][i].version = -1
    <3>1. CASE i \notin 1..n
      BY <3>1, <2>5, <1>3
    <3>2. CASE i = n
      <4>1. Behind(ss[t][n], ps[n]) /\ ss[t][n] \in Slot
        BY <3>2, <1>1, <1>3
      <4>2. Behind(ss[t][n], q)
        BY <4>1, <2>1, DrawnInto
      <4>. QED
        BY <3>2, <4>2, <2>5, <1>1
    <3>3. CASE i \in 1..(n - 1)
      <4>. HIDE DEF qs, q
      <4>. QED
        BY <3>3, <2>5, <1>3, <1>1
    <3>. QED
      BY <3>1, <3>2, <3>3, <1>1
  <2>. QED
    <3>. HIDE DEF qs, q
    <3>1. UploadsAreBehind(ss, qs)
      BY <1>1, <2>5, <2>6 DEF UploadsAreBehind
    <3>. QED
      BY <3>1 DEF qs
<1>5. ASSUME Len(ps) < MaxPages PROVE UploadsAreBehind(ss, Ga!WithPage(ps, g))
  <2>. DEFINE n == Len(ps)
              qs == Ga!WithPage(ps, g)
              q == Ga!Drawn(Ga!Empty, g)
  <2>1. q \in Page /\ q.version = 1
    BY DEF Ga!Drawn, Ga!Empty, Page
  <2>2. qs = Append(ps, q)
    BY DEF Ga!WithPage
  <2>3. qs \in Seq(Page) /\ Len(qs) = n + 1 /\ qs[n + 1] = q /\ \A i \in 1..n : qs[i] = ps[i]
    <3>. HIDE DEF qs, q
    <3>. QED
      BY <1>1, <2>1, <2>2
  <2>4. ASSUME NEW t \in Terms, NEW i \in 1..MaxPages
        PROVE  IF i \in 1..Len(qs) THEN Behind(ss[t][i], qs[i]) ELSE ss[t][i].version = -1
    <3>. HIDE DEF qs, q
    <3>1. CASE i = n + 1
      <4>1. ss[t][i].version = -1
        BY <3>1, <1>1, <1>3
      <4>2. Behind(ss[t][i], q)
        BY <4>1, <2>1 DEF Behind
      <4>. QED
        BY <3>1, <4>2, <2>3, <1>1
    <3>2. CASE i # n + 1
      BY <3>2, <2>3, <1>3, <1>1
    <3>. QED
      BY <3>1, <3>2
  <2>. QED
    <3>. HIDE DEF qs, q
    <3>1. Len(qs) \in 1..MaxPages
      BY <1>1, <1>5, <2>3, PageAssumption
    <3>2. UploadsAreBehind(ss, qs)
      BY <1>1, <2>3, <2>4, <3>1 DEF UploadsAreBehind
    <3>. QED
      BY <3>2 DEF qs
<1>. QED
  BY <1>4, <1>5

\* Uploads that are invalidated are behind whatever is there.
LEMMA InvalidatedIsBehind ==
  ASSUME NEW s \in [1..MaxPages -> Slot]
  PROVE  /\ Ga!Invalidated(s) \in [1..MaxPages -> Slot]
         /\ \A i \in 1..MaxPages : Ga!Invalidated(s)[i].version = -1
<1>1. \A i \in 1..MaxPages : [s[i] EXCEPT !.version = -1] \in Slot /\ [s[i] EXCEPT !.version = -1].version = -1
  BY DEF Slot
<1>2. Ga!Invalidated(s) = [i \in 1..MaxPages |-> [s[i] EXCEPT !.version = -1]]
  BY DEF Ga!Invalidated, Ga!Places, Ga!Stale
<1>. QED
  BY <1>1, <1>2

\* Every step of the atlas leaves a frame with what is there.
LEMMA AtlasStep ==
  ASSUME AtlasInv, AtlasNext
  PROVE  AtlasInv'
<1>. USE DEF AtlasInv
<1>1. glyphs \in Nat /\ MaxGlyphs \in Nat
  BY PageAssumption DEF AtlasTypes
<1>2. ASSUME NEW t \in Terms, Ga!Redraw(t)
      PROVE  AtlasInv'
  BY <1>2, FrameDrawn DEF Ga!Redraw, AtlasTypes
<1>3. ASSUME NEW t \in Terms, Ga!DrawGlyph(t)
      PROVE  AtlasInv'
  <2>1. glyphs' = glyphs + 1 /\ glyphs' \in 0..MaxGlyphs /\ glyphs' \in Nat
    BY <1>1, <1>3 DEF Ga!DrawGlyph
  <2>2. PICK ps : /\ ps = Ga!WithGlyph(pages, glyphs') \/ (Len(pages) < MaxPages /\ ps = Ga!WithPage(pages, glyphs'))
                  /\ Ga!Frame(t, ps, slots)
    BY <1>3 DEF Ga!DrawGlyph
  <2>3. UploadsAreBehind(slots, ps)
    BY <2>1, <2>2, GlyphDrawn
  <2>. QED
    BY <2>1, <2>2, <2>3, FrameDrawn DEF AtlasTypes
<1>4. ASSUME NEW t \in Terms, Ga!MergePages(t)
      PROVE  AtlasInv'
  <2>1. glyphs' = glyphs + 1 /\ glyphs' \in 0..MaxGlyphs /\ glyphs' \in Nat
    BY <1>1, <1>4 DEF Ga!MergePages
  <2>. DEFINE ss == [u \in Terms |-> Ga!Invalidated(slots[u])]
              ps == Ga!Merged(pages, glyphs')
  <2>2. Ga!Frame(t, ps, ss)
    BY <1>4 DEF Ga!MergePages
  <2>3. slots \in [Terms -> [1..MaxPages -> Slot]] /\ pages \in Seq(Page) /\ Len(pages) = MaxPages
    BY <1>4 DEF Ga!MergePages, UploadsAreBehind
  <2>4. ASSUME NEW u \in Terms
        PROVE  ss[u] \in [1..MaxPages -> Slot] /\ \A i \in 1..MaxPages : ss[u][i].version = -1
    BY <2>3, InvalidatedIsBehind
  <2>5. ss \in [Terms -> [1..MaxPages -> Slot]]
    BY <2>4
  <2>6. ps \in Seq(Page) /\ Len(ps) = MaxPages - 1
    <3>. DEFINE q == [content |-> glyphs', version |-> 1]
    <3>1. q \in Page
      BY <2>1 DEF Page
    <3>2. Tail(pages) \in Seq(Page) /\ Len(Tail(pages)) = MaxPages - 1
      BY <2>3, PageAssumption
    <3>3. Tail(Tail(pages)) \in Seq(Page) /\ Len(Tail(Tail(pages))) = MaxPages - 2
      <4>. DEFINE rest == Tail(pages)
      <4>1. rest \in Seq(Page) /\ Len(rest) = MaxPages - 1 /\ MaxPages - 1 > 0
        BY <3>2, PageAssumption
      <4>. HIDE DEF rest
      <4>2. Tail(rest) \in Seq(Page) /\ Len(Tail(rest)) = MaxPages - 2
        <5>1. rest # <<>>
          BY <4>1
        <5>. QED
          BY <4>1, <5>1, PageAssumption
      <4>. QED
        BY <4>2 DEF rest
    <3>. HIDE DEF q
    <3>4. Append(Tail(Tail(pages)), q) \in Seq(Page) /\ Len(Append(Tail(Tail(pages)), q)) = MaxPages - 1
      BY <3>1, <3>3, PageAssumption
    <3>. QED
      BY <3>4 DEF Ga!Merged, q
  <2>. HIDE DEF ss, ps
  <2>7. ASSUME NEW u \in Terms, NEW i \in 1..MaxPages
        PROVE  IF i \in 1..Len(ps) THEN Behind(ss[u][i], ps[i]) ELSE ss[u][i].version = -1
    <3>1. ss[u][i].version = -1
      BY <2>4
    <3>2. i \in 1..Len(ps) => ps[i] \in Page
      BY <2>6
    <3>. QED
      BY <3>1, <3>2 DEF Behind, Page
  <2>8. UploadsAreBehind(ss, ps)
    BY <2>5, <2>6, <2>7, PageAssumption DEF UploadsAreBehind
  <2>. QED
    BY <2>1, <2>2, <2>8, FrameDrawn DEF AtlasTypes
<1>5. ASSUME NEW t \in Terms, Ga!Recover(t)
      PROVE  AtlasInv'
  <2>1. glyphs' = glyphs + 1 /\ glyphs' \in 0..MaxGlyphs /\ glyphs' \in Nat /\ shown' = shown
    BY <1>1, <1>5 DEF Ga!Recover
  <2>2. /\ pages \in Seq(Page) /\ Len(pages) \in 1..MaxPages /\ Len(pages) \in Nat
        /\ DOMAIN pages = 1..Len(pages) /\ slots \in [Terms -> [1..MaxPages -> Slot]]
    BY PageAssumption DEF UploadsAreBehind
  <2>3. pages' = [i \in 1..Len(pages) |-> Ga!Drawn(pages[i], glyphs')]
    BY <2>2, <1>5 DEF Ga!Recover
  <2>4. slots' = [slots EXCEPT ![t] = Ga!Invalidated(slots[t])]
    BY <1>5 DEF Ga!Recover
  <2>5. \A i \in 1..Len(pages) : pages[i] \in Page
    BY <2>2
  <2>6. \A i \in 1..Len(pages) : Ga!Drawn(pages[i], glyphs') \in Page
    BY <2>1, <2>5 DEF Page, Ga!Drawn
  <2>7. pages' \in Seq(Page) /\ Len(pages') = Len(pages)
    BY <2>2, <2>3, <2>6
  <2>8. slots[t] \in [1..MaxPages -> Slot] /\ Ga!Invalidated(slots[t]) \in [1..MaxPages -> Slot]
        /\ \A i \in 1..MaxPages : Ga!Invalidated(slots[t])[i].version = -1
    BY <2>2, InvalidatedIsBehind
  <2>9. slots' \in [Terms -> [1..MaxPages -> Slot]]
    BY <2>2, <2>4, <2>8
  <2>10. ASSUME NEW u \in Terms, NEW i \in 1..MaxPages
         PROVE  IF i \in 1..Len(pages') THEN Behind(slots'[u][i], pages'[i]) ELSE slots'[u][i].version = -1
    <3>1. CASE u = t
      <4>1. slots'[u][i].version = -1
        BY <2>2, <2>4, <2>8, <3>1
      <4>2. i \in 1..Len(pages') => pages'[i] \in Page
        BY <2>3, <2>6, <2>7
      <4>. QED
        BY <4>1, <4>2 DEF Behind, Page
    <3>2. CASE u # t
      <4>1. slots'[u][i] = slots[u][i] /\ slots[u][i] \in Slot
        BY <2>2, <2>4, <3>2
      <4>2. IF i \in 1..Len(pages) THEN Behind(slots[u][i], pages[i]) ELSE slots[u][i].version = -1
        BY DEF UploadsAreBehind
      <4>3. i \in 1..Len(pages) => Behind(slots[u][i], Ga!Drawn(pages[i], glyphs'))
        BY <4>1, <4>2, <2>1, <2>5, DrawnInto
      <4>. QED
        BY <4>1, <4>2, <4>3, <2>3, <2>7
    <3>. QED
      BY <3>1, <3>2
  <2>11. UploadsAreBehind(slots', pages')
    BY <2>2, <2>7, <2>9, <2>10 DEF UploadsAreBehind
  <2>. QED
    BY <2>1, <2>11 DEF AtlasTypes, Ga!FreshTextures
<1>6. ASSUME NEW T \in SUBSET Terms, Ga!Refresh(T)
      PROVE  AtlasInv'
  <2>1. UNCHANGED <<pages, glyphs, shown>>
        /\ slots' = [t \in Terms |-> IF t \in T THEN Ga!Invalidated(slots[t]) ELSE slots[t]]
    BY <1>6 DEF Ga!Refresh
  <2>2. pages \in Seq(Page) /\ Len(pages) \in 1..MaxPages /\ slots \in [Terms -> [1..MaxPages -> Slot]]
    BY DEF UploadsAreBehind
  <2>3. ASSUME NEW u \in Terms
        PROVE  /\ slots'[u] \in [1..MaxPages -> Slot]
               /\ slots'[u] = slots[u] \/ \A i \in 1..MaxPages : slots'[u][i].version = -1
    BY <2>1, <2>2, InvalidatedIsBehind
  <2>4. slots' \in [Terms -> [1..MaxPages -> Slot]]
    <3>1. slots' = [u \in Terms |-> slots'[u]]
      BY <2>1
    <3>. QED
      BY <2>3, <3>1
  <2>5. ASSUME NEW u \in Terms, NEW i \in 1..MaxPages
        PROVE  IF i \in 1..Len(pages) THEN Behind(slots'[u][i], pages[i]) ELSE slots'[u][i].version = -1
    <3>1. IF i \in 1..Len(pages) THEN Behind(slots[u][i], pages[i]) ELSE slots[u][i].version = -1
      BY DEF UploadsAreBehind
    <3>2. i \in 1..Len(pages) => pages[i] \in Page
      BY <2>2
    <3>. QED
      BY <2>3, <3>1, <3>2 DEF Behind, Page
  <2>6. UploadsAreBehind(slots', pages')
    BY <2>1, <2>2, <2>4, <2>5 DEF UploadsAreBehind
  <2>. QED
    BY <2>1, <2>6 DEF AtlasTypes, Ga!FreshTextures
<1>7. CASE UNCHANGED gaVars
  BY <1>7 DEF gaVars, AtlasTypes, UploadsAreBehind, Ga!FreshTextures
<1>. QED
  BY <1>2, <1>3, <1>4, <1>5, <1>6, <1>7 DEF AtlasNext, Ga!Next

-----------------------------------------------------------------------------
\* The size the PTY has when every call has been served.
ToldOf(cs, p) == IF cs = <<>> THEN p ELSE cs[Len(cs)]
\* A PTY whose size will not change, and tells of none, has the terminal's.
Follows(cs, es, p, t) == es = <<>> /\ (\A i \in 1..Len(cs) : cs[i] = p) => t = p
\* What is announced last is the PTY's size.
LastAnnounced == sizeEvents # <<>> => sizeEvents[Len(sizeEvents)] = pty
FittedIsLast == mounted /\ room > 0 /\ ~observed /\ ~fitting => last = room
SizeInv ==
  /\ Sz!TypeOK /\ {sizeAstray, untold} \subseteq BOOLEAN
  /\ mounted \/ fitting \/ observed => made
  /\ ~made => untold
  /\ LastAnnounced
  /\ ~sizeAstray /\ ~untold =>
       last = ToldOf(sizeCalls, pty) /\ Follows(sizeCalls, sizeEvents, pty, term) /\ FittedIsLast

\* A call at the end is the last one, the first one is not.
LEMMA OneMoreCall ==
  ASSUME NEW cs \in Seq(Sz!Size), NEW r \in Sz!Size, NEW p
  PROVE  /\ Append(cs, r) \in Seq(Sz!Size) /\ ToldOf(Append(cs, r), p) = r
         /\ (\A i \in 1..Len(Append(cs, r)) : Append(cs, r)[i] = p) => r = p
BY DEF ToldOf

(* The first call of several is answered, the others wait.                    *)
LEMMA OneCallLess ==
  ASSUME NEW cs \in Seq(Sz!Size), cs # <<>>, NEW p
  PROVE  /\ Tail(cs) \in Seq(Sz!Size) /\ Head(cs) \in Sz!Size
         /\ ToldOf(Tail(cs), Head(cs)) = ToldOf(cs, p)
         /\ Head(cs) = p /\ (\A i \in 1..Len(Tail(cs)) : Tail(cs)[i] = p) => \A i \in 1..Len(cs) : cs[i] = p
<1>1. /\ Len(cs) \in Nat \ {0} /\ Tail(cs) \in Seq(Sz!Size) /\ Len(Tail(cs)) = Len(cs) - 1 /\ Head(cs) = cs[1]
      /\ \A i \in 1..(Len(cs) - 1) : Tail(cs)[i] = cs[i + 1]
      /\ \A i \in 1..Len(cs) : cs[i] \in Sz!Size
  OBVIOUS
<1>2. ToldOf(Tail(cs), Head(cs)) = ToldOf(cs, p)
  <2>1. CASE Len(cs) = 1
    <3>1. Tail(cs) = <<>>
      <4>1. Len(Tail(cs)) = 0
        BY <1>1, <2>1
      <4>2. \A s \in Seq(Sz!Size) : Len(s) = 0 => s = <<>>
        OBVIOUS
      <4>. QED
        BY <1>1, <4>1, <4>2
    <3>. QED
      BY <1>1, <2>1, <3>1 DEF ToldOf
  <2>2. CASE Len(cs) > 1
    BY <1>1, <2>2 DEF ToldOf
  <2>. QED
    BY <1>1, <2>1, <2>2
<1>3. ASSUME Head(cs) = p, \A i \in 1..Len(Tail(cs)) : Tail(cs)[i] = p, NEW i \in 1..Len(cs)
      PROVE  cs[i] = p
  <2>1. CASE i = 1
    BY <1>1, <1>3, <2>1
  <2>2. CASE i # 1
    <3>1. i - 1 \in 1..(Len(cs) - 1) /\ (i - 1) + 1 = i
      BY <1>1, <2>2
    <3>. QED
      BY <1>1, <1>3, <3>1
  <2>. QED
    BY <2>1, <2>2
<1>. QED
  BY <1>1, <1>2, <1>3

\* Fitting tells a size that is not the one told last, so it is told afterwards.
LEMMA SyncTells ==
  ASSUME NEW old \in 0..MaxSize, Sz!Sync(old), SizeInv, room > 0,
         ~sizeAstray /\ ~untold => old = ToldOf(sizeCalls, pty)
  PROVE  /\ sizeCalls' \in Seq(Sz!Size) /\ term' = room /\ untold' \in BOOLEAN
         /\ ~sizeAstray /\ ~untold' =>
              room = ToldOf(sizeCalls', pty) /\ Follows(sizeCalls', sizeEvents, pty, term')
<1>1. room \in Sz!Size /\ sizeCalls \in Seq(Sz!Size) /\ pty \in Sz!Size /\ Len(sizeCalls) \in Nat
  BY SizeAssumption DEF SizeInv, Sz!TypeOK, Sz!Size
<1>2. CASE room = old
  <2>1. /\ sizeCalls' = sizeCalls /\ untold' = untold /\ term' = room
    BY <1>2 DEF Sz!Sync
  <2>2. ~sizeAstray /\ ~untold /\ (\A i \in 1..Len(sizeCalls) : sizeCalls[i] = pty) => room = pty
    BY <1>1, <1>2 DEF ToldOf
  <2>. QED
    BY <1>1, <1>2, <2>1, <2>2 DEF Follows, SizeInv
<1>3. CASE room # old
  <2>1. sizeCalls' = Append(sizeCalls, room) /\ untold' = FALSE /\ term' = room
    BY <1>3 DEF Sz!Sync
  <2>2. /\ sizeCalls' \in Seq(Sz!Size) /\ ToldOf(sizeCalls', pty) = room
        /\ (\A i \in 1..Len(sizeCalls') : sizeCalls'[i] = pty) => room = pty
    BY <1>1, <2>1, OneMoreCall
  <2>. QED
    BY <2>1, <2>2 DEF Follows
<1>. QED
  BY <1>2, <1>3

\* A terminal that can propose no size tells its own or none.
LEMMA UnmeasuredTells ==
  ASSUME NEW old \in 0..MaxSize, NEW told, Sz!Unmeasured(old, told), SizeInv
  PROVE  /\ sizeCalls' \in Seq(Sz!Size) /\ term' = term /\ untold' \in BOOLEAN
         /\ sizeAstray' = TRUE /\ told \in 0..MaxSize
<1>1. term \in Sz!Size /\ term \in 0..MaxSize /\ sizeCalls \in Seq(Sz!Size) /\ untold \in BOOLEAN
  BY SizeAssumption DEF SizeInv, Sz!TypeOK, Sz!Size
<1>2. Append(sizeCalls, term) \in Seq(Sz!Size)
  BY <1>1, OneMoreCall
<1>. QED
  BY <1>1, <1>2 DEF Sz!Unmeasured

\* Every step of a pane's size keeps it.
LEMMA SizeStep ==
  ASSUME SizeInv, SizeNext
  PROVE  SizeInv'
<1>1. /\ room \in 0..MaxSize /\ room \in Nat /\ MaxSize \in Nat /\ last \in 0..MaxSize /\ term \in Sz!Size /\ pty \in Sz!Size
      /\ mounted \in BOOLEAN /\ made \in BOOLEAN /\ observed \in BOOLEAN /\ fitting \in BOOLEAN
      /\ sizeAstray \in BOOLEAN /\ untold \in BOOLEAN
      /\ orphan \in 0..Sz!NoOrphan
      /\ sizeCalls \in Seq(Sz!Size) /\ sizeEvents \in Seq(Sz!Size)
      /\ Sz!Size = 1..MaxSize
  BY SizeAssumption DEF SizeInv, Sz!TypeOK, Sz!Size
<1>2. CASE Sz!Mount
  <2>. DEFINE old == Sz!ToldAtMount
  <2>1. old \in 0..MaxSize /\ (made => old = term) /\ (~made => old = 0)
    BY <1>1, SizeAssumption DEF Sz!ToldAtMount
  <2>. HIDE DEF old
  <2>2. /\ ~mounted /\ mounted' = TRUE /\ made' = TRUE /\ observed' = TRUE
        /\ room' = room /\ orphan' = orphan /\ pty' = pty /\ sizeEvents' = sizeEvents
    BY <1>2 DEF Sz!Mount
  <2>3. sizeAstray' = Sz!Remounted /\ ~sizeAstray' /\ ~untold => old = ToldOf(sizeCalls, pty) /\ term = pty
    BY <1>1, <2>1, <2>2 DEF SizeInv, ToldOf, Follows, Sz!Remounted
  <2>7. Sz!Remounted \in BOOLEAN
    BY <1>1 DEF Sz!Remounted
  <2>6. ASSUME room > 0, NEW told \in 0..MaxSize, Sz!Unmeasured(old, told), last' = told, fitting' = FALSE
        PROVE  SizeInv'
    <3>1. /\ sizeCalls' \in Seq(Sz!Size) /\ term' = term /\ untold' \in BOOLEAN /\ sizeAstray' = TRUE
      BY <2>1, <2>6, UnmeasuredTells
    <3>2. Sz!TypeOK'
      BY <1>1, <2>2, <2>6, <3>1 DEF Sz!TypeOK
    <3>. QED
      BY <1>1, <2>2, <2>6, <3>1, <3>2 DEF SizeInv, LastAnnounced
  <2>4. CASE room > 0 /\ Sz!Sync(old) /\ last' = room /\ sizeAstray' = Sz!Remounted /\ fitting' = FALSE
    <3>1. Sz!Sync(old) /\ last' = room /\ fitting' = FALSE
      BY <2>4
    <3>2. /\ sizeCalls' \in Seq(Sz!Size) /\ term' = room /\ untold' \in BOOLEAN
          /\ ~sizeAstray' /\ ~untold' => room = ToldOf(sizeCalls', pty) /\ Follows(sizeCalls', sizeEvents, pty, term')
      <4>1. CASE room = old
        <5>1. sizeCalls' = sizeCalls /\ untold' = untold /\ term' = room
          BY <3>1, <4>1 DEF Sz!Sync
        <5>. QED
          BY <1>1, <2>3, <2>4, <4>1, <5>1 DEF Follows, ToldOf
      <4>2. CASE room # old
        <5>1. sizeCalls' = Append(sizeCalls, room) /\ untold' = FALSE /\ term' = room
          BY <3>1, <4>2 DEF Sz!Sync
        <5>2. room \in Sz!Size
          BY <1>1, <2>4
        <5>3. /\ sizeCalls' \in Seq(Sz!Size) /\ ToldOf(sizeCalls', pty) = room
              /\ (\A i \in 1..Len(sizeCalls') : sizeCalls'[i] = pty) => room = pty
          BY <1>1, <5>1, <5>2, OneMoreCall
        <5>. QED
          BY <5>1, <5>3 DEF Follows
      <4>. QED
        BY <4>1, <4>2
    <3>3. term' \in Sz!Size /\ last' \in 0..MaxSize
      BY <1>1, <2>4, <3>1, <3>2
    <3>4. Sz!TypeOK'
      BY <1>1, <2>2, <3>1, <3>2, <3>3 DEF Sz!TypeOK
    <3>. QED
      BY <1>1, <2>2, <2>4, <2>7, <3>1, <3>2, <3>4 DEF SizeInv, LastAnnounced, FittedIsLast
  <2>5. CASE ~(room > 0)
    <3>1. last' = old /\ fitting' = TRUE /\ UNCHANGED <<term, sizeCalls, untold>> /\ sizeAstray' = Sz!Remounted
      BY <1>2, <2>5 DEF Sz!Mount, old
    <3>2. Sz!TypeOK'
      BY <1>1, <2>1, <2>2, <3>1 DEF Sz!TypeOK
    <3>. QED
      BY <1>1, <2>2, <2>3, <2>7, <3>1, <3>2 DEF SizeInv, LastAnnounced, FittedIsLast, Follows
  <2>. QED
    BY <1>2, <2>4, <2>5, <2>6 DEF Sz!Mount, old
<1>3. CASE Sz!Unmount
  <2>1. /\ mounted' = FALSE /\ observed' = FALSE /\ fitting' = FALSE /\ orphan' \in {last, orphan}
        /\ UNCHANGED <<room, made, term, last, sizeCalls, pty, sizeEvents, sizeAstray, untold>>
    BY <1>3 DEF Sz!Unmount
  <2>2. orphan' \in 0..Sz!NoOrphan
    BY <1>1, <2>1 DEF Sz!NoOrphan
  <2>3. Sz!TypeOK'
    BY <1>1, <2>1, <2>2 DEF Sz!TypeOK
  <2>. QED
    BY <2>1, <2>3 DEF SizeInv, LastAnnounced, FittedIsLast
<1>4. CASE Sz!TryFit
  <2>1. /\ fitting /\ fitting' = FALSE
        /\ UNCHANGED <<room, mounted, made, observed, orphan, pty, sizeEvents>>
    BY <1>4 DEF Sz!TryFit
  <2>2. CASE room > 0 /\ Sz!Sync(last) /\ last' = room /\ UNCHANGED sizeAstray
    <3>1. /\ sizeCalls' \in Seq(Sz!Size) /\ term' = room /\ untold' \in BOOLEAN
          /\ ~sizeAstray /\ ~untold' => room = ToldOf(sizeCalls', pty) /\ Follows(sizeCalls', sizeEvents, pty, term')
      BY <1>1, <2>2, SyncTells DEF SizeInv
    <3>2. term' \in Sz!Size /\ last' \in 0..MaxSize
      BY <1>1, <2>2, <3>1
    <3>3. Sz!TypeOK'
      BY <1>1, <2>1, <3>1, <3>2 DEF Sz!TypeOK
    <3>. QED
      BY <1>1, <2>1, <2>2, <3>1, <3>3 DEF SizeInv, LastAnnounced, FittedIsLast
  <2>3. CASE room = 0 /\ UNCHANGED <<term, sizeCalls, untold, last, sizeAstray>>
    <3>1. Sz!TypeOK'
      BY <1>1, <2>1, <2>3 DEF Sz!TypeOK
    <3>. QED
      BY <1>1, <2>1, <2>3, <3>1 DEF SizeInv, LastAnnounced, FittedIsLast
  <2>4. ASSUME NEW told \in 0..MaxSize, Sz!Unmeasured(last, told), last' = told
        PROVE  SizeInv'
    <3>1. /\ sizeCalls' \in Seq(Sz!Size) /\ term' = term /\ untold' \in BOOLEAN /\ sizeAstray' = TRUE
      BY <1>1, <2>4, UnmeasuredTells
    <3>2. Sz!TypeOK'
      BY <1>1, <2>1, <2>4, <3>1 DEF Sz!TypeOK
    <3>. QED
      BY <1>1, <2>1, <2>4, <3>1, <3>2 DEF SizeInv, LastAnnounced
  <2>. QED
    BY <1>4, <2>2, <2>3, <2>4 DEF Sz!TryFit, Sz!FitNow
<1>5. CASE Sz!OrphanFits
  <2>1. UNCHANGED <<room, mounted, made, observed, fitting, last, pty, sizeEvents>> /\ orphan' = Sz!NoOrphan
    BY <1>5 DEF Sz!OrphanFits
  <2>2. orphan' \in 0..Sz!NoOrphan
    BY <1>1, <2>1 DEF Sz!NoOrphan
  <2>3. CASE mounted /\ room > 0 /\ Sz!Sync(orphan) /\ sizeAstray' = TRUE
    <3>1. room \in Sz!Size
      BY <1>1, <2>3
    <3>2. term' = room /\ sizeCalls' \in {sizeCalls, Append(sizeCalls, room)} /\ untold' \in {untold, FALSE}
      BY <2>3 DEF Sz!Sync
    <3>3. sizeCalls' \in Seq(Sz!Size)
      <4>1. Append(sizeCalls, room) \in Seq(Sz!Size)
        BY <1>1, <3>1, OneMoreCall
      <4>. QED
        BY <1>1, <3>2, <4>1
    <3>4. Sz!TypeOK'
      BY <1>1, <2>1, <2>2, <3>1, <3>2, <3>3 DEF Sz!TypeOK
    <3>. QED
      BY <1>1, <2>1, <2>3, <3>2, <3>4 DEF SizeInv, LastAnnounced
  <2>4. CASE UNCHANGED <<term, sizeCalls, untold, sizeAstray>>
    <3>1. Sz!TypeOK'
      BY <1>1, <2>1, <2>2, <2>4 DEF Sz!TypeOK
    <3>. QED
      BY <1>1, <2>1, <2>4, <3>1 DEF SizeInv, LastAnnounced, FittedIsLast
  <2>5. ASSUME mounted, NEW told \in 0..MaxSize, Sz!Unmeasured(orphan, told), orphan # Sz!NoOrphan
        PROVE  SizeInv'
    <3>0. orphan \in 0..MaxSize
      BY <1>1, <2>5 DEF Sz!NoOrphan
    <3>1. /\ sizeCalls' \in Seq(Sz!Size) /\ term' = term /\ untold' \in BOOLEAN /\ sizeAstray' = TRUE
      BY <3>0, <2>5, UnmeasuredTells
    <3>2. Sz!TypeOK'
      BY <1>1, <2>1, <2>2, <3>1 DEF Sz!TypeOK
    <3>. QED
      BY <1>1, <2>1, <2>5, <3>1, <3>2 DEF SizeInv, LastAnnounced
  <2>. QED
    BY <1>5, <2>3, <2>4, <2>5 DEF Sz!OrphanFits
<1>6. CASE Sz!Observe
  <2>1. /\ observed /\ observed' = FALSE
        /\ UNCHANGED <<room, mounted, made, fitting, orphan, pty, sizeEvents>>
    BY <1>6 DEF Sz!Observe
  <2>2. CASE room > 0 /\ Sz!Sync(last) /\ last' = room /\ UNCHANGED sizeAstray
    <3>0. Sz!Sync(last) /\ last' = room
      BY <2>2
    <3>1. /\ sizeCalls' \in Seq(Sz!Size) /\ term' = room /\ untold' \in BOOLEAN
          /\ ~sizeAstray /\ ~untold' => room = ToldOf(sizeCalls', pty) /\ Follows(sizeCalls', sizeEvents, pty, term')
      BY <1>1, <2>2, <3>0, SyncTells DEF SizeInv
    <3>2. term' \in Sz!Size /\ last' \in 0..MaxSize
      BY <1>1, <2>2, <3>0, <3>1
    <3>3. Sz!TypeOK'
      BY <1>1, <2>1, <3>1, <3>2 DEF Sz!TypeOK
    <3>. QED
      BY <1>1, <2>1, <2>2, <3>0, <3>1, <3>3 DEF SizeInv, LastAnnounced, FittedIsLast
  <2>3. CASE room = 0 /\ UNCHANGED <<term, sizeCalls, untold, last, sizeAstray>>
    <3>1. Sz!TypeOK'
      BY <1>1, <2>1, <2>3 DEF Sz!TypeOK
    <3>. QED
      BY <1>1, <2>1, <2>3, <3>1 DEF SizeInv, LastAnnounced, FittedIsLast
  <2>4. ASSUME NEW told \in 0..MaxSize, Sz!Unmeasured(last, told), last' = told
        PROVE  SizeInv'
    <3>1. /\ sizeCalls' \in Seq(Sz!Size) /\ term' = term /\ untold' \in BOOLEAN /\ sizeAstray' = TRUE
      BY <1>1, <2>4, UnmeasuredTells
    <3>2. Sz!TypeOK'
      BY <1>1, <2>1, <2>4, <3>1 DEF Sz!TypeOK
    <3>. QED
      BY <1>1, <2>1, <2>4, <3>1, <3>2 DEF SizeInv, LastAnnounced
  <2>. QED
    BY <1>6, <2>2, <2>3, <2>4 DEF Sz!Observe, Sz!FitNow
<1>7. ASSUME NEW r \in 0..MaxSize, Sz!Layout(r)
      PROVE  SizeInv'
  <2>1. /\ room' = r /\ observed' = mounted
        /\ UNCHANGED <<mounted, made, fitting, orphan, term, last, sizeCalls, pty, sizeEvents, sizeAstray, untold>>
    BY <1>7 DEF Sz!Layout
  <2>2. Sz!TypeOK'
    BY <1>1, <2>1 DEF Sz!TypeOK
  <2>. QED
    BY <1>1, <2>1, <2>2 DEF SizeInv, LastAnnounced, FittedIsLast
<1>8. ASSUME NEW r \in 0..MaxSize, NEW b \in BOOLEAN, Sz!ApplyFont(r, b)
      PROVE  SizeInv'
  <2>1. /\ made /\ mounted /\ r > 0 /\ room' = r /\ term' \in {r, term} /\ untold' = TRUE /\ observed' = (observed \/ b)
        /\ UNCHANGED <<mounted, made, fitting, orphan, last, sizeCalls, pty, sizeEvents, sizeAstray>>
    BY <1>8 DEF Sz!ApplyFont
  <2>2. term' \in Sz!Size
    BY <1>1, <2>1
  <2>3. Sz!TypeOK'
    BY <1>1, <2>1, <2>2 DEF Sz!TypeOK
  <2>. QED
    BY <1>1, <2>1, <2>3 DEF SizeInv, LastAnnounced
<1>9. CASE Sz!ServeResize
  <2>1. /\ sizeCalls # <<>> /\ sizeCalls' = Tail(sizeCalls) /\ pty' = Head(sizeCalls)
        /\ sizeEvents' = IF pty' = pty THEN sizeEvents ELSE Append(sizeEvents, pty')
        /\ UNCHANGED <<room, mounted, made, observed, fitting, orphan, term, last, sizeAstray, untold>>
    BY <1>9 DEF Sz!ServeResize
  <2>2. /\ sizeCalls' \in Seq(Sz!Size) /\ pty' \in Sz!Size
        /\ ToldOf(sizeCalls', pty') = ToldOf(sizeCalls, pty)
        /\ pty' = pty /\ (\A i \in 1..Len(sizeCalls') : sizeCalls'[i] = pty) => \A i \in 1..Len(sizeCalls) : sizeCalls[i] = pty
    BY <1>1, <2>1, OneCallLess
  <2>3. /\ sizeEvents' \in Seq(Sz!Size)
        /\ sizeEvents' = <<>> => pty' = pty /\ sizeEvents = <<>>
    <3>1. CASE pty' = pty
      BY <1>1, <2>1, <3>1
    <3>2. CASE pty' # pty
      <4>1. sizeEvents' = Append(sizeEvents, pty')
        BY <2>1, <3>2
      <4>2. \A e \in Sz!Size : Append(sizeEvents, e) \in Seq(Sz!Size) /\ Append(sizeEvents, e) # <<>>
        BY <1>1
      <4>. QED
        BY <2>2, <4>1, <4>2
    <3>. QED
      BY <3>1, <3>2
  <2>4. LastAnnounced'
    <3>1. CASE pty' = pty
      BY <2>1, <3>1 DEF SizeInv, LastAnnounced
    <3>2. CASE pty' # pty
      BY <1>1, <2>1, <2>2, <3>2 DEF LastAnnounced
    <3>. QED
      BY <3>1, <3>2
  <2>5. Follows(sizeCalls, sizeEvents, pty, term) => Follows(sizeCalls', sizeEvents', pty', term')
    BY <2>1, <2>2, <2>3 DEF Follows
  <2>6. Sz!TypeOK'
    BY <1>1, <2>1, <2>2, <2>3 DEF Sz!TypeOK
  <2>. QED
    BY <2>1, <2>2, <2>4, <2>5, <2>6 DEF SizeInv, FittedIsLast
<1>10. CASE Sz!ResizeFails
  <2>1. /\ sizeCalls # <<>> /\ sizeCalls' = Tail(sizeCalls) /\ sizeAstray' = TRUE
        /\ UNCHANGED <<room, mounted, made, observed, fitting, orphan, term, last, pty, sizeEvents, untold>>
    BY <1>10 DEF Sz!ResizeFails
  <2>2. sizeCalls' \in Seq(Sz!Size)
    BY <1>1, <2>1, OneCallLess
  <2>3. Sz!TypeOK'
    BY <1>1, <2>1, <2>2 DEF Sz!TypeOK
  <2>. QED
    BY <1>1, <2>1, <2>3 DEF SizeInv, LastAnnounced
<1>11. CASE Sz!OnResized
  <2>1. /\ sizeEvents # <<>> /\ sizeEvents' = Tail(sizeEvents)
        /\ term' = IF made THEN Head(sizeEvents) ELSE term
        /\ UNCHANGED <<room, mounted, made, observed, fitting, orphan, last, sizeCalls, pty, sizeAstray, untold>>
    BY <1>11 DEF Sz!OnResized
  <2>2. /\ sizeEvents' \in Seq(Sz!Size) /\ Head(sizeEvents) \in Sz!Size
        /\ sizeEvents' # <<>> => sizeEvents'[Len(sizeEvents')] = sizeEvents[Len(sizeEvents)]
        /\ sizeEvents' = <<>> => Head(sizeEvents) = sizeEvents[Len(sizeEvents)]
    <3>. DEFINE n == Len(sizeEvents)
    <3>1. /\ n \in Nat \ {0} /\ Tail(sizeEvents) \in Seq(Sz!Size) /\ Len(Tail(sizeEvents)) = n - 1
          /\ Head(sizeEvents) = sizeEvents[1] /\ Head(sizeEvents) \in Sz!Size
          /\ \A i \in 1..(n - 1) : Tail(sizeEvents)[i] = sizeEvents[i + 1]
      BY <1>1, <2>1
    <3>2. Tail(sizeEvents) # <<>> => n > 1
      BY <3>1
    <3>3. Tail(sizeEvents) = <<>> => n = 1
      BY <3>1
    <3>4. n > 1 => Tail(sizeEvents)[n - 1] = sizeEvents[n]
      BY <3>1
    <3>. QED
      BY <2>1, <3>1, <3>2, <3>3, <3>4
  <2>3. term' \in Sz!Size
    BY <1>1, <2>1, <2>2
  <2>4. LastAnnounced' /\ (made /\ sizeEvents' = <<>> => term' = pty)
    BY <2>1, <2>2 DEF SizeInv, LastAnnounced
  <2>5. Sz!TypeOK'
    BY <1>1, <2>1, <2>2, <2>3 DEF Sz!TypeOK
  <2>. QED
    BY <1>1, <2>1, <2>4, <2>5 DEF SizeInv, FittedIsLast, Follows
<1>12. CASE UNCHANGED szVars
  BY <1>12 DEF szVars, SizeInv, Sz!TypeOK, LastAnnounced, FittedIsLast
<1>. QED
  BY <1>2, <1>3, <1>4, <1>5, <1>6, <1>7, <1>8, <1>9, <1>10, <1>11, <1>12 DEF SizeNext, Sz!Next

-----------------------------------------------------------------------------
\* What being current rests on.
DrawnInv ==
  /\ part = "webgl" => Wl!TypeOK /\ AddonsAreHere
  /\ part = "atlas" => AtlasInv
  /\ part = "size" => SizeInv

\* It holds at the start.
LEMMA DrawnInit == Init => DrawnInv
<1>. SUFFICES ASSUME Init PROVE DrawnInv
  OBVIOUS
<1>1. ASSUME part = "webgl" PROVE Wl!TypeOK /\ AddonsAreHere
  <2>1. Wl!Init
    BY <1>1 DEF Init
  <2>. QED
    BY <2>1, AddonAssumption DEF Wl!Init, Wl!TypeOK, AddonsAreHere, Wl!NoAddonOnTheGone
<1>2. ASSUME part = "atlas" PROVE AtlasInv
  <2>1. Ga!Init
    BY <1>2 DEF Init
  <2>2. Ga!Empty \in Page /\ <<Ga!Empty>> \in Seq(Page) /\ Len(<<Ga!Empty>>) = 1 /\ 1 \in 1..MaxPages
    BY PageAssumption DEF Ga!Empty, Page
  <2>3. pages = <<Ga!Empty>> /\ pages \in Seq(Page) /\ Len(pages) \in 1..MaxPages /\ Len(pages) = 1 /\ pages[1] = Ga!Empty
    BY <2>1, <2>2 DEF Ga!Init
  <2>4. slots = [t \in Terms |-> [i \in 1..MaxPages |-> [content |-> 0, version |-> -1]]]
    BY <2>1 DEF Ga!Init, Ga!Places, Ga!Stale
  <2>5. [content |-> 0, version |-> -1] \in Slot
    BY DEF Slot
  <2>6. slots \in [Terms -> [1..MaxPages -> Slot]]
    BY <2>4, <2>5
  <2>7. UploadsAreBehind(slots, pages)
    BY <2>3, <2>4, <2>6 DEF UploadsAreBehind, Behind, Ga!Empty
  <2>8. shown = [t \in Terms |-> [sampled |-> <<>>, there |-> <<>>]] /\ glyphs = 0
    BY <2>1 DEF Ga!Init
  <2>. QED
    BY <2>7, <2>8, PageAssumption DEF AtlasInv, AtlasTypes, Ga!FreshTextures
<1>3. ASSUME part = "size" PROVE SizeInv
  <2>1. Sz!Init
    BY <1>3 DEF Init
  <2>2. <<>> \in Seq(Sz!Size) /\ 1 \in Sz!Size /\ 2 \in Sz!Size
    BY SizeAssumption DEF Sz!Size
  <2>3. 0 \in 0..MaxSize /\ Sz!NoOrphan \in 0..Sz!NoOrphan
    BY SizeAssumption DEF Sz!NoOrphan
  <2>4. Sz!TypeOK
    BY <2>1, <2>2, <2>3 DEF Sz!Init, Sz!TypeOK
  <2>. QED
    BY <2>1, <2>4 DEF Sz!Init, SizeInv, LastAnnounced
<1>. QED
  BY <1>1, <1>2, <1>3 DEF DrawnInv

\* What draws the terminals is theirs and current in every reachable state
\* (terminalRegistry.ts 295-445, webglAtlasFix.ts, useTerminalSetup.ts).
THEOREM DrawnTrue == Spec => []RenderersAreCurrent
<1>1. DrawnInv /\ [Next]_vars => DrawnInv'
  BY PartsStep, WebglStep, WebglTypes, AtlasStep, SizeStep DEF DrawnInv
<1>2. DrawnInv => RenderersAreCurrent
  <2>1. SizeInv => Sz!SizesAgree
    BY DEF SizeInv, Sz!SizesAgree, Sz!Settled, ToldOf, Follows, FittedIsLast
  <2>. QED
    BY <2>1 DEF DrawnInv, AddonsAreHere, AtlasInv, RenderersAreCurrent
<1>. QED
  BY DrawnInit, <1>1, <1>2, PTL DEF Spec

-----------------------------------------------------------------------------
\* Neither the absence of a command nor the input of a program is a command.
ASSUME CommandAssumption == MaxCommands \in Nat /\ None \notin Nat /\ Stdin \notin Nat
\* A pane is silent after some time only.
ASSUME SilenceAssumption == Grace \in Nat /\ Threshold \in Nat \ {0} /\ MaxTime \in Nat
\* The bound on the AI's tasks is a number, and some entries are kept.
ASSUME TaskAssumption == MaxTasks \in Nat /\ MAX_ENTRIES \in Nat /\ MaxFailures \in Nat

\* In a shell that reports exit codes, and while no input of a program was taken for a
\* command: a command that the tracker has not lost is pending only while it runs, and is
\* neither failed nor in the history until it has ended.
MarksInv ==
  /\ shell = "posix" /\ ~marksAstray =>
       /\ cmd \in Nat /\ failed \subseteq 1..cmd /\ marksEntries \subseteq 1..cmd
       /\ marksEntries \cap failed \subseteq untracked
       /\ at \in {"entered", "running"} =>
            cmd # 0 /\ cmd \notin failed /\ (cmd \in marksEntries => cmd \in untracked)
       /\ marksMounted /\ lastEntered # None => at = "entered" /\ lastEntered = cmd
       /\ pending # None =>
            pending \in 1..cmd /\ (pending \in untracked \/ (pending = cmd /\ running))
       /\ running => at = "running" /\ marksMounted
       /\ ~marksMounted \/ at = "running" => error = None
       /\ error \in Sm!Command /\ ~complaint => error \in failed \cup untracked

\* Every step of the marks keeps it.
LEMMA MarksStep ==
  ASSUME MarksInv, MarksNext
  PROVE  MarksInv'
<1>. SUFFICES ASSUME shell' = "posix", ~marksAstray' PROVE MarksInv'
  BY DEF MarksInv
<1>. USE DEF MarksInv
<1>1. CASE Sm!Enter
  BY <1>1, CommandAssumption DEF Sm!Enter
<1>2. CASE Sm!EnterNothing
  BY <1>2 DEF Sm!EnterNothing
<1>3. CASE Sm!EnterForProgram
  BY <1>3 DEF Sm!EnterForProgram
<1>4. CASE Sm!CommandStarts
  BY <1>4, CommandAssumption DEF Sm!CommandStarts, Sm!refs, Sm!Command
<1>5. ASSUME NEW ok \in BOOLEAN, NEW p \in {"little", "screenful", "complaint"}, Sm!CommandEnds(ok, p)
      PROVE  MarksInv'
  <2>1. /\ at = "running" /\ at' = "ended" /\ shell = "posix" /\ ~marksAstray
        /\ failed' = IF ok THEN failed ELSE failed \cup {cmd}
        /\ UNCHANGED <<cmd, lastEntered, marksMounted, untracked>>
        /\ IF marksMounted THEN Sm!EndIfRunning(ok)
                           ELSE UNCHANGED <<running, pending, marksEntries, error>>
    BY <1>5 DEF Sm!CommandEnds
  <2>0. cmd \in 1..cmd
    BY <2>1
  <2>2. CASE running
    <3>1. /\ running' = FALSE /\ pending' = None
          /\ marksEntries' = IF pending # None /\ ok THEN marksEntries \cup {pending} ELSE marksEntries
          /\ error' = IF pending # None /\ ~ok THEN pending ELSE error
      BY <2>1, <2>2 DEF Sm!EndIfRunning, Sm!End
    <3>. QED
      BY <2>0, <2>1, <3>1, CommandAssumption DEF Sm!Command
  <2>3. CASE ~running
    <3>1. UNCHANGED <<running, pending, marksEntries, error>>
      BY <2>1, <2>3 DEF Sm!EndIfRunning
    <3>. QED
      BY <2>0, <2>1, <2>3, <3>1, CommandAssumption DEF Sm!Command
  <2>. QED
    BY <2>2, <2>3
<1>6. CASE Sm!PromptStarts
  <2>1. /\ at' = "prompt" /\ at \in {"starting", "ended"} /\ shell = "posix" /\ ~marksAstray
        /\ UNCHANGED <<cmd, failed, complaint, lastEntered, marksMounted, untracked>>
        /\ \/ UNCHANGED <<running, pending, marksEntries, error>>
           \/ /\ marksMounted /\ complaint /\ marksEntries' = marksEntries \ {forError}
              /\ UNCHANGED <<running, pending>>
    BY <1>6 DEF Sm!PromptStarts, Sm!EndIfRunning
  <2>2. CASE UNCHANGED <<running, pending, marksEntries, error>>
    BY <2>1, <2>2 DEF Sm!Command
  <2>3. CASE marksMounted /\ complaint /\ marksEntries' = marksEntries \ {forError} /\ UNCHANGED <<running, pending>>
    BY <2>1, <2>3 DEF Sm!Command
  <2>. QED
    BY <2>1, <2>2, <2>3
<1>7. ASSUME Sm!RemoveCommandState, Sm!Unmount \/ Sm!Rerun
      PROVE  MarksInv'
  <2>1. /\ running' = FALSE /\ error' = None /\ untracked' = untracked \cup ({pending} \ {None})
        /\ UNCHANGED <<shell, at, cmd, failed, complaint, lastEntered, pending, marksEntries, marksAstray>>
        /\ marksMounted' => marksMounted
    BY <1>7 DEF Sm!RemoveCommandState, Sm!Unmount, Sm!Rerun, Sm!svars, Sm!refs
  <2>. QED
    BY <2>1, CommandAssumption DEF Sm!Command
<1>8. CASE Sm!Mount
  BY <1>8 DEF Sm!Mount, Sm!svars
<1>9. CASE Sm!Dismiss
  BY <1>9, CommandAssumption DEF Sm!Dismiss, Sm!svars, Sm!refs, Sm!Command
<1>10. CASE UNCHANGED smVars
  BY <1>10 DEF smVars
<1>. QED
  BY <1>1, <1>2, <1>3, <1>4, <1>5, <1>6, <1>7, <1>8, <1>9, <1>10
     DEF MarksNext, Sm!Next, Sm!Unmount, Sm!Rerun

-----------------------------------------------------------------------------
\* Times are numbers, the rest is of its type.
SilenceTypes ==
  /\ now \in Nat /\ now > 0 /\ front \in Sessions /\ awaited \in Sessions \cup {NoSession}
  /\ left \in [Sessions -> Nat] /\ lastOutput \in [Sessions -> Nat]
  /\ timer \in [Sessions -> Nat] /\ grace \in [Sessions -> Nat]
  /\ alerted \in [Sessions -> Nat]
  /\ notified \in [Sessions -> BOOLEAN] /\ badge \in [Sessions -> BOOLEAN]
  /\ seen \in [Sessions -> BOOLEAN] /\ direct \in BOOLEAN
\* Nothing has been printed or alerted in the future, a timer ends after the last
\* output, and none runs during the grace period.
Clocks(s) ==
  /\ lastOutput[s] <= now /\ alerted[s] < now
  /\ timer[s] # 0 => timer[s] > lastOutput[s]
  /\ grace[s] # 0 => timer[s] = 0
\* What was printed after the grace period in a tab that is not in front was not seen.
LateIsUnseen(s) == s # front /\ left[s] # 0 /\ lastOutput[s] > left[s] => ~seen[s]
\* What alerts rest on.
SilenceInv ==
  /\ SilenceTypes
  /\ \A s \in Sessions : Clocks(s)
  /\ ~direct => \A s \in Sessions : LateIsUnseen(s)
  /\ Si!AlertsOnlyUnseen

\* A tab that is left at a time has printed nothing after its grace period.
LEMMA Left ==
  ASSUME SilenceInv, NEW new \in Sessions, Si!LeaveAndEnter(front, new), new # front,
         UNCHANGED <<now, lastOutput, alerted, seen, direct>>, front' \in {front, new},
         awaited' \in Sessions \cup {NoSession}
  PROVE  SilenceInv'
<1>1. /\ left' = [left EXCEPT ![front] = now + Grace] /\ grace' = [grace EXCEPT ![front] = now + Grace]
      /\ timer' = [timer EXCEPT ![front] = 0, ![new] = 0]
      /\ badge' = [badge EXCEPT ![new] = FALSE] /\ notified' = [notified EXCEPT ![new] = TRUE]
  BY DEF Si!LeaveAndEnter, Si!Never
<1>2. SilenceTypes'
  BY <1>1, SilenceAssumption DEF SilenceInv, SilenceTypes
<1>3. ASSUME NEW s \in Sessions PROVE Clocks(s)'
  <2>1. Clocks(s) /\ timer'[s] \in {timer[s], 0} /\ (s = front => timer'[s] = 0)
        /\ (s # front => grace'[s] = grace[s])
    BY <1>1 DEF SilenceInv, SilenceTypes
  <2>. QED
    BY <2>1 DEF Clocks
<1>4. ASSUME NEW s \in Sessions, ~direct' PROVE LateIsUnseen(s)'
  <2>1. LateIsUnseen(s) /\ Clocks(s) /\ now \in Nat /\ lastOutput[s] \in Nat
    BY <1>4 DEF SilenceInv, SilenceTypes
  <2>2. CASE s = front
    <3>1. left'[s] = now + Grace
      BY <1>1, <2>2 DEF SilenceInv, SilenceTypes
    <3>. QED
      BY <2>1, <3>1, SilenceAssumption DEF Clocks, LateIsUnseen
  <2>3. CASE s # front
    <3>1. left'[s] = left[s]
      BY <1>1, <2>3 DEF SilenceInv, SilenceTypes
    <3>. QED
      BY <2>1, <2>3, <3>1 DEF LateIsUnseen
  <2>. QED
    BY <2>2, <2>3
<1>5. Si!AlertsOnlyUnseen'
  BY <1>1 DEF SilenceInv, SilenceTypes, Si!AlertsOnlyUnseen
<1>. QED
  BY <1>2, <1>3, <1>4, <1>5 DEF SilenceInv

\* Every step of the detector leaves alerts to what was not seen.
LEMMA SilenceStep ==
  ASSUME SilenceInv, SilenceNext
  PROVE  SilenceInv'
<1>1. SilenceTypes /\ \A s \in Sessions : Clocks(s)
  BY DEF SilenceInv
<1>2. CASE Si!Tick
  <2>1. now' = now + 1 /\ UNCHANGED <<front, awaited, left, lastOutput, notified, timer, grace, badge, alerted, seen, direct>>
    BY <1>2 DEF Si!Tick
  <2>2. SilenceTypes'
    BY <1>1, <2>1 DEF SilenceTypes
  <2>3. ASSUME NEW s \in Sessions PROVE Clocks(s)'
    BY <1>1, <2>1 DEF SilenceTypes, Clocks
  <2>. QED
    BY <2>1, <2>2, <2>3 DEF SilenceInv, LateIsUnseen, Si!AlertsOnlyUnseen
<1>3. ASSUME NEW s \in Sessions, Si!Output(s)
      PROVE  SilenceInv'
  <2>1. /\ lastOutput' = [lastOutput EXCEPT ![s] = now] /\ notified' = [notified EXCEPT ![s] = FALSE]
        /\ timer' = IF grace[s] = 0 THEN [timer EXCEPT ![s] = now + Threshold] ELSE timer
        /\ seen' = [seen EXCEPT ![s] = (s = front)]
        /\ UNCHANGED <<now, front, awaited, left, grace, badge, alerted, direct>>
    BY <1>3 DEF Si!Output, Si!Never
  <2>2. SilenceTypes'
    <3>1. timer' \in [Sessions -> Nat] /\ lastOutput' \in [Sessions -> Nat]
      BY <1>1, <2>1, SilenceAssumption DEF SilenceTypes
    <3>2. seen' \in [Sessions -> BOOLEAN] /\ notified' \in [Sessions -> BOOLEAN]
      BY <1>1, <2>1 DEF SilenceTypes
    <3>. QED
      BY <1>1, <2>1, <3>1, <3>2 DEF SilenceTypes
  <2>3. ASSUME NEW u \in Sessions PROVE Clocks(u)'
    <3>1. CASE u = s
      <4>1. lastOutput'[u] = now /\ timer'[u] = IF grace[u] = 0 THEN now + Threshold ELSE timer[u]
        BY <1>1, <2>1, <3>1 DEF SilenceTypes
      <4>. QED
        BY <1>1, <2>1, <4>1, SilenceAssumption DEF SilenceTypes, Clocks
    <3>2. CASE u # s
      <4>1. lastOutput'[u] = lastOutput[u] /\ timer'[u] = timer[u]
        BY <1>1, <2>1, <3>2 DEF SilenceTypes
      <4>. QED
        BY <1>1, <2>1, <4>1 DEF Clocks
    <3>. QED
      BY <3>1, <3>2
  <2>4. ASSUME NEW u \in Sessions, ~direct' PROVE LateIsUnseen(u)'
    <3>1. LateIsUnseen(u) /\ (u = s => seen'[u] = (s = front))
          /\ (u # s => lastOutput'[u] = lastOutput[u] /\ seen'[u] = seen[u])
      BY <1>1, <2>1, <2>4 DEF SilenceInv, SilenceTypes
    <3>. QED
      BY <2>1, <3>1 DEF LateIsUnseen
  <2>5. Si!AlertsOnlyUnseen'
    <3>1. ASSUME NEW u \in Sessions, ~direct', badge'[u], alerted'[u] = lastOutput'[u]
          PROVE  ~seen'[u]
      <4>1. u # s
        <5>1. lastOutput'[s] = now /\ alerted[s] < now /\ alerted[s] \in Nat /\ now \in Nat
          BY <1>1, <2>1 DEF SilenceTypes, Clocks
        <5>. QED
          BY <2>1, <3>1, <5>1
      <4>2. lastOutput'[u] = lastOutput[u] /\ seen'[u] = seen[u]
        BY <1>1, <2>1, <4>1 DEF SilenceTypes
      <4>. QED
        BY <2>1, <3>1, <4>2 DEF SilenceInv, Si!AlertsOnlyUnseen
    <3>. QED
      BY <3>1 DEF Si!AlertsOnlyUnseen
  <2>. QED
    BY <2>2, <2>3, <2>4, <2>5 DEF SilenceInv
<1>4. ASSUME NEW s \in Sessions, Si!GraceEnds(s)
      PROVE  SilenceInv'
  <2>1. /\ grace[s] = now /\ grace' = [grace EXCEPT ![s] = 0]
        /\ timer' = IF lastOutput[s] # 0 THEN [timer EXCEPT ![s] = now + Threshold] ELSE timer
        /\ UNCHANGED <<now, front, awaited, left, lastOutput, notified, badge, alerted, seen, direct>>
    BY <1>4 DEF Si!GraceEnds, Si!Never
  <2>2. SilenceTypes'
    BY <1>1, <2>1, SilenceAssumption DEF SilenceTypes
  <2>3. ASSUME NEW u \in Sessions PROVE Clocks(u)'
    <3>1. CASE u = s
      <4>1. grace'[u] = 0 /\ timer'[u] \in {timer[u], now + Threshold}
        BY <1>1, <2>1, <3>1 DEF SilenceTypes
      <4>. QED
        BY <1>1, <2>1, <4>1, SilenceAssumption DEF SilenceTypes, Clocks
    <3>2. CASE u # s
      <4>1. grace'[u] = grace[u] /\ timer'[u] = timer[u]
        BY <1>1, <2>1, <3>2 DEF SilenceTypes
      <4>. QED
        BY <1>1, <2>1, <4>1 DEF Clocks
    <3>. QED
      BY <3>1, <3>2
  <2>. QED
    BY <2>1, <2>2, <2>3 DEF SilenceInv, LateIsUnseen, Si!AlertsOnlyUnseen
<1>5. ASSUME NEW s \in Sessions, Si!CheckSilence(s)
      PROVE  SilenceInv'
  <2>1. /\ timer[s] = now /\ timer' = [timer EXCEPT ![s] = 0]
        /\ UNCHANGED <<now, front, awaited, left, lastOutput, grace, seen, direct>>
    BY <1>5 DEF Si!CheckSilence, Si!Never
  <2>2. lastOutput[s] < now
    BY <1>1, <2>1 DEF SilenceTypes, Clocks
  <2>3. CASE Si!Deserves(s)
    <3>1. /\ notified' = [notified EXCEPT ![s] = TRUE] /\ badge' = [badge EXCEPT ![s] = TRUE]
          /\ alerted' = [alerted EXCEPT ![s] = lastOutput[s]]
      BY <1>5, <2>3 DEF Si!CheckSilence
    <3>2. SilenceTypes'
      BY <1>1, <2>1, <3>1 DEF SilenceTypes
    <3>3. ASSUME NEW u \in Sessions PROVE Clocks(u)'
      <4>1. timer'[u] \in {timer[u], 0} /\ alerted'[u] \in {alerted[u], IF u = s THEN lastOutput[s] ELSE alerted[u]}
        BY <1>1, <2>1, <3>1 DEF SilenceTypes
      <4>. QED
        BY <1>1, <2>1, <2>2, <4>1 DEF Clocks
    <3>4. Si!AlertsOnlyUnseen'
      <4>1. ASSUME NEW u \in Sessions, ~direct', badge'[u], alerted'[u] = lastOutput'[u]
            PROVE  ~seen'[u]
        <5>1. CASE u = s
          BY <2>1, <2>3, <4>1, <5>1 DEF SilenceInv, LateIsUnseen, Si!Deserves, Si!Never
        <5>2. CASE u # s
          <6>1. badge'[u] = badge[u] /\ alerted'[u] = alerted[u]
            BY <1>1, <3>1, <5>2 DEF SilenceTypes
          <6>. QED
            BY <2>1, <4>1, <6>1 DEF SilenceInv, Si!AlertsOnlyUnseen
        <5>. QED
          BY <5>1, <5>2
      <4>. QED
        BY <4>1 DEF Si!AlertsOnlyUnseen
    <3>. QED
      BY <2>1, <3>2, <3>3, <3>4 DEF SilenceInv, LateIsUnseen
  <2>4. CASE ~Si!Deserves(s)
    <3>1. UNCHANGED <<notified, badge, alerted>>
      BY <1>5, <2>4 DEF Si!CheckSilence
    <3>2. SilenceTypes'
      BY <1>1, <2>1, <3>1 DEF SilenceTypes
    <3>3. ASSUME NEW u \in Sessions PROVE Clocks(u)'
      <4>1. timer'[u] \in {timer[u], 0}
        BY <1>1, <2>1 DEF SilenceTypes
      <4>. QED
        BY <1>1, <2>1, <3>1, <4>1 DEF Clocks
    <3>. QED
      BY <2>1, <3>1, <3>2, <3>3 DEF SilenceInv, LateIsUnseen, Si!AlertsOnlyUnseen
  <2>. QED
    BY <2>3, <2>4
<1>6. ASSUME NEW s \in Sessions, Si!SwitchTab(s) \/ Si!ClickNotification(s)
      PROVE  SilenceInv'
  <2>1. /\ Si!LeaveAndEnter(front, s) /\ s # front /\ UNCHANGED <<now, lastOutput, alerted, seen, direct>>
        /\ front' \in {front, s} /\ awaited' \in {awaited, s}
    BY <1>6 DEF Si!SwitchTab, Si!ClickNotification, Si!Shows
  <2>. QED
    BY <1>1, <2>1, Left DEF SilenceTypes
<1>7. ASSUME NEW s \in Sessions, Si!SwitchDirectly(s)
      PROVE  SilenceInv'
  <2>1. front' = s /\ direct' = TRUE
        /\ UNCHANGED <<now, awaited, left, lastOutput, notified, timer, grace, badge, alerted, seen>>
    BY <1>7 DEF Si!SwitchDirectly, Si!Shows
  <2>. QED
    BY <1>1, <2>1 DEF SilenceInv, SilenceTypes, Clocks, Si!AlertsOnlyUnseen
<1>8. ASSUME NEW ok \in BOOLEAN, Si!Switched(ok)
      PROVE  SilenceInv'
  <2>1. /\ awaited # NoSession /\ awaited' = NoSession
        /\ \/ front' = awaited /\ direct' = (direct \/ (front # awaited /\ now >= left[front]))
           \/ UNCHANGED <<front, direct>>
        /\ UNCHANGED <<now, left, lastOutput, notified, timer, grace, badge, alerted, seen>>
    BY <1>8 DEF Si!Switched, Si!Shows
  <2>2. awaited \in Sessions /\ front' \in Sessions /\ direct' \in BOOLEAN
    BY <1>1, <2>1 DEF SilenceTypes
  <2>3. SilenceTypes'
    BY <1>1, <2>1, <2>2 DEF SilenceTypes
  <2>4. ASSUME NEW s \in Sessions, ~direct' PROVE LateIsUnseen(s)'
    <3>1. LateIsUnseen(s) /\ lastOutput[s] <= now /\ lastOutput[s] \in Nat /\ now \in Nat /\ left[s] \in Nat
      BY <1>1, <2>1, <2>4 DEF SilenceInv, SilenceTypes, Clocks
    <3>2. CASE s = front /\ front' = awaited /\ now < left[front]
      BY <2>1, <3>1, <3>2 DEF LateIsUnseen
    <3>3. CASE s # front \/ front' = front
      BY <2>1, <3>1, <3>3 DEF LateIsUnseen
    <3>4. CASE s = front /\ front' = awaited /\ ~(now < left[front]) /\ front' # front
      <4>1. now >= left[front] /\ front # awaited
        BY <3>1, <3>4
      <4>2. direct'
        BY <2>1, <3>4, <4>1
      <4>. QED
        BY <2>4, <4>2
    <3>. QED
      BY <2>1, <3>2, <3>3, <3>4
  <2>5. ~direct' => ~direct
    BY <2>1
  <2>6. Si!AlertsOnlyUnseen'
    BY <2>1, <2>5 DEF SilenceInv, Si!AlertsOnlyUnseen
  <2>7. ASSUME NEW s \in Sessions PROVE Clocks(s)'
    BY <1>1, <2>1 DEF Clocks
  <2>. QED
    BY <2>3, <2>4, <2>6, <2>7 DEF SilenceInv
<1>9. CASE UNCHANGED siVars
  BY <1>9 DEF siVars, SilenceInv, SilenceTypes, Clocks, LateIsUnseen, Si!AlertsOnlyUnseen
<1>. QED
  BY <1>2, <1>3, <1>4, <1>5, <1>6, <1>7, <1>8, <1>9 DEF SilenceNext, Si!Next

-----------------------------------------------------------------------------
\* An entry and a task, whose number is one that was given out.
HelpEntry == [id : Nat, status : Ah!Status]
HelpTask == [id : 1..taskCount, at : {"listen", "run"}, help : BOOLEAN]
\* An entry that turns its wheel has a task, until the window is loaded anew.
WheelsHaveTasks ==
  ~reloaded => \A i \in DOMAIN aiEntries :
                 aiEntries[i].status = "running" => \E t \in tasks : t.id = aiEntries[i].id
\* Whether it listens or runs, a task that helps is the popup's, was stopped, or was
\* left while it listened.
HelpIsLookedAfter == \A t \in tasks : t.help => t.id \in {popup} \cup killed \cup leftEarly
\* Tasks and entries are theirs, and no two tasks have the same number.
HelpInv ==
  /\ taskCount \in Nat /\ popup \in 0..taskCount /\ tasks \subseteq HelpTask
  /\ \A t, u \in tasks : t.id = u.id => t = u
  /\ aiEntries \in Seq(HelpEntry)
  /\ WheelsHaveTasks /\ HelpIsLookedAfter

\* Without one of its elements, a sequence holds only what it held.
LEMMA Removed ==
  ASSUME NEW S, NEW s \in Seq(S), NEW i \in DOMAIN s
  PROVE  /\ Ah!RemoveAt(s, i) \in Seq(S)
         /\ \A k \in DOMAIN Ah!RemoveAt(s, i) : \E j \in DOMAIN s : Ah!RemoveAt(s, i)[k] = s[j]
<1>. DEFINE n == Len(s)
            a == SubSeq(s, 1, i - 1)
            b == SubSeq(s, i + 1, n)
<1>1. n \in Nat /\ i \in 1..n /\ DOMAIN s = 1..n
  OBVIOUS
<1>2. a = [k \in 1..(i - 1) |-> s[k]]
  BY <1>1
<1>3. b = [k \in 1..(n - i) |-> s[k + i]]
  BY <1>1
<1>4. a \in Seq(S) /\ Len(a) = i - 1
  BY <1>1, <1>2
<1>5. b \in Seq(S) /\ Len(b) = n - i
  BY <1>1, <1>3
<1>6. Ah!RemoveAt(s, i) = a \o b
  BY DEF Ah!RemoveAt
<1>7. \A k \in 1..(i - 1) : a[k] = s[k]
  BY <1>2
<1>8. \A k \in 1..(n - i) : b[k] = s[k + i]
  BY <1>3
<1>. HIDE DEF n, a, b
<1>9. /\ a \o b \in Seq(S) /\ Len(a \o b) = n - 1 /\ DOMAIN (a \o b) = 1..(n - 1)
      /\ \A k \in 1..(n - 1) : (a \o b)[k] = IF k <= i - 1 THEN a[k] ELSE b[k - (i - 1)]
  <2>1. a \o b \in Seq(S)
    BY <1>4, <1>5
  <2>2. Len(a \o b) = n - 1
    BY <1>1, <1>4, <1>5
  <2>3. DOMAIN (a \o b) = 1..(n - 1)
    BY <2>1, <2>2
  <2>4. ASSUME NEW k \in 1..(n - 1)
        PROVE  (a \o b)[k] = IF k <= Len(a) THEN a[k] ELSE b[k - Len(a)]
    BY <1>1, <1>4, <1>5
  <2>. QED
    BY <1>4, <2>1, <2>2, <2>3, <2>4
<1>10. ASSUME NEW k \in 1..(n - 1) PROVE \E j \in 1..n : (a \o b)[k] = s[j]
  <2>1. CASE k <= i - 1
    <3>1. k \in 1..(i - 1) /\ k \in 1..n
      BY <1>1, <2>1
    <3>. QED
      BY <1>7, <1>9, <2>1, <3>1
  <2>2. CASE ~(k <= i - 1)
    <3>1. k - (i - 1) \in 1..(n - i) /\ k - (i - 1) + i = k + 1 /\ k + 1 \in 1..n
      BY <1>1, <2>2
    <3>2. b[k - (i - 1)] = s[k + 1]
      BY <1>8, <3>1
    <3>. QED
      BY <1>9, <2>2, <3>1, <3>2
  <2>. QED
    BY <2>1, <2>2
<1>. QED
  BY <1>1, <1>6, <1>9, <1>10

\* A new first entry, and no more entries than are kept.
LEMMA Added ==
  ASSUME NEW id \in Nat, aiEntries \in Seq(HelpEntry), Ah!Add(id)
  PROVE  /\ aiEntries' \in Seq(HelpEntry)
         /\ \A k \in DOMAIN aiEntries' : \/ aiEntries'[k].id = id
                                        \/ \E j \in DOMAIN aiEntries : aiEntries'[k] = aiEntries[j]
<1>. DEFINE e == [id |-> id, status |-> "running"]
            all == <<e>> \o aiEntries
            m == IF Len(all) < MAX_ENTRIES THEN Len(all) ELSE MAX_ENTRIES
            kept == SubSeq(all, 1, m)
<1>1. e \in HelpEntry /\ e.id = id
  BY DEF HelpEntry, Ah!Status
<1>2. aiEntries' = kept
  BY DEF Ah!Add
<1>. HIDE DEF e
<1>3. all \in Seq(HelpEntry) /\ Len(all) = 1 + Len(aiEntries) /\ Len(aiEntries) \in Nat
  BY <1>1
<1>4. all[1] = e /\ \A k \in 2..Len(all) : all[k] = aiEntries[k - 1]
  BY <1>1
<1>. HIDE DEF all
<1>5. m \in Nat /\ m <= Len(all)
  BY <1>3, TaskAssumption
<1>. HIDE DEF m
<1>6. kept = [k \in 1..m |-> all[k]]
  BY <1>3, <1>5
<1>7. kept \in Seq(HelpEntry) /\ DOMAIN kept = 1..m
  BY <1>3, <1>5, <1>6
<1>8. ASSUME NEW k \in DOMAIN kept
      PROVE  kept[k].id = id \/ \E j \in DOMAIN aiEntries : kept[k] = aiEntries[j]
  <2>1. kept[k] = all[k] /\ k \in 1..Len(all)
    BY <1>3, <1>5, <1>6, <1>7
  <2>2. CASE k = 1
    BY <1>1, <1>4, <2>1, <2>2
  <2>3. CASE k # 1
    <3>1. k - 1 \in DOMAIN aiEntries /\ all[k] = aiEntries[k - 1]
      BY <1>3, <1>4, <2>1, <2>3
    <3>. QED
      BY <2>1, <3>1
  <2>. QED
    BY <2>2, <2>3
<1>. QED
  BY <1>2, <1>7, <1>8

\* A new task that is recorded, whether it helps or not.
LEMMA NewTask ==
  ASSUME HelpInv, NEW t, t.id = taskCount + 1, t \in [id : Nat, at : {"listen", "run"}, help : BOOLEAN],
         taskCount' = taskCount + 1, tasks' = tasks \cup {t}, Ah!Add(taskCount + 1),
         UNCHANGED <<killed, leftEarly, reloaded>>,
         \/ t.help /\ popup = 0 /\ popup' = t.id
         \/ ~t.help /\ popup' = popup
  PROVE  HelpInv'
<1>1. taskCount \in Nat /\ popup \in 0..taskCount /\ aiEntries \in Seq(HelpEntry)
  BY DEF HelpInv
<1>2. aiEntries' \in Seq(HelpEntry)
  BY <1>1, Added
<1>3. \A k \in DOMAIN aiEntries' : \/ aiEntries'[k].id = taskCount + 1
                                   \/ \E j \in DOMAIN aiEntries : aiEntries'[k] = aiEntries[j]
  BY <1>1, Added
<1>4. ASSUME NEW u \in tasks
      PROVE  /\ u \in [id : 1..(taskCount + 1), at : {"listen", "run"}, help : BOOLEAN]
             /\ u.id # t.id /\ u.id # 0
  BY <1>1 DEF HelpInv, HelpTask
<1>5. tasks' \subseteq HelpTask'
  <2>1. t \in [id : 1..(taskCount + 1), at : {"listen", "run"}, help : BOOLEAN]
    BY <1>1
  <2>. QED
    BY <1>4, <2>1 DEF HelpTask
<1>6. \A u, v \in tasks' : u.id = v.id => u = v
  BY <1>4 DEF HelpInv
<1>7. popup' \in 0..taskCount'
  BY <1>1
<1>8. WheelsHaveTasks'
  <2>1. ASSUME NEW k \in DOMAIN aiEntries', ~reloaded', aiEntries'[k].status = "running"
        PROVE  \E u \in tasks' : u.id = aiEntries'[k].id
    BY <1>3, <2>1 DEF HelpInv, WheelsHaveTasks
  <2>. QED
    BY <2>1 DEF WheelsHaveTasks
<1>9. HelpIsLookedAfter'
  BY <1>4 DEF HelpInv, HelpIsLookedAfter
<1>. QED
  BY <1>1, <1>2, <1>5, <1>6, <1>7, <1>8, <1>9 DEF HelpInv

\* The popup goes, or it stays.
LEMMA PopupGoes ==
  ASSUME HelpInv, Ah!Unmount \/ Ah!NoUnmount, UNCHANGED <<tasks, taskCount, aiEntries, reloaded>>
  PROVE  HelpInv'
<1>1. popup' \in 0..taskCount'
  BY DEF HelpInv, Ah!Unmount, Ah!NoUnmount
<1>2. HelpIsLookedAfter'
  <2>1. ASSUME NEW t \in tasks, t.help, Ah!Unmount
        PROVE  t.id \in killed' \cup leftEarly'
    <3>1. t.at \in {"listen", "run"} /\ t.id \in {popup} \cup killed \cup leftEarly
      BY <2>1 DEF HelpInv, HelpTask, HelpIsLookedAfter
    <3>2. killed \subseteq killed' /\ leftEarly \subseteq leftEarly'
      BY <2>1 DEF Ah!Unmount, Ah!KillPopup
    <3>3. t.id = popup => t.id \in killed' \cup leftEarly'
      BY <2>1, <3>1 DEF Ah!Unmount, Ah!KillPopup
    <3>. QED
      BY <3>1, <3>2, <3>3
  <2>. QED
    BY <2>1 DEF HelpInv, HelpIsLookedAfter, Ah!NoUnmount
<1>. QED
  BY <1>1, <1>2 DEF HelpInv, HelpTask, WheelsHaveTasks

\* Every step of the AI's help looks after its tasks and its entries.
LEMMA HelpStep ==
  ASSUME HelpInv, HelpNext
  PROVE  HelpInv'
<1>1. CASE Ah!CommandStarts
  BY <1>1, PopupGoes DEF Ah!CommandStarts
<1>2. CASE Ah!ClosePopup
  BY <1>2, PopupGoes DEF Ah!ClosePopup
<1>3. CASE Ah!FetchAiHelp
  <2>. DEFINE t == [id |-> taskCount + 1, at |-> "listen", help |-> TRUE]
  <2>1. /\ popup = 0 /\ popup' = taskCount + 1 /\ taskCount' = taskCount + 1 /\ taskCount \in Nat
        /\ tasks' = tasks \cup {t} /\ Ah!Add(taskCount + 1) /\ UNCHANGED <<killed, leftEarly, reloaded>>
    BY <1>3 DEF Ah!FetchAiHelp, HelpInv
  <2>2. t.id = taskCount + 1 /\ t.help /\ t \in [id : Nat, at : {"listen", "run"}, help : BOOLEAN]
    BY <2>1
  <2>. HIDE DEF t
  <2>. QED
    BY <2>1, <2>2, NewTask
<1>4. CASE Ah!CommitTask
  <2>. DEFINE t == [id |-> taskCount + 1, at |-> "run", help |-> FALSE]
  <2>1. /\ popup' = popup /\ taskCount' = taskCount + 1 /\ taskCount \in Nat
        /\ tasks' = tasks \cup {t} /\ Ah!Add(taskCount + 1) /\ UNCHANGED <<killed, leftEarly, reloaded>>
    BY <1>4 DEF Ah!CommitTask, HelpInv
  <2>2. t.id = taskCount + 1 /\ ~t.help /\ t \in [id : Nat, at : {"listen", "run"}, help : BOOLEAN]
    BY <2>1
  <2>. HIDE DEF t
  <2>. QED
    BY <2>1, <2>2, NewTask
<1>5. ASSUME NEW t \in tasks, Ah!Listening(t)
      PROVE  HelpInv'
  <2>. DEFINE u == [t EXCEPT !.at = "run"]
  <2>1. t \in HelpTask /\ u \in HelpTask /\ u.id = t.id /\ u.help = t.help
    BY <1>5 DEF HelpInv, HelpTask
  <2>2. tasks' = (tasks \ {t}) \cup {u}
        /\ UNCHANGED <<popup, killed, taskCount, aiEntries, leftEarly, reloaded>>
    BY <1>5 DEF Ah!Listening
  <2>. HIDE DEF u
  <2>3. tasks' \subseteq HelpTask' /\ \A x, y \in tasks' : x.id = y.id => x = y
    BY <1>5, <2>1, <2>2 DEF HelpInv, HelpTask
  <2>4. WheelsHaveTasks'
    BY <1>5, <2>1, <2>2 DEF HelpInv, WheelsHaveTasks
  <2>5. HelpIsLookedAfter'
    BY <1>5, <2>1, <2>2 DEF HelpInv, HelpIsLookedAfter
  <2>. QED
    BY <2>2, <2>3, <2>4, <2>5 DEF HelpInv
<1>6. ASSUME NEW t \in tasks, Ah!TaskEnds(t)
      PROVE  HelpInv'
  <2>1. /\ tasks' = tasks \ {t} /\ killed' = killed \ {t.id}
        /\ UNCHANGED <<popup, taskCount, leftEarly, reloaded>>
    BY <1>6 DEF Ah!TaskEnds, Ah!paneVars
  <2>2. PICK s \in {"success", "error"} : Ah!Update(t.id, s)
    BY <1>6 DEF Ah!TaskEnds, Ah!Settle
  <2>3. aiEntries' = [i \in DOMAIN aiEntries |->
                        IF aiEntries[i].id = t.id THEN [aiEntries[i] EXCEPT !.status = s] ELSE aiEntries[i]]
    BY <2>2 DEF Ah!Update
  <2>4. ASSUME NEW i \in DOMAIN aiEntries
        PROVE  /\ aiEntries'[i] \in HelpEntry /\ aiEntries'[i].id = aiEntries[i].id
               /\ aiEntries'[i].status = "running" =>
                    aiEntries[i].status = "running" /\ aiEntries[i].id # t.id
    <3>1. aiEntries[i] \in HelpEntry
      BY DEF HelpInv
    <3>. QED
      BY <2>3, <3>1 DEF HelpEntry, Ah!Status
  <2>5. aiEntries' \in Seq(HelpEntry) /\ DOMAIN aiEntries' = DOMAIN aiEntries
    BY <2>3, <2>4 DEF HelpInv
  <2>6. WheelsHaveTasks'
    BY <2>1, <2>4, <2>5 DEF HelpInv, WheelsHaveTasks
  <2>7. HelpIsLookedAfter'
    BY <1>6, <2>1 DEF HelpInv, HelpIsLookedAfter
  <2>. QED
    BY <2>1, <2>5, <2>6, <2>7 DEF HelpInv, HelpTask
<1>7. ASSUME NEW i \in DOMAIN aiEntries, Ah!RemoveEntry(i)
      PROVE  HelpInv'
  <2>1. /\ aiEntries' = Ah!RemoveAt(aiEntries, i)
        /\ UNCHANGED <<popup, tasks, killed, taskCount, leftEarly, reloaded>>
    BY <1>7 DEF Ah!RemoveEntry, Ah!paneVars, Ah!taskVars
  <2>2. aiEntries' \in Seq(HelpEntry)
    BY <2>1, Removed DEF HelpInv
  <2>3. \A k \in DOMAIN aiEntries' : \E j \in DOMAIN aiEntries : aiEntries'[k] = aiEntries[j]
    BY <2>1, Removed DEF HelpInv
  <2>4. WheelsHaveTasks'
    BY <2>1, <2>3 DEF HelpInv, WheelsHaveTasks
  <2>. QED
    BY <2>1, <2>2, <2>4 DEF HelpInv, HelpTask, HelpIsLookedAfter
<1>8. CASE Ah!ClearEntries
  <2>1. /\ aiEntries' = <<>> /\ DOMAIN aiEntries' = {}
        /\ UNCHANGED <<popup, tasks, killed, taskCount, leftEarly, reloaded>>
    BY <1>8 DEF Ah!ClearEntries, Ah!paneVars, Ah!taskVars
  <2>2. aiEntries' \in Seq(HelpEntry)
    BY <2>1
  <2>. QED
    BY <2>1, <2>2 DEF HelpInv, HelpTask, WheelsHaveTasks, HelpIsLookedAfter
<1>9. CASE Ah!Reload
  BY <1>9 DEF Ah!Reload, HelpInv, HelpTask, WheelsHaveTasks, HelpIsLookedAfter
<1>10. CASE Ah!CommandFails \/ Ah!ClickIcon \/ (\E id \in Ah!EntryIds : Ah!ToggleEntry(id)) \/ UNCHANGED ahVars
  <2>1. UNCHANGED <<popup, tasks, killed, taskCount, aiEntries, leftEarly, reloaded>>
    BY <1>10 DEF Ah!CommandFails, Ah!ClickIcon, Ah!ToggleEntry, Ah!paneVars, Ah!taskVars, ahVars
  <2>. QED
    BY <2>1 DEF HelpInv, HelpTask, WheelsHaveTasks, HelpIsLookedAfter
<1>. QED
  BY <1>1, <1>2, <1>3, <1>4, <1>5, <1>6, <1>7, <1>8, <1>9, <1>10 DEF HelpNext, Ah!Next

-----------------------------------------------------------------------------
\* An answer that changes the stars, and what it is about.
Stars(a) == a.ok /\ a.call.op \in {"star", "unstar"}
\* What a sequence holds.
ElementsOf(s) == {s[i] : i \in DOMAIN s}
\* Once they have been loaded, where favorites.json and the list differ, an answer is
\* on its way that tells it.
OnItsWay ==
  chLoaded => \A c \in (chFavs \ chDiskFavs) \cup (chDiskFavs \ chFavs) :
    \E i \in DOMAIN chAnswers : Stars(chAnswers[i]) /\ chAnswers[i].call.command = c
\* The last answer about a command tells what the file holds.
LastTellsTheFile ==
  \A i \in DOMAIN chAnswers :
    /\ Stars(chAnswers[i])
    /\ \A j \in DOMAIN chAnswers :
         j > i /\ Stars(chAnswers[j]) => chAnswers[j].call.command # chAnswers[i].call.command
    => (chAnswers[i].call.op = "star" <=> chAnswers[i].call.command \in chDiskFavs)
\* The entries carry the stars of the list.
EntriesAreStarred == \A e \in chEntries : e.favorite = (e.command \in chFavs)
\* The first load ends before the lists count as loaded.
FirstLoad == ~chLoaded => chLoads \in Seq(ElementsOf(chLoads)) /\ 1 \in DOMAIN chLoads
\* What the stars rest on.
StarsInv ==
  /\ chAnswers \in Seq(ElementsOf(chAnswers)) /\ FirstLoad
  /\ ~chStale => EntriesAreStarred /\ OnItsWay /\ LastTellsTheFile

\* A sequence of any elements with one more of them.
LEMMA OneMore ==
  ASSUME NEW s, s \in Seq(ElementsOf(s)), NEW e
  PROVE  /\ Append(s, e) \in Seq(ElementsOf(Append(s, e)))
         /\ Len(s) \in Nat /\ DOMAIN s = 1..Len(s) /\ DOMAIN Append(s, e) = 1..(Len(s) + 1)
         /\ Append(s, e)[Len(s) + 1] = e /\ \A i \in 1..Len(s) : Append(s, e)[i] = s[i]
<1>. DEFINE t == Append(s, e)
            n == Len(s)
<1>1. n \in Nat /\ DOMAIN s = 1..n
  OBVIOUS
<1>2. t \in Seq(ElementsOf(s) \cup {e}) /\ Len(t) = n + 1
  OBVIOUS
<1>3. DOMAIN t = 1..(n + 1) /\ t[n + 1] = e /\ \A i \in 1..n : t[i] = s[i]
  BY <1>1, <1>2
<1>. HIDE DEF t, n
<1>4. t = [i \in 1..(n + 1) |-> t[i]]
  BY <1>2, <1>3
<1>5. \A i \in 1..(n + 1) : t[i] \in ElementsOf(t)
  BY <1>3 DEF ElementsOf
<1>6. [i \in 1..(n + 1) |-> t[i]] \in Seq(ElementsOf(t))
  BY <1>1, <1>5
<1>7. t \in Seq(ElementsOf(t))
  BY <1>4, <1>6
<1>. QED
  BY <1>1, <1>3, <1>7 DEF t, n

\* The same without its first.
LEMMA OneLess ==
  ASSUME NEW s, s \in Seq(ElementsOf(s)), s # <<>>
  PROVE  /\ Tail(s) \in Seq(ElementsOf(Tail(s)))
         /\ Len(s) \in Nat \ {0} /\ DOMAIN s = 1..Len(s) /\ DOMAIN Tail(s) = 1..(Len(s) - 1)
         /\ Head(s) = s[1] /\ \A i \in 1..(Len(s) - 1) : Tail(s)[i] = s[i + 1]
<1>. DEFINE t == Tail(s)
            n == Len(s)
<1>1. n \in Nat \ {0} /\ DOMAIN s = 1..n /\ Head(s) = s[1]
  OBVIOUS
<1>2. t \in Seq(ElementsOf(s)) /\ Len(t) = n - 1
  OBVIOUS
<1>3. DOMAIN t = 1..(n - 1) /\ \A i \in 1..(n - 1) : t[i] = s[i + 1]
  BY <1>1, <1>2
<1>. HIDE DEF t, n
<1>4. t = [i \in 1..(n - 1) |-> t[i]]
  BY <1>2, <1>3
<1>5. \A i \in 1..(n - 1) : t[i] \in ElementsOf(t)
  BY <1>3 DEF ElementsOf
<1>6. [i \in 1..(n - 1) |-> t[i]] \in Seq(ElementsOf(t))
  BY <1>1, <1>5
<1>7. t \in Seq(ElementsOf(t))
  BY <1>4, <1>6
<1>. QED
  BY <1>1, <1>3, <1>7 DEF t, n

\* The same with another element at one of its places.
LEMMA Changed ==
  ASSUME NEW s, s \in Seq(ElementsOf(s)), NEW i, NEW e
  PROVE  /\ [s EXCEPT ![i] = e] \in Seq(ElementsOf([s EXCEPT ![i] = e]))
         /\ DOMAIN [s EXCEPT ![i] = e] = DOMAIN s
<1>. DEFINE t == [s EXCEPT ![i] = e]
            n == Len(s)
<1>1. n \in Nat /\ DOMAIN s = 1..n
  OBVIOUS
<1>2. DOMAIN t = 1..n /\ t = [k \in 1..n |-> t[k]]
  BY <1>1
<1>. HIDE DEF t, n
<1>3. \A k \in 1..n : t[k] \in ElementsOf(t)
  BY <1>2 DEF ElementsOf
<1>4. [k \in 1..n |-> t[k]] \in Seq(ElementsOf(t))
  BY <1>1, <1>3
<1>. QED
  BY <1>1, <1>2, <1>4 DEF t

\* A call is executed and its answer is the last one.
LEMMA Executed ==
  ASSUME StarsInv, NEW ok \in BOOLEAN, Ch!Execute(ok)
  PROVE  StarsInv'
<1>. DEFINE call == Head(chCalls)
            a == [call |-> call, ok |-> ok]
            n == Len(chAnswers)
<1>1. /\ chAnswers' = Append(chAnswers, a)
      /\ chDiskFavs' = IF ok THEN Ch!FavsAfter(call, chDiskFavs) ELSE chDiskFavs
      /\ UNCHANGED <<chEntries, chFavs, chStale, chLoaded, chLoads>>
  BY DEF Ch!Execute, Ch!chStore
<1>2. a.call = call /\ a.ok = ok
  OBVIOUS
<1>3. \/ /\ Stars(a) /\ call.op = "star" /\ chDiskFavs' = chDiskFavs \cup {call.command}
      \/ /\ Stars(a) /\ call.op = "unstar" /\ chDiskFavs' = chDiskFavs \ {call.command}
      \/ /\ ~Stars(a) /\ chDiskFavs' = chDiskFavs
  BY <1>1, <1>2 DEF Stars, Ch!FavsAfter
<1>. HIDE DEF a, call
<1>4. /\ chAnswers' \in Seq(ElementsOf(chAnswers'))
      /\ n \in Nat /\ DOMAIN chAnswers = 1..n /\ DOMAIN chAnswers' = 1..(n + 1)
      /\ chAnswers'[n + 1] = a /\ \A i \in 1..n : chAnswers'[i] = chAnswers[i]
  BY <1>1, OneMore DEF StarsInv
<1>. HIDE DEF n
<1>5. SUFFICES ASSUME ~chStale' PROVE EntriesAreStarred' /\ OnItsWay' /\ LastTellsTheFile'
  BY <1>1, <1>4 DEF StarsInv, ElementsOf, FirstLoad
<1>6. EntriesAreStarred /\ OnItsWay /\ LastTellsTheFile
  BY <1>1, <1>5 DEF StarsInv
<1>7. EntriesAreStarred'
  BY <1>1, <1>6 DEF EntriesAreStarred
<1>8. OnItsWay'
  <2>1. ASSUME chLoaded, NEW c \in (chFavs' \ chDiskFavs') \cup (chDiskFavs' \ chFavs')
        PROVE  \E i \in DOMAIN chAnswers' : Stars(chAnswers'[i]) /\ chAnswers'[i].call.command = c
    <3>1. CASE Stars(a) /\ c = call.command
      <4>1. n + 1 \in DOMAIN chAnswers'
        BY <1>4
      <4>. QED
        BY <1>2, <1>4, <3>1, <4>1
    <3>2. CASE ~(Stars(a) /\ c = call.command)
      <4>1. c \in (chFavs \ chDiskFavs) \cup (chDiskFavs \ chFavs)
        BY <1>1, <1>3, <2>1, <3>2
      <4>2. PICK i \in DOMAIN chAnswers : Stars(chAnswers[i]) /\ chAnswers[i].call.command = c
        BY <1>6, <2>1, <4>1 DEF OnItsWay
      <4>3. i \in DOMAIN chAnswers' /\ chAnswers'[i] = chAnswers[i]
        BY <1>4
      <4>. QED
        BY <4>2, <4>3
    <3>. QED
      BY <3>1, <3>2
  <2>. QED
    BY <1>1, <2>1 DEF OnItsWay
<1>9. LastTellsTheFile'
  <2>1. ASSUME NEW i \in DOMAIN chAnswers', Stars(chAnswers'[i]),
               \A j \in DOMAIN chAnswers' :
                 j > i /\ Stars(chAnswers'[j]) => chAnswers'[j].call.command # chAnswers'[i].call.command
        PROVE  chAnswers'[i].call.op = "star" <=> chAnswers'[i].call.command \in chDiskFavs'
    <3>1. CASE i = n + 1
      BY <1>2, <1>3, <1>4, <2>1, <3>1
    <3>2. CASE i # n + 1
      <4>1. i \in 1..n /\ i \in DOMAIN chAnswers /\ chAnswers'[i] = chAnswers[i]
            /\ n + 1 > i /\ n + 1 \in DOMAIN chAnswers'
        BY <1>4, <3>2
      <4>2. Stars(a) => call.command # chAnswers[i].call.command
        BY <1>2, <1>4, <2>1, <4>1
      <4>3. \A j \in DOMAIN chAnswers :
              j > i /\ Stars(chAnswers[j]) => chAnswers[j].call.command # chAnswers[i].call.command
        BY <1>4, <2>1, <4>1
      <4>4. chAnswers[i].call.op = "star" <=> chAnswers[i].call.command \in chDiskFavs
        BY <1>6, <2>1, <4>1, <4>3 DEF LastTellsTheFile
      <4>. QED
        BY <1>3, <4>1, <4>2, <4>4
    <3>. QED
      BY <3>1, <3>2
  <2>. QED
    BY <2>1 DEF LastTellsTheFile
<1>. QED
  BY <1>7, <1>8, <1>9

\* The first answer reaches the lists.
LEMMA Answered ==
  ASSUME StarsInv, Ch!Answer
  PROVE  StarsInv'
<1>. DEFINE a == Head(chAnswers)
            call == a.call
            n == Len(chAnswers)
<1>1. /\ chAnswers # <<>> /\ chAnswers' = Tail(chAnswers)
      /\ chFavs' = IF a.ok THEN Ch!FavsAfter(call, chFavs) ELSE chFavs
      /\ chStale' = (chStale \/ /\ call.op = "delete" /\ ~a.ok
                                /\ \E e \in call.removed : e.favorite # (e.command \in chFavs))
      /\ UNCHANGED <<chDiskFavs, chLoaded, chLoads>>
  BY DEF Ch!Answer, Ch!chFiles
<1>2. chEntries' = CASE call.op = "delete" /\ ~a.ok -> chEntries \cup call.removed
                     [] call.op = "clear" /\ a.ok -> {}
                     [] call.op \in {"star", "unstar"} /\ a.ok ->
                          Ch!Starred(chEntries, call.command, call.op = "star")
                     [] OTHER -> chEntries
  BY DEF Ch!Answer
<1>3. \/ /\ Stars(a) /\ call.op = "star" /\ chFavs' = chFavs \cup {call.command}
      \/ /\ Stars(a) /\ call.op = "unstar" /\ chFavs' = chFavs \ {call.command}
      \/ /\ ~Stars(a) /\ chFavs' = chFavs
  BY <1>1 DEF Stars, Ch!FavsAfter
<1>. HIDE DEF a
<1>4. /\ chAnswers' \in Seq(ElementsOf(chAnswers'))
      /\ n \in Nat \ {0} /\ DOMAIN chAnswers = 1..n /\ DOMAIN chAnswers' = 1..(n - 1)
      /\ a = chAnswers[1] /\ \A i \in 1..(n - 1) : chAnswers'[i] = chAnswers[i + 1]
  BY <1>1, OneLess DEF StarsInv, a
<1>. HIDE DEF n
<1>5. SUFFICES ASSUME ~chStale' PROVE EntriesAreStarred' /\ OnItsWay' /\ LastTellsTheFile'
  BY <1>1, <1>4 DEF StarsInv, ElementsOf, FirstLoad
<1>6. EntriesAreStarred /\ OnItsWay /\ LastTellsTheFile
  BY <1>1, <1>5 DEF StarsInv
<1>7. EntriesAreStarred'
  <2>1. CASE Stars(a)
    <3>1. chEntries' = Ch!Starred(chEntries, call.command, call.op = "star")
      BY <1>2, <2>1 DEF Stars
    <3>2. ASSUME NEW e \in chEntries' PROVE e.favorite = (e.command \in chFavs')
      <4>1. PICK d \in chEntries :
              e = [command |-> d.command,
                   favorite |-> IF d.command = call.command THEN call.op = "star" ELSE d.favorite]
        BY <3>1, <3>2 DEF Ch!Starred
      <4>2. e.command = d.command
            /\ e.favorite = IF d.command = call.command THEN call.op = "star" ELSE d.favorite
        BY <4>1
      <4>3. d.favorite = (d.command \in chFavs)
        BY <1>6 DEF EntriesAreStarred
      <4>. QED
        BY <1>3, <2>1, <4>2, <4>3
    <3>. QED
      BY <3>2 DEF EntriesAreStarred
  <2>2. CASE ~Stars(a)
    <3>1. ASSUME NEW e \in chEntries'
          PROVE  e \in chEntries \/ (call.op = "delete" /\ ~a.ok /\ e \in call.removed)
      BY <1>2, <2>2, <3>1 DEF Stars
    <3>2. ASSUME NEW e \in chEntries' PROVE e.favorite = (e.command \in chFavs)
      BY <1>1, <1>5, <1>6, <3>1 DEF EntriesAreStarred
    <3>. QED
      BY <1>3, <2>2, <3>2 DEF EntriesAreStarred
  <2>. QED
    BY <2>1, <2>2
<1>8. OnItsWay'
  <2>1. ASSUME chLoaded, NEW c \in (chFavs' \ chDiskFavs') \cup (chDiskFavs' \ chFavs')
        PROVE  \E i \in DOMAIN chAnswers' : Stars(chAnswers'[i]) /\ chAnswers'[i].call.command = c
    <3>1. SUFFICES \E i \in DOMAIN chAnswers : i # 1 /\ Stars(chAnswers[i]) /\ chAnswers[i].call.command = c
      <4>1. ASSUME NEW i \in DOMAIN chAnswers, i # 1
            PROVE  i - 1 \in DOMAIN chAnswers' /\ chAnswers'[i - 1] = chAnswers[i]
        BY <1>4, <4>1
      <4>. QED
        BY <4>1
    <3>2. CASE Stars(a) /\ c = call.command
      <4>1. ~(call.op = "star" <=> c \in chDiskFavs)
        BY <1>1, <1>3, <2>1, <3>2
      <4>2. 1 \in DOMAIN chAnswers /\ Stars(chAnswers[1]) /\ chAnswers[1].call = call
        BY <1>4, <3>2
      <4>3. PICK j \in DOMAIN chAnswers : j > 1 /\ Stars(chAnswers[j]) /\ chAnswers[j].call.command = call.command
        BY <1>6, <3>2, <4>1, <4>2 DEF LastTellsTheFile
      <4>. QED
        BY <1>4, <3>2, <4>3
    <3>3. CASE ~(Stars(a) /\ c = call.command)
      <4>1. c \in (chFavs \ chDiskFavs) \cup (chDiskFavs \ chFavs)
        BY <1>1, <1>3, <2>1, <3>3
      <4>2. PICK i \in DOMAIN chAnswers : Stars(chAnswers[i]) /\ chAnswers[i].call.command = c
        BY <1>6, <2>1, <4>1 DEF OnItsWay
      <4>3. i # 1
        BY <1>4, <3>3, <4>2
      <4>. QED
        BY <4>2, <4>3
    <3>. QED
      BY <3>2, <3>3
  <2>. QED
    BY <1>1, <2>1 DEF OnItsWay
<1>9. LastTellsTheFile'
  <2>1. ASSUME NEW i \in DOMAIN chAnswers', Stars(chAnswers'[i]),
               \A j \in DOMAIN chAnswers' :
                 j > i /\ Stars(chAnswers'[j]) => chAnswers'[j].call.command # chAnswers'[i].call.command
        PROVE  chAnswers'[i].call.op = "star" <=> chAnswers'[i].call.command \in chDiskFavs'
    <3>1. i + 1 \in DOMAIN chAnswers /\ chAnswers'[i] = chAnswers[i + 1]
      BY <1>4
    <3>2. ASSUME NEW j \in DOMAIN chAnswers, j > i + 1, Stars(chAnswers[j])
          PROVE  chAnswers[j].call.command # chAnswers[i + 1].call.command
      <4>1. j - 1 \in DOMAIN chAnswers' /\ j - 1 > i /\ chAnswers'[j - 1] = chAnswers[j]
        BY <1>4, <3>1, <3>2
      <4>. QED
        BY <2>1, <3>1, <3>2, <4>1
    <3>. QED
      BY <1>1, <1>6, <2>1, <3>1, <3>2 DEF LastTellsTheFile
  <2>. QED
    BY <2>1 DEF LastTellsTheFile
<1>. QED
  BY <1>7, <1>8, <1>9

\* Every step of the history keeps the stars where they can be found.
LEMMA StarsStep ==
  ASSUME StarsInv, HistoryNext
  PROVE  StarsInv'
<1>1. ASSUME NEW ok \in BOOLEAN, Ch!Execute(ok)
      PROVE  StarsInv'
  BY <1>1, Executed
<1>2. CASE Ch!Answer
  BY <1>2, Answered
<1>3. ASSUME NEW i \in DOMAIN chLoads, Ch!LoadEnds(i)
      PROVE  StarsInv'
  <2>1. /\ chEntries' \in Ch!Parsed(chLoads[i].commands, chLoads[i].favorites)
        /\ chFavs' = chLoads[i].favorites /\ UNCHANGED <<chDiskFavs, chAnswers>>
        /\ chStale' = (chStale \/ chLoads[i].favorites # chDiskFavs
                               \/ \E k \in DOMAIN chAnswers : chAnswers[k].call.op \in {"star", "unstar"})
    BY <1>3 DEF Ch!LoadEnds, Ch!chFiles
  <2>2. SUFFICES ASSUME ~chStale' PROVE EntriesAreStarred' /\ OnItsWay' /\ LastTellsTheFile'
    BY <1>3, <2>1 DEF StarsInv, ElementsOf, FirstLoad, Ch!LoadEnds
  <2>3. chFavs' = chDiskFavs' /\ \A k \in DOMAIN chAnswers' : ~Stars(chAnswers'[k])
    BY <2>1, <2>2 DEF Stars
  <2>4. EntriesAreStarred'
    BY <2>1 DEF EntriesAreStarred, Ch!Parsed
  <2>. QED
    BY <2>3, <2>4 DEF OnItsWay, LastTellsTheFile
<1>4. ASSUME NEW i \in DOMAIN chLoads, Ch!LoadFails(i)
      PROVE  StarsInv'
  BY <1>4 DEF Ch!LoadFails, StarsInv, ElementsOf, FirstLoad
<1>5. ASSUME NEW c \in Ch!ChCommand, Ch!CommandRuns(c)
      PROVE  StarsInv'
  <2>1. /\ chEntries' = (chEntries \ Ch!OfTheWords(chEntries, c)) \cup {[command |-> c, favorite |-> c \in chFavs]}
        /\ UNCHANGED <<chDiskFavs, chFavs, chAnswers, chStale, chLoaded, chLoads>>
    BY <1>5 DEF Ch!CommandRuns, Ch!chFiles, Ch!Without, Ch!LiveEntry
  <2>2. EntriesAreStarred => EntriesAreStarred'
    BY <2>1 DEF EntriesAreStarred
  <2>. QED
    BY <2>1, <2>2 DEF StarsInv, ElementsOf, FirstLoad, OnItsWay, LastTellsTheFile
<1>6. ASSUME NEW c \in Ch!ChCommand, Ch!Delete(c)
      PROVE  StarsInv'
  <2>1. chEntries' \subseteq chEntries /\ UNCHANGED <<chDiskFavs, chFavs, chAnswers, chStale, chLoaded, chLoads>>
    BY <1>6 DEF Ch!Delete, Ch!chFiles, Ch!Without
  <2>. QED
    BY <2>1 DEF StarsInv, ElementsOf, FirstLoad, EntriesAreStarred, OnItsWay, LastTellsTheFile
<1>7. ASSUME NEW i \in DOMAIN chLoads, Ch!ReadHistory(i) \/ Ch!ReadFavorites(i)
      PROVE  StarsInv'
  <2>1. UNCHANGED <<chDiskFavs, chEntries, chFavs, chAnswers, chStale, chLoaded>>
    BY <1>7 DEF Ch!ReadHistory, Ch!ReadFavorites, Ch!chFiles, Ch!chStore
  <2>2. PICK e : chLoads' = [chLoads EXCEPT ![i] = e]
    BY <1>7 DEF Ch!ReadHistory, Ch!ReadFavorites
  <2>3. FirstLoad'
    BY <2>1, <2>2, Changed DEF StarsInv, FirstLoad
  <2>. QED
    BY <2>1, <2>3 DEF StarsInv, ElementsOf, EntriesAreStarred, OnItsWay, LastTellsTheFile
<1>8. CASE Ch!OpenSearch \/ Ch!CloseSearch
  <2>1. /\ UNCHANGED <<chDiskFavs, chEntries, chFavs, chAnswers, chStale, chLoaded>>
        /\ chLoads' = chLoads \/ chLoads' = Append(chLoads, Ch!NewLoad)
    BY <1>8 DEF Ch!OpenSearch, Ch!CloseSearch, Ch!StartLoad, Ch!chFiles, Ch!chStore
  <2>2. FirstLoad'
    <3>1. CASE chLoads' = chLoads
      BY <2>1, <3>1 DEF StarsInv, FirstLoad, ElementsOf
    <3>2. CASE chLoads' = Append(chLoads, Ch!NewLoad)
      BY <2>1, <3>2, OneMore DEF StarsInv, FirstLoad
    <3>. QED
      BY <2>1, <3>1, <3>2
  <2>. QED
    BY <2>1, <2>2 DEF StarsInv, ElementsOf, EntriesAreStarred, OnItsWay, LastTellsTheFile
<1>9. CASE \/ Ch!OnlyFavorites \/ Ch!Down \/ Ch!Up \/ Ch!EnterPick \/ Ch!ClearAll
           \/ \E q \in SUBSET ChWord : Ch!SetQuery(q)
           \/ \E i \in 1..Ch!Cardinality(Ch!Results) : Ch!Hover(i) \/ Ch!Click(i)
           \/ \E c \in Ch!Results : Ch!ToggleFavorite(c)
           \/ UNCHANGED chVars
  <2>1. UNCHANGED <<chDiskFavs, chEntries, chFavs, chAnswers, chStale, chLoaded, chLoads>>
    BY <1>9 DEF Ch!OnlyFavorites, Ch!Hover,
         Ch!Down, Ch!Up, Ch!EnterPick, Ch!ClearAll, Ch!SetQuery, Ch!Click, Ch!ToggleFavorite,
         Ch!Searches, Ch!Pick, Ch!chFiles, Ch!chStore, chVars
  <2>. QED
    BY <2>1 DEF StarsInv, ElementsOf, FirstLoad, EntriesAreStarred, OnItsWay, LastTellsTheFile
<1>. QED
  BY <1>1, <1>2, <1>3, <1>4, <1>5, <1>6, <1>7, <1>8, <1>9 DEF HistoryNext, Ch!ChNext

-----------------------------------------------------------------------------
\* The inductive invariant of what the user is told.
TruthInv ==
  /\ part = "marks" => MarksInv
  /\ part = "silence" => SilenceInv
  /\ part = "help" => HelpInv
  /\ part = "history" => StarsInv

\* It holds at first.
LEMMA TruthInit == Init => TruthInv
<1>. SUFFICES ASSUME Init PROVE TruthInv
  OBVIOUS
<1>1. ASSUME part = "marks" PROVE MarksInv
  <2>1. Sm!Init
    BY <1>1 DEF Init
  <2>. QED
    BY <2>1, CommandAssumption DEF Sm!Init, MarksInv, Sm!Command
<1>2. ASSUME part = "silence" PROVE SilenceInv
  <2>1. Si!Init
    BY <1>2 DEF Init
  <2>2. SilenceTypes /\ now = 1
    <3>1. /\ left \in [Sessions -> Nat] /\ lastOutput \in [Sessions -> Nat] /\ timer \in [Sessions -> Nat]
          /\ grace \in [Sessions -> Nat] /\ alerted \in [Sessions -> Nat]
      BY <2>1 DEF Si!Init, Si!Never
    <3>2. notified \in [Sessions -> BOOLEAN] /\ badge \in [Sessions -> BOOLEAN] /\ seen \in [Sessions -> BOOLEAN]
      BY <2>1 DEF Si!Init
    <3>3. now = 1 /\ front \in Sessions /\ awaited \in Sessions \cup {NoSession} /\ direct \in BOOLEAN
      BY <2>1 DEF Si!Init
    <3>4. now \in Nat /\ now > 0
      BY <3>3
    <3>. QED
      BY <3>1, <3>2, <3>3, <3>4 DEF SilenceTypes
  <2>3. \A s \in Sessions : /\ left[s] = 0 /\ lastOutput[s] = 0 /\ timer[s] = 0 /\ grace[s] = 0
                             /\ alerted[s] = 0 /\ ~badge[s]
    BY <2>1 DEF Si!Init, Si!Never
  <2>. QED
    BY <2>2, <2>3 DEF SilenceInv, Clocks, LateIsUnseen, Si!AlertsOnlyUnseen
<1>3. ASSUME part = "help" PROVE HelpInv
  <2>1. Ah!Init
    BY <1>3 DEF Init
  <2>2. <<>> \in Seq(HelpEntry) /\ DOMAIN <<>> = {}
    OBVIOUS
  <2>. QED
    BY <2>1, <2>2 DEF Ah!Init, HelpInv, WheelsHaveTasks, HelpIsLookedAfter
<1>4. ASSUME part = "history" PROVE StarsInv
  <2>1. Ch!ChInit
    BY <1>4 DEF Init
  <2>2. chAnswers = <<>> /\ ~chLoaded /\ chEntries = {} /\ chLoads = <<Ch!NewLoad>>
    BY <2>1 DEF Ch!ChInit
  <2>3. chAnswers \in Seq(ElementsOf(chAnswers)) /\ DOMAIN chAnswers = {}
    BY <2>2
  <2>4. chLoads \in Seq(ElementsOf(chLoads)) /\ 1 \in DOMAIN chLoads
    <3>1. Ch!NewLoad \in ElementsOf(<<Ch!NewLoad>>)
      BY DEF ElementsOf
    <3>. QED
      BY <2>2, <3>1
  <2>. QED
    BY <2>2, <2>3, <2>4 DEF StarsInv, FirstLoad, EntriesAreStarred, OnItsWay, LastTellsTheFile
<1>. QED
  BY <1>1, <1>2, <1>3, <1>4 DEF TruthInv

\* What the user is told later is true in every reachable state (silenceDetector.ts,
\* aiHistoryStore.ts, commandTracker.ts, historyStore.ts).
THEOREM TruthTold == Spec => []TheUserIsToldTheTruth
<1>1. TruthInv /\ [Next]_vars => TruthInv'
  BY PartsStep, MarksStep, SilenceStep, HelpStep, StarsStep DEF TruthInv
<1>2. TruthInv => TheUserIsToldTheTruth
  <2>1. MarksInv => Sm!HistoryHoldsSuccesses
    BY CommandAssumption DEF MarksInv, Sm!HistoryHoldsSuccesses
  <2>2. HelpInv => Ah!TasksAreSettled
    BY DEF HelpInv, WheelsHaveTasks, HelpIsLookedAfter, Ah!TasksAreSettled
  <2>3. StarsInv => Ch!StarsAreThoseOfTheFile
    <3>. SUFFICES ASSUME StarsInv, Ch!Quiet, ~chStale
                  PROVE  chFavs = chDiskFavs /\ \A e \in chEntries : e.favorite = (e.command \in chDiskFavs)
      BY DEF Ch!StarsAreThoseOfTheFile
    <3>1. DOMAIN chAnswers = {} /\ chLoaded
      BY DEF StarsInv, FirstLoad, Ch!Quiet
    <3>2. chFavs = chDiskFavs
      BY <3>1 DEF StarsInv, OnItsWay
    <3>. QED
      BY <3>2 DEF StarsInv, EntriesAreStarred
  <2>. QED
    BY <2>1, <2>2, <2>3 DEF TruthInv, SilenceInv, TheUserIsToldTheTruth
<1>. QED
  BY TruthInit, <1>1, <1>2, PTL DEF Spec

-----------------------------------------------------------------------------
\* Every nonempty set of numbers has a least element.
LEMMA LeastNumber ==
  ASSUME NEW S \in SUBSET Nat, S # {}
  PROVE  \E n \in S : \A m \in S : n <= m
<1>. DEFINE Less == OpToRel(<, Nat)
<1>1. \E n \in S : \A m \in S : ~ (<<m, n>> \in Less)
  BY NatLessThanWellFounded, WFMin
<1>2. \A n, m \in Nat : m < n => <<m, n>> \in Less
  BY DEF OpToRel
<1>. HIDE DEF Less
<1>3. PICK n \in S : \A m \in S : ~ (<<m, n>> \in Less)
  BY <1>1
<1>4. \A m \in S : ~ (m < n)
  BY <1>2, <1>3
<1>. QED
  BY <1>4

\* There are sessions, sessions have panes, and another host's is none of ours.
ASSUME TabAssumption ==
  /\ MaxSessions \in Nat \ {0, 1} /\ MaxPanes \in Nat \ {0} /\ MaxOps \in Nat
  /\ RemoteTab \notin 1 .. MaxSessions

\* What a sequence holds.
Elements(s) == {s[i] : i \in DOMAIN s}

\* An element at the end is one more of them.
LEMMA ElementsOfAppend ==
  ASSUME NEW T, NEW s \in Seq(T), NEW e \in T
  PROVE  Append(s, e) \in Seq(T) /\ Elements(Append(s, e)) = Elements(s) \cup {e}
<1>. DEFINE u == Append(s, e)
<1>1. /\ u \in Seq(T) /\ Len(u) = Len(s) + 1 /\ u[Len(s) + 1] = e /\ Len(s) \in Nat
      /\ \A i \in 1 .. Len(s) : u[i] = s[i]
      /\ DOMAIN u = 1 .. Len(u) /\ DOMAIN s = 1 .. Len(s)
  OBVIOUS
<1>. HIDE DEF u
<1>2. ASSUME NEW x \in Elements(u) PROVE x \in Elements(s) \cup {e}
  BY <1>1 DEF Elements
<1>3. ASSUME NEW x \in Elements(s) PROVE x \in Elements(u)
  BY <1>1 DEF Elements
<1>4. e \in Elements(u)
  BY <1>1 DEF Elements
<1>. QED
  BY <1>1, <1>2, <1>3, <1>4 DEF u

\* The first one and the rest are all of them.
LEMMA ElementsOfTail ==
  ASSUME NEW T, NEW s \in Seq(T), s # <<>>
  PROVE  /\ Tail(s) \in Seq(T) /\ Head(s) \in T
         /\ Elements(s) = {Head(s)} \cup Elements(Tail(s))
<1>. DEFINE u == Tail(s)
<1>1. /\ u \in Seq(T) /\ Len(u) = Len(s) - 1 /\ Len(s) \in Nat \ {0} /\ Head(s) = s[1] /\ s[1] \in T
      /\ \A i \in 1 .. Len(u) : u[i] = s[i + 1]
      /\ DOMAIN u = 1 .. Len(u) /\ DOMAIN s = 1 .. Len(s)
  OBVIOUS
<1>. HIDE DEF u
<1>2. ASSUME NEW x \in Elements(s) PROVE x \in {Head(s)} \cup Elements(u)
  <2>1. PICK i \in 1 .. Len(s) : x = s[i]
    BY <1>1 DEF Elements
  <2>2. i # 1 => i - 1 \in 1 .. Len(u) /\ u[i - 1] = s[i]
    BY <1>1, <2>1
  <2>. QED
    BY <1>1, <2>1, <2>2 DEF Elements
<1>3. ASSUME NEW x \in Elements(u) PROVE x \in Elements(s)
  <2>1. PICK i \in 1 .. Len(u) : x = u[i]
    BY <1>1 DEF Elements
  <2>2. i + 1 \in 1 .. Len(s) /\ x = s[i + 1]
    BY <1>1, <2>1
  <2>. QED
    BY <1>1, <2>2 DEF Elements
<1>4. Head(s) \in Elements(s)
  BY <1>1 DEF Elements
<1>. QED
  BY <1>1, <1>2, <1>3, <1>4 DEF u

\* One sequence after another.
LEMMA OneAfterAnother ==
  ASSUME NEW T, NEW s \in Seq(T), NEW t \in Seq(T)
  PROVE  /\ s \o t \in Seq(T) /\ Len(s \o t) = Len(s) + Len(t) /\ Len(s) \in Nat /\ Len(t) \in Nat
         /\ \A i \in 1 .. Len(s) + Len(t) : (s \o t)[i] = IF i <= Len(s) THEN s[i] ELSE t[i - Len(s)]
  OBVIOUS

\* Two sequences in a row hold what each holds.
LEMMA ElementsOfBoth ==
  ASSUME NEW T, NEW s \in Seq(T), NEW t \in Seq(T)
  PROVE  s \o t \in Seq(T) /\ Elements(s \o t) = Elements(s) \cup Elements(t)
<1>. DEFINE u == s \o t
<1>1. /\ u \in Seq(T) /\ Len(u) = Len(s) + Len(t) /\ Len(s) \in Nat /\ Len(t) \in Nat
      /\ \A i \in 1 .. Len(s) : u[i] = s[i]
      /\ \A i \in Len(s) + 1 .. Len(u) : u[i] = t[i - Len(s)]
      /\ DOMAIN u = 1 .. Len(u) /\ DOMAIN s = 1 .. Len(s) /\ DOMAIN t = 1 .. Len(t)
  OBVIOUS
<1>. HIDE DEF u
<1>2. ASSUME NEW x \in Elements(u) PROVE x \in Elements(s) \cup Elements(t)
  <2>1. PICK i \in 1 .. Len(u) : x = u[i]
    BY <1>1 DEF Elements
  <2>2. CASE i \in 1 .. Len(s)
    BY <1>1, <2>1, <2>2 DEF Elements
  <2>3. CASE i \notin 1 .. Len(s)
    <3>1. i - Len(s) \in 1 .. Len(t) /\ x = t[i - Len(s)]
      BY <1>1, <2>1, <2>3
    <3>. QED
      BY <1>1, <3>1 DEF Elements
  <2>. QED
    BY <2>2, <2>3
<1>3. ASSUME NEW x \in Elements(s) PROVE x \in Elements(u)
  <2>1. PICK i \in 1 .. Len(s) : x = s[i]
    BY <1>1 DEF Elements
  <2>2. i \in 1 .. Len(u) /\ x = u[i]
    BY <1>1, <2>1
  <2>. QED
    BY <1>1, <2>2 DEF Elements
<1>4. ASSUME NEW x \in Elements(t) PROVE x \in Elements(u)
  <2>1. PICK i \in 1 .. Len(t) : x = t[i]
    BY <1>1 DEF Elements
  <2>2. i + Len(s) \in Len(s) + 1 .. Len(u) /\ (i + Len(s)) - Len(s) = i
    BY <1>1, <2>1
  <2>3. i + Len(s) \in 1 .. Len(u) /\ x = u[i + Len(s)]
    BY <1>1, <2>1, <2>2
  <2>. QED
    BY <1>1, <2>3 DEF Elements
<1>. QED
  BY <1>1, <1>2, <1>3, <1>4 DEF u

-----------------------------------------------------------------------------
\* No two tabs show the same session.
EachOnce(l) == \A i, j \in DOMAIN l : l[i].id = l[j].id => i = j

\* Leaving sessions out, tab by tab.
Kept(f, l, ids, n) ==
  /\ f[0] = <<>>
  /\ \A i \in 1 .. n : f[i] = IF l[i].id \in ids THEN f[i - 1] ELSE Append(f[i - 1], l[i])

\* What is left of the first i tabs: the other sessions, once each.
LeftOf(T, s, l, ids, i) ==
  /\ s \in Seq(T)
  /\ Tb!Ids(s) = {l[j].id : j \in 1 .. i} \ ids
  /\ (\A j, k \in 1 .. i : l[j].id = l[k].id => j = k) => EachOnce(s)

\* One more tab is looked at.
LEMMA OneMoreKept ==
  ASSUME NEW T, NEW l \in Seq(T), NEW ids, NEW k \in 1 .. Len(l), NEW s,
         LeftOf(T, s, l, ids, k - 1)
  PROVE  LeftOf(T, IF l[k].id \in ids THEN s ELSE Append(s, l[k]), l, ids, k)
<1>. DEFINE A == {l[j].id : j \in 1 .. k - 1}
            B == {l[j].id : j \in 1 .. k}
<1>0. k \in Nat \ {0} /\ k <= Len(l) /\ Len(l) \in Nat /\ l[k] \in T
  OBVIOUS
<1>1. B = A \cup {l[k].id}
  <2>1. 1 .. k = (1 .. k - 1) \cup {k}
    BY <1>0
  <2>. QED
    BY <2>1
<1>2. \A j \in 1 .. k - 1 : l[j].id \in A
  OBVIOUS
<1>. HIDE DEF A, B
<1>3. /\ s \in Seq(T) /\ Tb!Ids(s) = A \ ids
      /\ (\A i, j \in 1 .. k - 1 : l[i].id = l[j].id => i = j) => EachOnce(s)
  BY DEF LeftOf, A
<1>4. CASE l[k].id \in ids
  <2>1. (\A i, j \in 1 .. k : l[i].id = l[j].id => i = j) =>
           \A i, j \in 1 .. k - 1 : l[i].id = l[j].id => i = j
    BY <1>0
  <2>. QED
    BY <1>1, <1>3, <1>4, <2>1 DEF LeftOf, B
<1>5. CASE l[k].id \notin ids
  <2>. DEFINE u == Append(s, l[k])
  <2>1. /\ u \in Seq(T) /\ Len(u) = Len(s) + 1 /\ u[Len(s) + 1] = l[k] /\ Len(s) \in Nat
        /\ \A i \in 1 .. Len(s) : u[i] = s[i]
        /\ DOMAIN u = 1 .. Len(s) + 1 /\ DOMAIN s = 1 .. Len(s)
    BY <1>0, <1>3
  <2>. HIDE DEF u
  <2>2. Tb!Ids(u) = Tb!Ids(s) \cup {l[k].id}
    <3>1. 1 .. Len(s) + 1 = (1 .. Len(s)) \cup {Len(s) + 1}
      BY <2>1
    <3>. QED
      BY <2>1, <3>1 DEF Tb!Ids
  <2>3. ASSUME \A i, j \in 1 .. k : l[i].id = l[j].id => i = j
        PROVE  EachOnce(u)
    <3>1. EachOnce(s)
      <4>1. \A i, j \in 1 .. k - 1 : l[i].id = l[j].id => i = j
        BY <1>0, <2>3
      <4>. QED
        BY <1>3, <4>1
    <3>2. l[k].id \notin A
      BY <1>0, <2>3 DEF A
    <3>3. \A i \in 1 .. Len(s) : u[i].id \in A
      BY <1>3, <2>1 DEF Tb!Ids
    <3>. QED
      BY <2>1, <3>1, <3>2, <3>3 DEF EachOnce
  <2>. QED
    BY <1>1, <1>3, <1>5, <2>1, <2>2, <2>3 DEF LeftOf, B, u
<1>. QED
  BY <1>4, <1>5

\* So it can be done tab by tab.
LEMMA KeptExists ==
  ASSUME NEW T, NEW l \in Seq(T), NEW ids
  PROVE  \E f : f \in [0 .. Len(l) -> Seq(T)] /\ Kept(f, l, ids, Len(l))
<1>. DEFINE Can(n) == \E f : f \in [0 .. n -> Seq(T)] /\ Kept(f, l, ids, n)
            Bad == {n \in 0 .. Len(l) : ~Can(n)}
<1>. SUFFICES ASSUME Bad # {} PROVE FALSE
  <2>1. Len(l) \in 0 .. Len(l)
    OBVIOUS
  <2>. QED
    BY <2>1
<1>0. Bad \in SUBSET Nat
  OBVIOUS
<1>1. PICK k \in Bad : \A m \in Bad : k <= m
  <2>. HIDE DEF Bad
  <2>. QED
    BY <1>0, LeastNumber
<1>2. k \in 0 .. Len(l) /\ ~Can(k)
  BY <1>1
<1>3. k # 0
  <2>1. Can(0)
    <3>. DEFINE f == [i \in {0} |-> <<>>]
    <3>1. f \in [0 .. 0 -> Seq(T)] /\ f[0] = <<>> /\ 1 .. 0 = {}
      OBVIOUS
    <3>2. Kept(f, l, ids, 0)
      BY <3>1 DEF Kept
    <3>. QED
      BY <3>1, <3>2
  <2>. QED
    BY <1>2, <2>1
<1>4. PICK f : f \in [0 .. k - 1 -> Seq(T)] /\ Kept(f, l, ids, k - 1)
  <2>1. k - 1 \in 0 .. Len(l) /\ k - 1 \notin Bad
    <3>. HIDE DEF Bad
    <3>. QED
      BY <1>1, <1>2, <1>3
  <2>. QED
    BY <2>1
<1>5. k \in 1 .. Len(l) /\ l[k] \in T /\ k - 1 \in 0 .. k - 1 /\ k \notin 0 .. k - 1
  BY <1>2, <1>3
<1>. DEFINE x == IF l[k].id \in ids THEN f[k - 1] ELSE Append(f[k - 1], l[k])
            g == [i \in 0 .. k |-> IF i = k THEN x ELSE f[i]]
<1>6. x \in Seq(T)
  BY <1>4, <1>5
<1>7. g \in [0 .. k -> Seq(T)]
  <2>. HIDE DEF x
  <2>1. \A i \in 0 .. k : i # k => i \in 0 .. k - 1
    BY <1>5
  <2>. QED
    BY <1>4, <1>6, <2>1
<1>8. Kept(g, l, ids, k)
  <2>1. g[0] = <<>> /\ g[k] = x /\ \A i \in 0 .. k - 1 : g[i] = f[i]
    <3>. HIDE DEF x
    <3>. QED
      BY <1>4, <1>5 DEF Kept
  <2>. HIDE DEF g
  <2>2. ASSUME NEW i \in 1 .. k
        PROVE  g[i] = IF l[i].id \in ids THEN g[i - 1] ELSE Append(g[i - 1], l[i])
    <3>1. i - 1 \in 0 .. k - 1 /\ g[i - 1] = f[i - 1]
      BY <1>5, <2>1
    <3>2. CASE i = k
      BY <2>1, <3>1, <3>2
    <3>3. CASE i # k
      <4>1. i \in 1 .. k - 1 /\ i \in 0 .. k - 1
        BY <1>5, <3>3
      <4>2. f[i] = IF l[i].id \in ids THEN f[i - 1] ELSE Append(f[i - 1], l[i])
        BY <1>4, <4>1 DEF Kept
      <4>. QED
        BY <2>1, <3>1, <4>1, <4>2
    <3>. QED
      BY <3>2, <3>3
  <2>. QED
    BY <2>1, <2>2 DEF Kept
<1>. QED
  BY <1>2, <1>7, <1>8

\* Without leaves the other sessions, in a sequence, and repeats none.
LEMMA WithoutLeaves ==
  ASSUME NEW T, NEW l \in Seq(T), NEW ids
  PROVE  /\ Tb!Without(l, ids) \in Seq(T)
         /\ Tb!Ids(Tb!Without(l, ids)) = Tb!Ids(l) \ ids
         /\ EachOnce(l) => EachOnce(Tb!Without(l, ids))
<1>. DEFINE n == Len(l)
            F == CHOOSE g : g = [i \in 0 .. Len(l) |->
                                   IF i = 0 THEN <<>>
                                   ELSE IF l[i].id \in ids THEN g[i - 1] ELSE Append(g[i - 1], l[i])]
            Is(g) == g = [i \in 0 .. Len(l) |->
                            IF i = 0 THEN <<>>
                            ELSE IF l[i].id \in ids THEN g[i - 1] ELSE Append(g[i - 1], l[i])]
<1>0. n \in Nat /\ DOMAIN l = 1 .. n
  OBVIOUS
<1>1. Is(F)
  <2>1. PICK f : f \in [0 .. n -> Seq(T)] /\ Kept(f, l, ids, n)
    BY KeptExists
  <2>2. f = [i \in 0 .. n |-> f[i]]
    BY <2>1
  <2>3. ASSUME NEW i \in 0 .. n
        PROVE  f[i] = IF i = 0 THEN <<>>
                      ELSE IF l[i].id \in ids THEN f[i - 1] ELSE Append(f[i - 1], l[i])
    <3>1. CASE i = 0
      BY <2>1, <3>1 DEF Kept
    <3>2. CASE i # 0
      <4>1. i \in 1 .. n /\ i > 0
        BY <1>0, <3>2
      <4>2. f[i] = IF l[i].id \in ids THEN f[i - 1] ELSE Append(f[i - 1], l[i])
        BY <2>1, <4>1 DEF Kept
      <4>. QED
        BY <3>2, <4>1, <4>2
    <3>. QED
      BY <3>1, <3>2
  <2>4. Is(f)
    BY <2>2, <2>3, Zenon
  <2>. QED
    BY <2>4, Zenon
<1>2. Tb!Without(l, ids) = F[n]
  BY Zenon DEF Tb!Without
<1>. HIDE DEF F
<1>3. F[0] = <<>>
  <2>1. 0 \in 0 .. n
    BY <1>0
  <2>. QED
    BY <1>1, <2>1
<1>4. ASSUME NEW i \in 1 .. n
      PROVE  F[i] = IF l[i].id \in ids THEN F[i - 1] ELSE Append(F[i - 1], l[i])
  <2>1. i \in 0 .. n /\ i > 0 /\ i # 0
    BY <1>0
  <2>. QED
    BY <1>1, <2>1
<1>. HIDE DEF Is, n
<1>5. \A i \in 0 .. n : LeftOf(T, F[i], l, ids, i)
  <2>. DEFINE Bad == {i \in 0 .. n : ~LeftOf(T, F[i], l, ids, i)}
  <2>. SUFFICES ASSUME Bad # {} PROVE FALSE
    OBVIOUS
  <2>0. Bad \in SUBSET Nat
    BY <1>0
  <2>1. PICK k \in Bad : \A m \in Bad : k <= m
    <3>. HIDE DEF Bad
    <3>. QED
      BY <2>0, LeastNumber
  <2>2. k \in 0 .. n /\ ~LeftOf(T, F[k], l, ids, k)
    BY <2>1
  <2>3. k # 0
    <3>1. <<>> \in Seq(T) /\ Tb!Ids(<<>>) = {} /\ EachOnce(<<>>) /\ {l[j].id : j \in 1 .. 0} = {}
      BY DEF Tb!Ids, EachOnce
    <3>2. LeftOf(T, F[0], l, ids, 0)
      BY <1>3, <3>1 DEF LeftOf
    <3>. QED
      BY <2>2, <3>2
  <2>4. LeftOf(T, F[k - 1], l, ids, k - 1)
    <3>1. k - 1 \in 0 .. n /\ k - 1 \notin Bad
      BY <1>0, <2>1, <2>2, <2>3
    <3>. QED
      BY <3>1
  <2>5. k \in 1 .. Len(l) /\ k \in 1 .. n
    BY <1>0, <2>2, <2>3 DEF n
  <2>6. LeftOf(T, IF l[k].id \in ids THEN F[k - 1] ELSE Append(F[k - 1], l[k]), l, ids, k)
    <3>. HIDE DEF Bad
    <3>. QED
      BY <2>4, <2>5, OneMoreKept
  <2>. QED
    BY <1>4, <2>2, <2>5, <2>6
<1>6. LeftOf(T, F[n], l, ids, n)
  BY <1>0, <1>5
<1>. QED
  BY <1>0, <1>2, <1>6 DEF LeftOf, EachOnce, Tb!Ids

\* Replacing a session leaves the ids where they are.
LEMMA ReplaceKeeps ==
  ASSUME NEW T, NEW l \in Seq(T), NEW x \in T
  PROVE  /\ Tb!Replace(l, x) \in Seq(T)
         /\ Tb!Ids(Tb!Replace(l, x)) = Tb!Ids(l)
         /\ EachOnce(l) => EachOnce(Tb!Replace(l, x))
<1>. DEFINE u == Tb!Replace(l, x)
<1>1. /\ u \in Seq(T) /\ DOMAIN u = DOMAIN l
      /\ \A i \in DOMAIN l : u[i].id = l[i].id
  BY DEF Tb!Replace
<1>. HIDE DEF u
<1>2. Tb!Ids(u) = Tb!Ids(l)
  BY <1>1 DEF Tb!Ids
<1>3. EachOnce(l) => EachOnce(u)
  BY <1>1 DEF EachOnce
<1>. QED
  BY <1>1, <1>2, <1>3 DEF u

\* A tab more at the end.
LEMMA AppendAdds ==
  ASSUME NEW T, NEW l \in Seq(T), NEW x \in T
  PROVE  /\ Append(l, x) \in Seq(T) /\ Append(l, x) # <<>> /\ Tb!Last(Append(l, x)) = x
         /\ Tb!Ids(Append(l, x)) = Tb!Ids(l) \cup {x.id}
         /\ EachOnce(l) /\ x.id \notin Tb!Ids(l) => EachOnce(Append(l, x))
<1>. DEFINE u == Append(l, x)
<1>1. /\ u \in Seq(T) /\ Len(u) = Len(l) + 1 /\ u[Len(l) + 1] = x /\ Len(l) \in Nat /\ u # <<>>
      /\ \A i \in 1 .. Len(l) : u[i] = l[i]
      /\ DOMAIN u = 1 .. Len(l) + 1 /\ DOMAIN l = 1 .. Len(l)
  OBVIOUS
<1>. HIDE DEF u
<1>2. Tb!Ids(u) = Tb!Ids(l) \cup {x.id}
  <2>1. 1 .. Len(l) + 1 = (1 .. Len(l)) \cup {Len(l) + 1}
    BY <1>1
  <2>. QED
    BY <1>1, <2>1 DEF Tb!Ids
<1>3. ASSUME EachOnce(l), x.id \notin Tb!Ids(l)
      PROVE  EachOnce(u)
  BY <1>1, <1>3 DEF EachOnce, Tb!Ids
<1>4. Tb!Last(u) = x
  BY <1>1 DEF Tb!Last
<1>. QED
  BY <1>1, <1>2, <1>3, <1>4 DEF u

\* A tab that is dragged is there once, like the others.
LEMMA DragKeeps ==
  ASSUME NEW T, NEW l \in Seq(T), NEW i \in DOMAIN l, NEW j \in DOMAIN l
  PROVE  LET t == Tb!InsertAt(Tb!RemoveAt(l, i), j, l[i])
         IN  t \in Seq(T) /\ Tb!Ids(t) = Tb!Ids(l) /\ (EachOnce(l) => EachOnce(t))
<1>. DEFINE r == Tb!RemoveAt(l, i)
            t == Tb!InsertAt(r, j, l[i])
            n == Len(l)
            from(k) == LET m == IF k < j THEN k ELSE k - 1
                       IN  IF k = j THEN i ELSE IF m < i THEN m ELSE m + 1
<1>0. n \in Nat /\ DOMAIN l = 1 .. n /\ i \in 1 .. n /\ j \in 1 .. n /\ l[i] \in T
  OBVIOUS
<1>1. r \in Seq(T) /\ Len(r) = n - 1 /\ \A k \in 1 .. n - 1 : r[k] = IF k < i THEN l[k] ELSE l[k + 1]
  <2>. DEFINE a == SubSeq(l, 1, i - 1)
              b == SubSeq(l, i + 1, n)
  <2>1. a \in Seq(T) /\ Len(a) = i - 1 /\ \A k \in 1 .. i - 1 : a[k] = l[k]
    BY <1>0
  <2>2. b \in Seq(T) /\ Len(b) = n - i /\ \A k \in 1 .. n - i : b[k] = l[k + i]
    BY <1>0
  <2>3. r = a \o b
    BY DEF Tb!RemoveAt
  <2>. HIDE DEF a, b, r, n
  <2>4. /\ r \in Seq(T) /\ Len(r) = Len(a) + Len(b)
        /\ \A k \in 1 .. Len(a) + Len(b) : r[k] = IF k <= Len(a) THEN a[k] ELSE b[k - Len(a)]
    BY <2>1, <2>2, <2>3, OneAfterAnother
  <2>5. ASSUME NEW k \in 1 .. n - 1
        PROVE  r[k] = IF k < i THEN l[k] ELSE l[k + 1]
    <3>1. r[k] = IF k <= i - 1 THEN a[k] ELSE b[k - (i - 1)]
      BY <1>0, <2>1, <2>2, <2>4
    <3>2. CASE k < i
      BY <1>0, <2>1, <3>1, <3>2
    <3>3. CASE ~(k < i)
      <4>1. k - (i - 1) \in 1 .. n - i /\ (k - (i - 1)) + i = k + 1
        BY <1>0, <3>3
      <4>2. b[k - (i - 1)] = l[k + 1]
        BY <2>2, <4>1
      <4>3. ~(k <= i - 1)
        BY <1>0, <3>3
      <4>. QED
        BY <3>1, <3>3, <4>2, <4>3
    <3>. QED
      BY <3>2, <3>3
  <2>. QED
    BY <1>0, <2>1, <2>2, <2>4, <2>5
<1>. HIDE DEF r
<1>2. t \in Seq(T) /\ Len(t) = n /\ \A k \in 1 .. n : t[k] = IF k = j THEN l[i] ELSE IF k < j THEN r[k] ELSE r[k - 1]
  <2>. DEFINE a == SubSeq(r, 1, j - 1)
              b == SubSeq(r, j, Len(r))
  <2>1. a \in Seq(T) /\ Len(a) = j - 1 /\ \A k \in 1 .. j - 1 : a[k] = r[k]
    BY <1>0, <1>1
  <2>2. b \in Seq(T) /\ Len(b) = n - j /\ \A k \in 1 .. n - j : b[k] = r[k + j - 1]
    BY <1>0, <1>1
  <2>. DEFINE e == <<l[i]>>
              c == a \o e
  <2>3. t = c \o b
    BY DEF Tb!InsertAt
  <2>0. e \in Seq(T) /\ Len(e) = 1 /\ e[1] = l[i]
    BY <1>0
  <2>. HIDE DEF a, b, e, t, n
  <2>10. c = a \o e
    OBVIOUS
  <2>. HIDE DEF c
  <2>4. /\ t \in Seq(T) /\ Len(t) = Len(a) + 1 + Len(b)
        /\ \A k \in 1 .. Len(a) + 1 + Len(b) :
             t[k] = IF k <= Len(a) THEN a[k]
                    ELSE IF k = Len(a) + 1 THEN e[1] ELSE b[k - (Len(a) + 1)]
    <3>1. a \in Seq(T) /\ b \in Seq(T) /\ e \in Seq(T) /\ Len(e) = 1
      BY <2>0, <2>1, <2>2
    <3>2. /\ c \in Seq(T) /\ Len(c) = Len(a) + 1 /\ Len(a) \in Nat /\ Len(b) \in Nat
          /\ \A k \in 1 .. Len(a) + 1 : c[k] = IF k <= Len(a) THEN a[k] ELSE e[k - Len(a)]
      <4>1. /\ c \in Seq(T) /\ Len(c) = Len(a) + Len(e) /\ Len(a) \in Nat
            /\ \A k \in 1 .. Len(a) + Len(e) : c[k] = IF k <= Len(a) THEN a[k] ELSE e[k - Len(a)]
        BY <2>10, <3>1, OneAfterAnother
      <4>. QED
        BY <3>1, <4>1
    <3>3. c[Len(a) + 1] = e[(Len(a) + 1) - Len(a)] /\ (Len(a) + 1) - Len(a) = 1
      BY <3>2
    <3>4. /\ t \in Seq(T) /\ Len(t) = Len(c) + Len(b)
          /\ \A k \in 1 .. Len(c) + Len(b) : t[k] = IF k <= Len(c) THEN c[k] ELSE b[k - Len(c)]
      BY <2>3, <3>1, <3>2, OneAfterAnother
    <3>. QED
      BY <3>2, <3>3, <3>4
  <2>5. Len(t) = n /\ Len(a) + 1 = j
    BY <1>0, <2>1, <2>2, <2>4
  <2>6. ASSUME NEW k \in 1 .. n
        PROVE  t[k] = IF k = j THEN l[i] ELSE IF k < j THEN r[k] ELSE r[k - 1]
    <3>1. t[k] = IF k <= j - 1 THEN a[k] ELSE IF k = j THEN l[i] ELSE b[k - j]
      BY <1>0, <2>0, <2>1, <2>2, <2>4, <2>5
    <3>2. CASE k <= j
      BY <1>0, <2>1, <3>1, <3>2
    <3>3. CASE ~(k <= j)
      <4>1. k - j \in 1 .. n - j /\ (k - j) + j - 1 = k - 1 /\ k # j /\ ~(k < j) /\ ~(k <= j - 1)
        BY <1>0, <3>3
      <4>2. b[k - j] = r[k - 1]
        BY <2>2, <4>1
      <4>. QED
        BY <3>1, <3>3, <4>1, <4>2
    <3>. QED
      BY <3>2, <3>3
  <2>. QED
    BY <2>4, <2>5, <2>6
<1>. HIDE DEF t, n
<1>3. ASSUME NEW k \in 1 .. n
      PROVE  from(k) \in 1 .. n /\ t[k] = l[from(k)]
  <2>1. CASE k = j
    BY <1>0, <1>2, <2>1
  <2>2. CASE k < j
    <3>1. k \in 1 .. n - 1 /\ k # j
      BY <1>0, <2>2
    <3>. QED
      BY <1>0, <1>1, <1>2, <2>2, <3>1
  <2>3. CASE k > j
    <3>1. k - 1 \in 1 .. n - 1 /\ k # j /\ ~(k < j) /\ (k - 1) + 1 = k
      BY <1>0, <2>3
    <3>2. t[k] = r[k - 1]
      BY <1>2, <3>1
    <3>. QED
      BY <1>0, <1>1, <3>1, <3>2
  <2>. QED
    BY <1>0, <2>1, <2>2, <2>3
<1>4. \A k, m \in 1 .. n : from(k) = from(m) => k = m
  BY <1>0
<1>5. ASSUME NEW p \in 1 .. n
      PROVE  \E k \in 1 .. n : from(k) = p
  <2>. DEFINE m == IF p < i THEN p ELSE p - 1
              k == IF m < j THEN m ELSE m + 1
  <2>1. CASE p = i
    <3>1. from(j) = p
      BY <2>1
    <3>. QED
      BY <1>0, <3>1
  <2>2. CASE p # i
    <3>1. k \in 1 .. n /\ from(k) = p
      BY <1>0, <2>2
    <3>. HIDE DEF k
    <3>. QED
      BY <3>1
  <2>. QED
    BY <2>1, <2>2
<1>6. DOMAIN t = 1 .. n
  BY <1>2
<1>. HIDE DEF from
<1>7. Tb!Ids(t) = Tb!Ids(l)
  <2>1. ASSUME NEW x \in Tb!Ids(t) PROVE x \in Tb!Ids(l)
    BY <1>0, <1>3, <1>6 DEF Tb!Ids
  <2>2. ASSUME NEW x \in Tb!Ids(l) PROVE x \in Tb!Ids(t)
    <3>1. PICK p \in 1 .. n : x = l[p].id
      BY <1>0 DEF Tb!Ids
    <3>2. PICK k \in 1 .. n : from(k) = p
      BY <1>5
    <3>. QED
      BY <1>3, <1>6, <3>1, <3>2 DEF Tb!Ids
  <2>. QED
    BY <2>1, <2>2
<1>8. EachOnce(l) => EachOnce(t)
  <2>. SUFFICES ASSUME EachOnce(l), NEW k \in 1 .. n, NEW m \in 1 .. n, t[k].id = t[m].id
                PROVE  k = m
    BY <1>6 DEF EachOnce
  <2>1. from(k) = from(m)
    BY <1>0, <1>3 DEF EachOnce
  <2>. QED
    BY <1>4, <2>1
<1>. QED
  BY <1>2, <1>7, <1>8 DEF t, r

\* The last tab is one of them, and a session that is there is found.
LEMMA LastAndFound ==
  ASSUME NEW T, NEW l \in Seq(T)
  PROVE  /\ Tb!LastId(l) = IF l = <<>> THEN None ELSE l[Len(l)].id
         /\ l # <<>> => Tb!LastId(l) \in Tb!Ids(l)
         /\ \A id \in Tb!Ids(l) : Tb!Find(l, id) \in T /\ Tb!Find(l, id).id = id
<1>1. Tb!LastId(l) = IF l = <<>> THEN None ELSE l[Len(l)].id
  BY DEF Tb!LastId, Tb!Last
<1>2. l # <<>> => Len(l) \in DOMAIN l
  OBVIOUS
<1>3. ASSUME NEW id \in Tb!Ids(l)
      PROVE  Tb!Find(l, id) \in T /\ Tb!Find(l, id).id = id
  <2>1. \E i \in DOMAIN l : l[i].id = id
    BY <1>3 DEF Tb!Ids
  <2>. QED
    BY <2>1 DEF Tb!Find
<1>. QED
  BY <1>1, <1>2, <1>3 DEF Tb!Ids

\* Lists of the same sessions, without repetition, are as long.
LEMMA AsLong ==
  ASSUME NEW T, NEW l \in Seq(T), NEW m \in Seq(T), EachOnce(l), EachOnce(m),
         Tb!Ids(l) = Tb!Ids(m)
  PROVE  Len(l) = Len(m)
<1>1. ASSUME NEW s \in Seq(T), EachOnce(s)
      PROVE  IsFiniteSet(Tb!Ids(s)) /\ Cardinality(Tb!Ids(s)) = Len(s)
  <2>. DEFINE f == [i \in 1 .. Len(s) |-> s[i].id]
  <2>1. f \in Bijection(1 .. Len(s), Tb!Ids(s))
    BY <1>1 DEF Bijection, Injection, Surjection, IsInjective, EachOnce, Tb!Ids
  <2>2. ExistsBijection(1 .. Len(s), Tb!Ids(s))
    BY <2>1 DEF ExistsBijection
  <2>3. IsFiniteSet(1 .. Len(s)) /\ Cardinality(1 .. Len(s)) = Len(s)
    <3>1. Len(s) \in Nat /\ 1 \in Int /\ Len(s) \in Int
      OBVIOUS
    <3>2. IsFiniteSet(1 .. Len(s)) /\ Cardinality(1 .. Len(s)) = IF 1 > Len(s) THEN 0 ELSE Len(s) - 1 + 1
      BY <3>1, FS_Interval
    <3>. QED
      BY <3>1, <3>2
  <2>. QED
    BY <2>2, <2>3, FS_Bijection
<1>. QED
  BY <1>1

\* The calls that close many tabs close each of them.
LEMMA ClosesAll ==
  ASSUME NEW ids, IsFiniteSet(ids)
  PROVE  LET C == {Tb!CloseCall(id, TRUE) : id \in ids \ {RemoteTab}}
         IN  Tb!Closes(ids) \in Seq(C) /\ Elements(Tb!Closes(ids)) = C
<1>. DEFINE J == ids \ {RemoteTab}
            C == {Tb!CloseCall(id, TRUE) : id \in J}
            n == Cardinality(C)
<1>1. IsFiniteSet(C) /\ n \in Nat /\ ExistsBijection(1 .. n, C)
  <2>1. IsFiniteSet(J)
    BY FS_RemoveElement
  <2>. DEFINE g == [id \in J |-> Tb!CloseCall(id, TRUE)]
  <2>2. g \in Surjection(J, C)
    BY DEF Surjection
  <2>3. IsFiniteSet(C)
    <3>. HIDE DEF C, J, g
    <3>. QED
      BY <2>1, <2>2, FS_Surjection
  <2>. QED
    <3>. HIDE DEF C
    <3>. QED
      BY <2>3, FS_CardinalityType
<1>. DEFINE P == {f \in [1 .. n -> C] : Tb!IsInjective(f)}
            F == CHOOSE f \in [1 .. n -> C] : Tb!IsInjective(f)
<1>2. Tb!Closes(ids) = F
  BY DEF Tb!Closes, Tb!SetToSeq, Tb!Cardinality, Cardinality
<1>. HIDE DEF C, n
<1>3. F \in [1 .. n -> C] /\ Tb!IsInjective(F)
  <2>1. PICK f : f \in Bijection(1 .. n, C)
    BY <1>1 DEF ExistsBijection
  <2>2. f \in [1 .. n -> C] /\ Tb!IsInjective(f)
    BY <2>1 DEF Bijection, Injection, IsInjective, Tb!IsInjective
  <2>. QED
    BY <2>2
<1>. HIDE DEF F
<1>4. F \in Surjection(1 .. n, C)
  <2>1. F \in Injection(1 .. n, C)
    BY <1>3 DEF Injection, IsInjective, Tb!IsInjective
  <2>2. Cardinality(1 .. n) = n
    <3>1. 1 \in Int /\ n \in Int
      BY <1>1
    <3>2. Cardinality(1 .. n) = IF 1 > n THEN 0 ELSE n - 1 + 1
      BY <3>1, FS_Interval
    <3>. QED
      BY <1>1, <3>2
  <2>. QED
    BY <1>1, <2>1, <2>2, FS_Injection DEF n
<1>5. F \in Seq(C) /\ DOMAIN F = 1 .. n
  BY <1>1, <1>3
<1>6. Elements(F) = C
  BY <1>4, <1>5 DEF Surjection, Elements
<1>. QED
  BY <1>2, <1>5, <1>6 DEF C

-----------------------------------------------------------------------------
\* The server's sessions, lists of them, and what goes over the wire.
TabSession == [id : Tb!Locals, panes : 1 .. MaxPanes]
TabLists == {l \in Seq(TabSession) : EachOnce(l)}
TabCall ==
  [op : {"list"}, why : {"init", "refresh"}]
    \cup [op : {"create"}, layout : BOOLEAN]
    \cup {c \in [op : {"attach"}, id : Tb!Locals, why : {"init", "refresh", "switch"}, list : TabLists] :
            c.why # "switch" => c.id \in Tb!Ids(c.list)}
    \cup [op : {"close"}, id : Tb!Locals, quiet : BOOLEAN]
    \cup [op : {"split", "closePane"}, id : Tb!Locals, why : {"menu", "layout", "exit"}]
TabReply ==
  {r \in [call : TabCall, ok : BOOLEAN, answer : TabLists \cup TabSession \cup Tb!Locals \cup {None}] :
     /\ r.call.op = "list" => r.ok /\ r.answer \in TabLists
     /\ r.ok /\ r.call.op \in {"create", "attach", "split", "closePane"} => r.answer \in TabSession
     /\ r.ok /\ r.call.op \in {"attach", "split", "closePane"} => r.answer.id = r.call.id
     /\ r.ok /\ r.call.op = "close" => r.answer \in Tb!Locals \cup {None}}
TabNews == {Tb!ListChanged} \cup {Tb!Updated(x) : x \in TabSession}

\* The first call asks for the list, and the first answer brings it.
Asks(c, why) == c.op = "list" /\ c.why = why
FirstAsks(cs, rs) == \A i \in DOMAIN cs : Asks(cs[i], "init") => i = 1 /\ rs = <<>>
FirstAnswers(rs) == \A i \in DOMAIN rs : Asks(rs[i].call, "init") => i = 1
Starting(cs) == \E c \in Elements(cs) : Asks(c, "init")

\* Nobody has said that the list is another one.
TabsQuiet(bs, cs) ==
  Tb!ListChanged \notin Elements(bs) /\ \A c \in Elements(cs) : ~Asks(c, "refresh")

\* A list is on its way that the tab bar will become.
BringsTabs(r) ==
  \/ Asks(r.call, "refresh")
  \/ Asks(r.call, "init") /\ r.answer # <<>>
  \/ Tb!BringsAList(r.call)
TabsComing(cs, rs) ==
  (\E c \in Elements(cs) : Tb!BringsAList(c)) \/ \E r \in Elements(rs) : BringsTabs(r)

\* A session that is told of is the server's, or a list follows.
NewsBacked(bs, S) ==
  \A i \in DOMAIN bs : bs[i] # Tb!ListChanged =>
    \/ bs[i].session.id \in S
    \/ \E j \in DOMAIN bs : j > i /\ bs[j] = Tb!ListChanged
ShowsOf(r, S) ==
  r.ok => /\ r.call.op # "create"
          /\ (r.call.op \in {"split", "closePane"} \/ (r.call.op = "attach" /\ r.call.why = "switch"))
               => r.answer.id \in S
AnswersBacked(rs, S) ==
  \A i \in DOMAIN rs :
    ShowsOf(rs[i], S) \/ \E j \in DOMAIN rs : j > i /\ Asks(rs[j].call, "refresh")

\* The last list answered.
LastListIs(rs, ids) ==
  \A i \in DOMAIN rs :
    rs[i].call.op = "list" /\ (\A j \in DOMAIN rs : j > i => rs[j].call.op # "list")
      => Tb!Ids(rs[i].answer) = ids

\* The tabs are the server's sessions but for those being closed.
TabsClosing(cs, id) == \E c \in Elements(cs) : c.op = "close" /\ c.id = id
TabsAre(l, a, S, cs) ==
  /\ EachOnce(l)
  /\ Tb!Ids(l) \ {RemoteTab} \subseteq S
  /\ Starting(cs) \/ \A id \in S : id \in Tb!Ids(l) \/ TabsClosing(cs, id)
  /\ l # <<>> => a \in Tb!Ids(l) \/ (a \in S /\ TabsClosing(cs, a))

TabTypes ==
  /\ server \in TabLists /\ tabsBorn \in 0 .. MaxSessions /\ \A id \in Tb!Ids(server) : id <= tabsBorn
  /\ tabsCalls \in Seq(TabCall) /\ replies \in Seq(TabReply) /\ broadcasts \in Seq(TabNews)
  /\ Tb!TypeOK
QueuesInv(sv, cs, rs, bs, lt) ==
  /\ FirstAsks(cs, rs) /\ FirstAnswers(rs)
  /\ NewsBacked(bs, Tb!Ids(sv))
  /\ TabsQuiet(bs, cs) => AnswersBacked(rs, Tb!Ids(sv))
  /\ TabsQuiet(bs, cs) /\ ~Starting(cs) => lt = Tb!Ids(sv)
  /\ LastListIs(rs, lt)
ViewInv(sv, cs, rs, bs, l, a, ov) ==
  TabsQuiet(bs, cs) /\ ~ov /\ ~TabsComing(cs, rs) => TabsAre(l, a, Tb!Ids(sv), cs)
TabsInv ==
  /\ TabTypes
  /\ QueuesInv(server, tabsCalls, replies, broadcasts, latest)
  /\ ViewInv(server, tabsCalls, replies, broadcasts, tabs, tabsActive, overtaken)

-----------------------------------------------------------------------------
\* One more, and one less, by index.
LEMMA MoreByIndex ==
  ASSUME NEW T, NEW s \in Seq(T), NEW e \in T
  PROVE  /\ DOMAIN Append(s, e) = 1 .. Len(s) + 1 /\ DOMAIN s = 1 .. Len(s) /\ Len(s) \in Nat
         /\ Append(s, e)[Len(s) + 1] = e /\ \A i \in 1 .. Len(s) : Append(s, e)[i] = s[i]
  OBVIOUS

\* A sequence without its first element, by index.
LEMMA LessByIndex ==
  ASSUME NEW T, NEW s \in Seq(T), s # <<>>
  PROVE  /\ DOMAIN Tail(s) = 1 .. Len(s) - 1 /\ DOMAIN s = 1 .. Len(s) /\ Len(s) \in Nat \ {0}
         /\ Head(s) = s[1] /\ \A i \in 1 .. Len(s) - 1 : Tail(s)[i] = s[i + 1]
  OBVIOUS

\* News stay true when one more is announced, or the sessions change and are announced.
LEMMA NewsGrow ==
  ASSUME NEW bs \in Seq(TabNews), NEW b \in TabNews, NEW S,
         b = Tb!ListChanged \/ (NewsBacked(bs, S) /\ b.session.id \in S)
  PROVE  NewsBacked(Append(bs, b), S)
<1>. DEFINE u == Append(bs, b)
            n == Len(bs)
<1>1. /\ DOMAIN u = 1 .. n + 1 /\ DOMAIN bs = 1 .. n /\ n \in Nat
      /\ u[n + 1] = b /\ \A i \in 1 .. n : u[i] = bs[i]
  BY MoreByIndex
<1>. HIDE DEF u, n
<1>. SUFFICES ASSUME NEW i \in 1 .. n + 1, u[i] # Tb!ListChanged
              PROVE  u[i].session.id \in S \/ \E j \in 1 .. n + 1 : j > i /\ u[j] = Tb!ListChanged
  BY <1>1 DEF NewsBacked, u
<1>2. CASE i = n + 1
  BY <1>1, <1>2
<1>3. CASE i # n + 1
  <2>1. i \in 1 .. n /\ u[i] = bs[i] /\ n + 1 > i /\ n + 1 \in 1 .. n + 1
    BY <1>1, <1>3
  <2>2. CASE b = Tb!ListChanged
    BY <1>1, <2>1, <2>2
  <2>3. CASE NewsBacked(bs, S)
    <3>1. bs[i].session.id \in S \/ \E j \in 1 .. n : j > i /\ bs[j] = Tb!ListChanged
      BY <1>1, <2>1, <2>3 DEF NewsBacked
    <3>2. \A j \in 1 .. n : j \in 1 .. n + 1
      BY <1>1
    <3>. QED
      BY <1>1, <2>1, <3>1, <3>2
  <2>. QED
    BY <2>2, <2>3
<1>. QED
  BY <1>2, <1>3

\* When the first is taken it is of a session that is there, or the list is announced later.
LEMMA NewsShrink ==
  ASSUME NEW bs \in Seq(TabNews), bs # <<>>, NEW S, NewsBacked(bs, S)
  PROVE  /\ NewsBacked(Tail(bs), S)
         /\ Head(bs) # Tb!ListChanged =>
              Head(bs).session.id \in S \/ Tb!ListChanged \in Elements(Tail(bs))
<1>. DEFINE u == Tail(bs)
            n == Len(bs)
<1>1. /\ DOMAIN u = 1 .. n - 1 /\ DOMAIN bs = 1 .. n /\ n \in Nat \ {0}
      /\ Head(bs) = bs[1] /\ \A i \in 1 .. n - 1 : u[i] = bs[i + 1]
  BY LessByIndex
<1>. HIDE DEF u, n
<1>2. ASSUME NEW i \in 1 .. n - 1, u[i] # Tb!ListChanged
      PROVE  u[i].session.id \in S \/ \E j \in 1 .. n - 1 : j > i /\ u[j] = Tb!ListChanged
  <2>1. i + 1 \in 1 .. n /\ u[i] = bs[i + 1]
    BY <1>1
  <2>2. bs[i + 1].session.id \in S \/ \E j \in 1 .. n : j > i + 1 /\ bs[j] = Tb!ListChanged
    BY <1>1, <1>2, <2>1 DEF NewsBacked
  <2>3. ASSUME NEW j \in 1 .. n, j > i + 1
        PROVE  j - 1 \in 1 .. n - 1 /\ j - 1 > i /\ u[j - 1] = bs[j]
    <3>1. j - 1 \in 1 .. n - 1 /\ j - 1 > i /\ (j - 1) + 1 = j
      BY <1>1, <2>3
    <3>. QED
      BY <1>1, <3>1
  <2>. QED
    BY <2>1, <2>2, <2>3
<1>3. ASSUME bs[1] # Tb!ListChanged
      PROVE  bs[1].session.id \in S \/ Tb!ListChanged \in Elements(u)
  <2>1. 1 \in 1 .. n
    BY <1>1
  <2>2. bs[1].session.id \in S \/ \E j \in 1 .. n : j > 1 /\ bs[j] = Tb!ListChanged
    BY <1>1, <1>3, <2>1 DEF NewsBacked
  <2>3. ASSUME NEW j \in 1 .. n, j > 1
        PROVE  bs[j] \in Elements(u)
    <3>1. j - 1 \in 1 .. n - 1 /\ (j - 1) + 1 = j
      BY <1>1, <2>3
    <3>. QED
      BY <1>1, <3>1 DEF Elements
  <2>. QED
    BY <2>2, <2>3
<1>. QED
  BY <1>1, <1>2, <1>3 DEF NewsBacked, u

\* Answers stay true when one more is given.
LEMMA AnswersGrow ==
  ASSUME NEW rs \in Seq(TabReply), NEW r \in TabReply, NEW S,
         Asks(r.call, "refresh") \/ (AnswersBacked(rs, S) /\ ShowsOf(r, S))
  PROVE  AnswersBacked(Append(rs, r), S)
<1>. DEFINE u == Append(rs, r)
            n == Len(rs)
<1>1. /\ DOMAIN u = 1 .. n + 1 /\ DOMAIN rs = 1 .. n /\ n \in Nat
      /\ u[n + 1] = r /\ \A i \in 1 .. n : u[i] = rs[i]
  BY MoreByIndex
<1>. HIDE DEF u, n
<1>. SUFFICES ASSUME NEW i \in 1 .. n + 1
              PROVE  ShowsOf(u[i], S) \/ \E j \in 1 .. n + 1 : j > i /\ Asks(u[j].call, "refresh")
  BY <1>1 DEF AnswersBacked, u
<1>2. CASE i = n + 1
  <2>1. Asks(r.call, "refresh") => ShowsOf(r, S)
    BY DEF Asks, ShowsOf
  <2>. QED
    BY <1>1, <1>2, <2>1
<1>3. CASE i # n + 1
  <2>1. i \in 1 .. n /\ u[i] = rs[i] /\ n + 1 > i /\ n + 1 \in 1 .. n + 1
    BY <1>1, <1>3
  <2>2. CASE Asks(r.call, "refresh")
    BY <1>1, <2>1, <2>2
  <2>3. CASE AnswersBacked(rs, S)
    <3>1. ShowsOf(rs[i], S) \/ \E j \in 1 .. n : j > i /\ Asks(rs[j].call, "refresh")
      BY <1>1, <2>1, <2>3 DEF AnswersBacked
    <3>2. \A j \in 1 .. n : j \in 1 .. n + 1
      BY <1>1
    <3>. QED
      BY <1>1, <2>1, <3>1, <3>2
  <2>. QED
    BY <2>2, <2>3
<1>. QED
  BY <1>2, <1>3

\* When the first is taken it shows what is there, or a refresh has been answered since.
LEMMA AnswersShrink ==
  ASSUME NEW rs \in Seq(TabReply), rs # <<>>, NEW S, AnswersBacked(rs, S)
  PROVE  /\ AnswersBacked(Tail(rs), S)
         /\ ShowsOf(Head(rs), S) \/ \E r \in Elements(Tail(rs)) : Asks(r.call, "refresh")
<1>. DEFINE u == Tail(rs)
            n == Len(rs)
<1>1. /\ DOMAIN u = 1 .. n - 1 /\ DOMAIN rs = 1 .. n /\ n \in Nat \ {0}
      /\ Head(rs) = rs[1] /\ \A i \in 1 .. n - 1 : u[i] = rs[i + 1]
  BY LessByIndex
<1>. HIDE DEF u, n
<1>2. ASSUME NEW i \in 1 .. n - 1
      PROVE  ShowsOf(u[i], S) \/ \E j \in 1 .. n - 1 : j > i /\ Asks(u[j].call, "refresh")
  <2>1. i + 1 \in 1 .. n /\ u[i] = rs[i + 1]
    BY <1>1
  <2>2. ShowsOf(rs[i + 1], S) \/ \E j \in 1 .. n : j > i + 1 /\ Asks(rs[j].call, "refresh")
    BY <1>1, <2>1 DEF AnswersBacked
  <2>3. ASSUME NEW j \in 1 .. n, j > i + 1
        PROVE  j - 1 \in 1 .. n - 1 /\ j - 1 > i /\ u[j - 1] = rs[j]
    <3>1. j - 1 \in 1 .. n - 1 /\ j - 1 > i /\ (j - 1) + 1 = j
      BY <1>1, <2>3
    <3>. QED
      BY <1>1, <3>1
  <2>. QED
    BY <2>1, <2>2, <2>3
<1>3. ShowsOf(rs[1], S) \/ \E r \in Elements(u) : Asks(r.call, "refresh")
  <2>1. 1 \in 1 .. n
    BY <1>1
  <2>2. ShowsOf(rs[1], S) \/ \E j \in 1 .. n : j > 1 /\ Asks(rs[j].call, "refresh")
    BY <1>1, <2>1 DEF AnswersBacked
  <2>3. ASSUME NEW j \in 1 .. n, j > 1
        PROVE  rs[j] \in Elements(u)
    <3>1. j - 1 \in 1 .. n - 1 /\ (j - 1) + 1 = j
      BY <1>1, <2>3
    <3>. QED
      BY <1>1, <3>1 DEF Elements
  <2>. QED
    BY <2>2, <2>3
<1>. QED
  BY <1>1, <1>2, <1>3 DEF AnswersBacked, u

\* The last list stays known when an answer is given.
LEMMA LastListGrows ==
  ASSUME NEW rs \in Seq(TabReply), NEW r \in TabReply, NEW old, NEW new,
         \/ r.call.op = "list" /\ Tb!Ids(r.answer) = new
         \/ r.call.op # "list" /\ LastListIs(rs, old) /\ new = old
  PROVE  LastListIs(Append(rs, r), new)
<1>. DEFINE u == Append(rs, r)
            n == Len(rs)
<1>1. /\ DOMAIN u = 1 .. n + 1 /\ DOMAIN rs = 1 .. n /\ n \in Nat
      /\ u[n + 1] = r /\ \A i \in 1 .. n : u[i] = rs[i]
  BY MoreByIndex
<1>. HIDE DEF u, n
<1>. SUFFICES ASSUME NEW i \in 1 .. n + 1, u[i].call.op = "list",
                     \A j \in 1 .. n + 1 : j > i => u[j].call.op # "list"
              PROVE  Tb!Ids(u[i].answer) = new
  BY <1>1 DEF LastListIs, u
<1>2. CASE i = n + 1
  BY <1>1, <1>2
<1>3. CASE i # n + 1
  <2>1. i \in 1 .. n /\ u[i] = rs[i] /\ n + 1 > i /\ n + 1 \in 1 .. n + 1
    BY <1>1, <1>3
  <2>2. r.call.op # "list" /\ LastListIs(rs, old) /\ new = old
    BY <1>1, <2>1
  <2>3. \A j \in 1 .. n : j > i => rs[j].call.op # "list"
    BY <1>1, <2>1
  <2>. QED
    BY <1>1, <2>1, <2>2, <2>3 DEF LastListIs
<1>. QED
  BY <1>2, <1>3

\* When the only list among the answers is taken, it is that one.
LEMMA LastListShrinks ==
  ASSUME NEW rs \in Seq(TabReply), rs # <<>>, NEW ids, LastListIs(rs, ids)
  PROVE  /\ LastListIs(Tail(rs), ids)
         /\ Head(rs).call.op = "list" /\ (\A r \in Elements(Tail(rs)) : r.call.op # "list")
              => Tb!Ids(Head(rs).answer) = ids
<1>. DEFINE u == Tail(rs)
            n == Len(rs)
<1>1. /\ DOMAIN u = 1 .. n - 1 /\ DOMAIN rs = 1 .. n /\ n \in Nat \ {0}
      /\ Head(rs) = rs[1] /\ \A i \in 1 .. n - 1 : u[i] = rs[i + 1]
  BY LessByIndex
<1>. HIDE DEF u, n
<1>2. ASSUME NEW i \in 1 .. n - 1, u[i].call.op = "list",
             \A j \in 1 .. n - 1 : j > i => u[j].call.op # "list"
      PROVE  Tb!Ids(u[i].answer) = ids
  <2>1. i + 1 \in 1 .. n /\ u[i] = rs[i + 1]
    BY <1>1
  <2>2. ASSUME NEW j \in 1 .. n, j > i + 1
        PROVE  rs[j].call.op # "list"
    <3>1. j - 1 \in 1 .. n - 1 /\ j - 1 > i /\ (j - 1) + 1 = j
      BY <1>1, <2>2
    <3>. QED
      BY <1>1, <1>2, <3>1
  <2>. QED
    BY <1>1, <1>2, <2>1, <2>2 DEF LastListIs
<1>3. ASSUME rs[1].call.op = "list", \A r \in Elements(u) : r.call.op # "list"
      PROVE  Tb!Ids(rs[1].answer) = ids
  <2>1. 1 \in 1 .. n
    BY <1>1
  <2>2. ASSUME NEW j \in 1 .. n, j > 1
        PROVE  rs[j].call.op # "list"
    <3>1. j - 1 \in 1 .. n - 1 /\ (j - 1) + 1 = j
      BY <1>1, <2>2
    <3>. QED
      BY <1>1, <1>3, <3>1 DEF Elements
  <2>. QED
    BY <1>1, <1>3, <2>1, <2>2 DEF LastListIs
<1>. QED
  BY <1>1, <1>2, <1>3 DEF LastListIs, u

\* The first call and the first answer stay the first, or go.
LEMMA FirstGoes ==
  ASSUME NEW T, NEW s \in Seq(T), s # <<>>, NEW rs
  PROVE  /\ FirstAsks(s, rs) => \A i \in DOMAIN Tail(s) : ~Asks(Tail(s)[i], "init")
         /\ FirstAnswers(s) => \A i \in DOMAIN Tail(s) : ~Asks(Tail(s)[i].call, "init")
<1>. DEFINE u == Tail(s)
            n == Len(s)
<1>1. /\ DOMAIN u = 1 .. n - 1 /\ DOMAIN s = 1 .. n /\ n \in Nat \ {0}
      /\ \A i \in 1 .. n - 1 : u[i] = s[i + 1]
  BY LessByIndex
<1>. HIDE DEF u, n
<1>2. ASSUME NEW i \in 1 .. n - 1
      PROVE  i + 1 \in 1 .. n /\ u[i] = s[i + 1] /\ i + 1 # 1
  BY <1>1
<1>. QED
  BY <1>1, <1>2 DEF FirstAsks, FirstAnswers, u

\* The first list is asked for and answered once.
LEMMA FirstStays ==
  ASSUME NEW T, NEW s \in Seq(T), NEW e \in T, NEW rs
  PROVE  /\ FirstAsks(s, rs) /\ ~Asks(e, "init") => FirstAsks(Append(s, e), rs)
         /\ FirstAnswers(s) /\ (Asks(e.call, "init") => s = <<>>) => FirstAnswers(Append(s, e))
<1>. DEFINE u == Append(s, e)
            n == Len(s)
<1>1. /\ DOMAIN u = 1 .. n + 1 /\ DOMAIN s = 1 .. n /\ n \in Nat
      /\ u[n + 1] = e /\ \A i \in 1 .. n : u[i] = s[i]
      /\ s = <<>> => n = 0
  BY MoreByIndex
<1>. HIDE DEF u, n
<1>2. \A i \in 1 .. n + 1 : i = n + 1 \/ i \in 1 .. n
  BY <1>1
<1>. QED
  BY <1>1, <1>2 DEF FirstAsks, FirstAnswers, u

-----------------------------------------------------------------------------
\* What each kind of call carries.
LEMMA CallKinds ==
  ASSUME NEW c \in TabCall
  PROVE  /\ c.op \in {"list", "create", "attach", "close", "split", "closePane"}
         /\ c.op = "list" => c.why \in {"init", "refresh"}
         /\ c.op = "create" => c.layout \in BOOLEAN
         /\ c.op \in {"attach", "close", "split", "closePane"} => c.id \in Tb!Locals
         /\ c.op = "attach" => c.why \in {"init", "refresh", "switch"}
         /\ c.op = "close" => c.quiet \in BOOLEAN
         /\ Tb!BringsAList(c) => c.list \in TabLists /\ c.id \in Tb!Ids(c.list)
  BY DEF TabCall, Tb!BringsAList

\* The calls that the tab bar makes are of these kinds, and ask for no list.
NoLists(X) == \A c \in X : c.op # "list" /\ ~Tb!BringsAList(c)

\* What the tab bar asks for is a call, and none of it asks for a list.
LEMMA CallsOfTabs ==
  /\ \A l \in BOOLEAN : LET c == [op |-> "create", layout |-> l] IN c \in TabCall /\ NoLists({c})
  /\ \A id \in Tb!Locals :
       LET c == [op |-> "attach", id |-> id, why |-> "switch", list |-> <<>>]
       IN  c \in TabCall /\ NoLists({c})
  /\ \A id \in Tb!Locals, q \in BOOLEAN : Tb!CloseCall(id, q) \in TabCall /\ NoLists({Tb!CloseCall(id, q)})
  /\ \A id \in Tb!Locals, op \in {"split", "closePane"}, why \in {"menu", "layout", "exit"} :
       LET c == [op |-> op, id |-> id, why |-> why] IN c \in TabCall /\ NoLists({c})
  /\ [op |-> "list", why |-> "refresh"] \in TabCall
<1>1. <<>> \in TabLists
  BY DEF TabLists, EachOnce
<1>. QED
  BY <1>1 DEF TabCall, NoLists, Tb!CloseCall, Tb!BringsAList

\* A list has finitely many sessions, of the right ids.
LEMMA IdsAreFinite ==
  ASSUME NEW T, NEW l \in Seq(T)
  PROVE  IsFiniteSet(Tb!Ids(l))
<1>. DEFINE f == [i \in 1 .. Len(l) |-> l[i].id]
<1>1. f \in Surjection(1 .. Len(l), Tb!Ids(l))
  BY DEF Surjection, Tb!Ids
<1>2. IsFiniteSet(1 .. Len(l))
  <2>1. 1 \in Int /\ Len(l) \in Int
    OBVIOUS
  <2>. QED
    BY <2>1, FS_Interval
<1>. HIDE DEF f
<1>. QED
  BY <1>1, <1>2, FS_Surjection

\* Sessions of the server are sessions of the tab bar, none of them the remote one.
LEMMA IdsAreTyped ==
  /\ \A l \in Seq(Tb!Session) : Tb!Ids(l) \subseteq Tb!Locals \cup {RemoteTab}
  /\ \A l \in TabLists : Tb!Ids(l) \subseteq Tb!Locals /\ l \in Seq(TabSession) /\ l \in Seq(Tb!Session)
  /\ \A l \in Seq(TabSession) : Tb!Ids(l) \subseteq Tb!Locals
  /\ TabSession \subseteq Tb!Session /\ RemoteTab \notin Tb!Locals
<1>1. TabSession \subseteq Tb!Session
  BY DEF TabSession, Tb!Session
<1>2. \A l \in Seq(TabSession) : l \in Seq(Tb!Session)
  BY <1>1
<1>3. RemoteTab \notin Tb!Locals
  BY TabAssumption DEF Tb!Locals
<1>4. ASSUME NEW l \in Seq(Tb!Session) PROVE Tb!Ids(l) \subseteq Tb!Locals \cup {RemoteTab}
  <2>1. \A i \in DOMAIN l : l[i] \in Tb!Session
    OBVIOUS
  <2>. QED
    BY <2>1 DEF Tb!Ids, Tb!Session
<1>5. ASSUME NEW l \in Seq(TabSession) PROVE Tb!Ids(l) \subseteq Tb!Locals
  <2>1. \A i \in DOMAIN l : l[i] \in TabSession
    OBVIOUS
  <2>. QED
    BY <2>1 DEF Tb!Ids, TabSession
<1>6. TabLists \subseteq Seq(TabSession)
  BY DEF TabLists
<1>. QED
  BY <1>1, <1>2, <1>3, <1>4, <1>5, <1>6

\* Calls that ask for no list are made.
CallsMade(cs, c2, rs, X) ==
  /\ c2 \in Seq(TabCall)
  /\ Elements(c2) = Elements(cs) \cup X
  /\ NoLists(X)
  /\ FirstAsks(cs, rs) => FirstAsks(c2, rs)

\* One call is made.
LEMMA OneCallMade ==
  ASSUME NEW cs \in Seq(TabCall), NEW c \in TabCall, NEW rs, NoLists({c})
  PROVE  CallsMade(cs, Append(cs, c), rs, {c})
<1>1. Append(cs, c) \in Seq(TabCall) /\ Elements(Append(cs, c)) = Elements(cs) \cup {c}
  BY ElementsOfAppend
<1>2. ~Asks(c, "init")
  BY DEF NoLists, Asks
<1>3. FirstAsks(cs, rs) => FirstAsks(Append(cs, c), rs)
  BY <1>2, FirstStays
<1>. QED
  BY <1>1, <1>3 DEF CallsMade

\* No call is made.
LEMMA NoCallMade ==
  ASSUME NEW cs \in Seq(TabCall), NEW rs
  PROVE  CallsMade(cs, cs, rs, {})
  BY DEF CallsMade, NoLists

\* Several calls are made.
LEMMA ManyCallsMade ==
  ASSUME NEW cs \in Seq(TabCall), NEW q \in Seq(TabCall), NEW rs, NoLists(Elements(q))
  PROVE  CallsMade(cs, cs \o q, rs, Elements(q))
<1>1. cs \o q \in Seq(TabCall) /\ Elements(cs \o q) = Elements(cs) \cup Elements(q)
  BY ElementsOfBoth
<1>2. ASSUME FirstAsks(cs, rs)
      PROVE  FirstAsks(cs \o q, rs)
  <2>. DEFINE u == cs \o q
              n == Len(cs)
              m == Len(q)
  <2>1. /\ n \in Nat /\ m \in Nat /\ DOMAIN u = 1 .. n + m
        /\ \A i \in 1 .. n + m : u[i] = IF i <= n THEN cs[i] ELSE q[i - n]
        /\ DOMAIN cs = 1 .. n /\ DOMAIN q = 1 .. m
    <3>1. /\ cs \o q \in Seq(TabCall) /\ Len(cs \o q) = Len(cs) + Len(q) /\ Len(cs) \in Nat /\ Len(q) \in Nat
          /\ \A i \in 1 .. Len(cs) + Len(q) : (cs \o q)[i] = IF i <= Len(cs) THEN cs[i] ELSE q[i - Len(cs)]
      BY OneAfterAnother
    <3>. QED
      BY <3>1
  <2>. HIDE DEF u, n, m
  <2>2. ASSUME NEW i \in 1 .. n + m, Asks(u[i], "init")
        PROVE  i = 1 /\ rs = <<>>
    <3>1. CASE i <= n
      <4>1. i \in 1 .. n /\ u[i] = cs[i]
        BY <2>1, <3>1
      <4>. QED
        BY <1>2, <2>1, <2>2, <4>1 DEF FirstAsks
    <3>2. CASE ~(i <= n)
      <4>1. i - n \in 1 .. m /\ u[i] = q[i - n]
        BY <2>1, <3>2
      <4>2. q[i - n] \in Elements(q)
        BY <2>1, <4>1 DEF Elements
      <4>. QED
        BY <2>2, <4>1, <4>2 DEF NoLists, Asks
    <3>. QED
      BY <3>1, <3>2
  <2>. QED
    BY <2>1, <2>2 DEF FirstAsks, u
<1>. QED
  BY <1>1, <1>2 DEF CallsMade

\* They change nothing of what is on its way.
LEMMA CallsMadeKeep ==
  ASSUME NEW cs, NEW c2, NEW rs, NEW X, CallsMade(cs, c2, rs, X)
  PROVE  /\ Starting(c2) <=> Starting(cs)
         /\ \A bs : TabsQuiet(bs, c2) <=> TabsQuiet(bs, cs)
         /\ TabsComing(c2, rs) <=> TabsComing(cs, rs)
         /\ \A id : TabsClosing(c2, id) <=> TabsClosing(cs, id) \/ \E c \in X : c.op = "close" /\ c.id = id
<1>1. Elements(c2) = Elements(cs) \cup X /\ \A c \in X : c.op # "list" /\ ~Tb!BringsAList(c)
  BY DEF CallsMade, NoLists
<1>2. \A c \in X : ~Asks(c, "init") /\ ~Asks(c, "refresh") /\ ~Tb!BringsAList(c)
  BY <1>1 DEF Asks
<1>3. Starting(c2) <=> Starting(cs)
  BY <1>1, <1>2 DEF Starting
<1>4. \A bs : TabsQuiet(bs, c2) <=> TabsQuiet(bs, cs)
  BY <1>1, <1>2 DEF TabsQuiet
<1>5. TabsComing(c2, rs) <=> TabsComing(cs, rs)
  BY <1>1, <1>2 DEF TabsComing
<1>6. \A id : TabsClosing(c2, id) <=> TabsClosing(cs, id) \/ \E c \in X : c.op = "close" /\ c.id = id
  BY <1>1 DEF TabsClosing
<1>. QED
  BY <1>3, <1>4, <1>5, <1>6

\* Tabs that go are closed, and the active one goes only to another one.
LEMMA TabsKept ==
  ASSUME NEW l, NEW m, NEW a, NEW b, NEW S, NEW cs, NEW c2, NEW rs, NEW X,
         RemoteTab \notin S, CallsMade(cs, c2, rs, X), TabsAre(l, a, S, cs),
         EachOnce(m), Tb!Ids(m) \ {RemoteTab} \subseteq S,
         \A id \in Tb!Ids(l) : \/ id \in Tb!Ids(m) \cup {RemoteTab}
                               \/ \E c \in X : c.op = "close" /\ c.id = id,
         m # <<>> => b \in Tb!Ids(m) \/ (b = a /\ l # <<>> /\ (a \in Tb!Ids(l) => a \in Tb!Ids(m)))
  PROVE  TabsAre(m, b, S, c2)
<1>1. /\ Starting(c2) <=> Starting(cs)
      /\ \A id : TabsClosing(c2, id) <=> TabsClosing(cs, id) \/ \E c \in X : c.op = "close" /\ c.id = id
  BY CallsMadeKeep
<1>2. \A id : TabsClosing(cs, id) => TabsClosing(c2, id)
  BY <1>1
<1>3. Starting(c2) \/ \A id \in S : id \in Tb!Ids(m) \/ TabsClosing(c2, id)
  <2>. SUFFICES ASSUME ~Starting(cs), NEW id \in S PROVE id \in Tb!Ids(m) \/ TabsClosing(c2, id)
    BY <1>1
  <2>1. id \in Tb!Ids(l) \/ TabsClosing(cs, id)
    BY DEF TabsAre
  <2>. QED
    BY <1>1, <2>1
<1>4. m # <<>> => b \in Tb!Ids(m) \/ (b \in S /\ TabsClosing(c2, b))
  BY <1>2 DEF TabsAre
<1>. QED
  BY <1>3, <1>4 DEF TabsAre

\* What the user does leaves the server, its answers and its news alone.
LEMMA UserKeeps ==
  ASSUME TabsInv, NEW X, CallsMade(tabsCalls, tabsCalls', replies, X),
         UNCHANGED <<server, tabsBorn, replies, broadcasts, latest, overtaken>>,
         Tb!TypeOK',
         TabsAre(tabs, tabsActive, Tb!Ids(server), tabsCalls)
           => TabsAre(tabs', tabsActive', Tb!Ids(server), tabsCalls')
  PROVE  TabsInv'
<1>. DEFINE cs == tabsCalls
            c2 == tabsCalls'
<1>1. /\ Starting(c2) <=> Starting(cs)
      /\ TabsQuiet(broadcasts, c2) <=> TabsQuiet(broadcasts, cs)
      /\ TabsComing(c2, replies) <=> TabsComing(cs, replies)
  BY CallsMadeKeep
<1>2. TabTypes'
  BY DEF TabsInv, TabTypes, CallsMade
<1>3. QueuesInv(server, c2, replies, broadcasts, latest)
  BY <1>1 DEF TabsInv, QueuesInv, CallsMade
<1>4. ViewInv(server, c2, replies, broadcasts, tabs', tabsActive', overtaken)
  BY <1>1 DEF TabsInv, ViewInv
<1>. QED
  BY <1>2, <1>3, <1>4 DEF TabsInv

\* Nothing of the server is named like another host's.
LEMMA RemoteIsApart ==
  ASSUME TabTypes
  PROVE  /\ RemoteTab \notin Tb!Ids(server) /\ Tb!Ids(server) \subseteq Tb!Locals
         /\ Tb!Ids(tabs) \subseteq Tb!Locals \cup {RemoteTab} /\ RemoteTab \notin Tb!Locals
         /\ tabs \in Seq(Tb!Session) /\ server \in Seq(TabSession) /\ EachOnce(server)
         /\ tabsActive \in Tb!Locals \cup {RemoteTab, None} /\ focus \in Tb!Locals \cup {RemoteTab, None}
         /\ ops \in 0 .. MaxOps /\ overtaken \in BOOLEAN
<1>1. server \in TabLists /\ Tb!TypeOK
  BY DEF TabTypes
<1>. QED
  BY <1>1, IdsAreTyped DEF Tb!TypeOK, TabLists

\* Types after a step that leaves the server alone.
LEMMA TabsTyped ==
  ASSUME TabTypes, server' = server, tabsBorn' = tabsBorn, tabs' \in Seq(Tb!Session),
         tabsActive' \in Tb!Locals \cup {RemoteTab, None}, focus' \in Tb!Locals \cup {RemoteTab, None},
         ops' \in 0 .. MaxOps, overtaken' \in BOOLEAN
  PROVE  Tb!TypeOK'
  BY DEF TabTypes, Tb!TypeOK

\* An operation is counted; the history stays.
LEMMA Operated ==
  ASSUME TabTypes, Tb!Operate
  PROVE  ops' \in 0 .. MaxOps /\ latest' = latest /\ overtaken' = overtaken
  BY TabAssumption DEF TabTypes, Tb!TypeOK, Tb!Operate, Tb!history

\* The user only asks the server, or shows another tab.
LEMMA AsksStep ==
  ASSUME TabsInv,
         \/ \E l \in BOOLEAN : Tb!NewTab(l)
         \/ \E id \in Tb!Ids(tabs) : Tb!ClickNotification(id)
         \/ Tb!SplitPane \/ Tb!ClosePane("menu") \/ Tb!ClosePane("exit")
  PROVE  TabsInv'
<1>. DEFINE cs == tabsCalls
<1>0. TabTypes /\ cs \in Seq(TabCall)
  BY DEF TabsInv, TabTypes
<1>1. /\ tabs \in Seq(Tb!Session) /\ Tb!Ids(tabs) \subseteq Tb!Locals \cup {RemoteTab} /\ RemoteTab \notin Tb!Locals
      /\ tabsActive \in Tb!Locals \cup {RemoteTab, None} /\ focus \in Tb!Locals \cup {RemoteTab, None}
      /\ RemoteTab \notin Tb!Ids(server) /\ overtaken \in BOOLEAN
  BY <1>0, RemoteIsApart
<1>2. Tb!Operate /\ UNCHANGED <<server, tabsBorn, replies, broadcasts, tabs, tabsActive, focus>>
  BY DEF Tb!NewTab, Tb!ClickNotification, Tb!SplitPane, Tb!ClosePane, Tb!serverVars, Tb!viewVars
<1>3. PICK c \in TabCall : NoLists({c}) /\ tabsCalls' = Append(cs, c)
  <2>1. ASSUME NEW l \in BOOLEAN, Tb!NewTab(l)
        PROVE \E c \in TabCall : NoLists({c}) /\ tabsCalls' = Append(cs, c)
    BY <2>1, CallsOfTabs DEF Tb!NewTab, Tb!Call
  <2>2. ASSUME NEW id \in Tb!Ids(tabs), Tb!ClickNotification(id)
        PROVE \E c \in TabCall : NoLists({c}) /\ tabsCalls' = Append(cs, c)
    <3>1. id \in Tb!Locals
      BY <1>1, <2>2 DEF Tb!ClickNotification
    <3>. QED
      BY <2>2, <3>1, CallsOfTabs DEF Tb!ClickNotification, Tb!Call
  <2>3. CASE Tb!SplitPane
    BY <2>3, CallsOfTabs DEF Tb!SplitPane, Tb!Call
  <2>4. CASE Tb!ClosePane("menu")
    BY <2>4, CallsOfTabs DEF Tb!ClosePane, Tb!Call
  <2>5. CASE Tb!ClosePane("exit")
    BY <2>5, CallsOfTabs DEF Tb!ClosePane, Tb!Call
  <2>. QED
    BY <2>1, <2>2, <2>3, <2>4, <2>5
<1>4. CallsMade(cs, tabsCalls', replies, {c})
  BY <1>0, <1>3, OneCallMade
<1>5. ops' \in 0 .. MaxOps /\ latest' = latest /\ overtaken' = overtaken
  BY <1>0, <1>2, Operated
<1>6. Tb!TypeOK'
  BY <1>0, <1>1, <1>2, <1>5, TabsTyped
<1>7. ASSUME TabsAre(tabs, tabsActive, Tb!Ids(server), cs)
      PROVE  TabsAre(tabs, tabsActive, Tb!Ids(server), tabsCalls')
  <2>1. EachOnce(tabs) /\ Tb!Ids(tabs) \ {RemoteTab} \subseteq Tb!Ids(server)
    BY <1>7 DEF TabsAre
  <2>. QED
    BY <1>1, <1>4, <1>7, <2>1, TabsKept
<1>. QED
  BY <1>2, <1>4, <1>5, <1>6, <1>7, UserKeeps

\* Tabs that the user closes: the sessions are closed, or another host's is left.
LEMMA RemovedAre ==
  ASSUME TabTypes, NEW ids \in SUBSET Tb!Ids(tabs), NEW X,
         Tb!RemoveSessions(ids), CallsMade(tabsCalls, tabsCalls', replies, X),
         \A id \in ids \ {RemoteTab} : \E c \in X : c.op = "close" /\ c.id = id
  PROVE  /\ tabs' \in Seq(Tb!Session) /\ tabsActive' \in Tb!Locals \cup {RemoteTab, None}
         /\ TabsAre(tabs, tabsActive, Tb!Ids(server), tabsCalls)
              => TabsAre(tabs', tabsActive', Tb!Ids(server), tabsCalls')
<1>. DEFINE m == Tb!Without(tabs, ids)
<1>0. /\ tabs \in Seq(Tb!Session) /\ Tb!Ids(tabs) \subseteq Tb!Locals \cup {RemoteTab}
      /\ tabsActive \in Tb!Locals \cup {RemoteTab, None} /\ RemoteTab \notin Tb!Ids(server)
  BY RemoteIsApart
<1>1. m \in Seq(Tb!Session) /\ Tb!Ids(m) = Tb!Ids(tabs) \ ids /\ (EachOnce(tabs) => EachOnce(m))
  BY <1>0, WithoutLeaves
<1>2. tabs' = m /\ tabsActive' = IF tabsActive \in ids THEN Tb!LastId(m) ELSE tabsActive
  BY DEF Tb!RemoveSessions
<1>. HIDE DEF m
<1>3. /\ Tb!LastId(m) \in Tb!Ids(m) \cup {None}
      /\ m # <<>> => Tb!LastId(m) \in Tb!Ids(m)
      /\ m # <<>> => Tb!Ids(m) # {}
      /\ tabs = <<>> => Tb!Ids(tabs) = {}
  <2>1. tabs = <<>> => Tb!Ids(tabs) = {}
    BY DEF Tb!Ids
  <2>2. Tb!LastId(m) = (IF m = <<>> THEN None ELSE m[Len(m)].id) /\ (m # <<>> => Tb!LastId(m) \in Tb!Ids(m))
    BY <1>1, LastAndFound
  <2>. QED
    BY <2>1, <2>2
<1>4. tabsActive' \in Tb!Locals \cup {RemoteTab, None}
  BY <1>0, <1>1, <1>2, <1>3
<1>5. ASSUME TabsAre(tabs, tabsActive, Tb!Ids(server), tabsCalls)
      PROVE  TabsAre(m, tabsActive', Tb!Ids(server), tabsCalls')
  <2>1. EachOnce(tabs) /\ Tb!Ids(tabs) \ {RemoteTab} \subseteq Tb!Ids(server)
    BY <1>5 DEF TabsAre
  <2>2. EachOnce(m) /\ Tb!Ids(m) \ {RemoteTab} \subseteq Tb!Ids(server)
    BY <1>1, <2>1
  <2>3. \A id \in Tb!Ids(tabs) : \/ id \in Tb!Ids(m) \cup {RemoteTab}
                                 \/ \E c \in X : c.op = "close" /\ c.id = id
    BY <1>1
  <2>4. m # <<>> => \/ tabsActive' \in Tb!Ids(m)
                    \/ /\ tabsActive' = tabsActive /\ tabs # <<>>
                       /\ tabsActive \in Tb!Ids(tabs) => tabsActive \in Tb!Ids(m)
    BY <1>1, <1>2, <1>3
  <2>. QED
    BY <1>0, <1>5, <2>2, <2>3, <2>4, TabsKept
<1>. QED
  BY <1>1, <1>2, <1>4, <1>5

\* Many tabs are closed with a call each.
LEMMA ManyClosed ==
  ASSUME TabTypes, NEW ids \in SUBSET Tb!Ids(tabs)
  PROVE  LET q == Tb!Closes(ids)
         IN  /\ q \in Seq(TabCall) /\ NoLists(Elements(q))
             /\ \A id \in ids \ {RemoteTab} : \E c \in Elements(q) : c.op = "close" /\ c.id = id
<1>. DEFINE C == {Tb!CloseCall(id, TRUE) : id \in ids \ {RemoteTab}}
<1>0. tabs \in Seq(Tb!Session) /\ Tb!Ids(tabs) \subseteq Tb!Locals \cup {RemoteTab}
  BY RemoteIsApart
<1>1. IsFiniteSet(ids)
  BY <1>0, IdsAreFinite, FS_Subset
<1>2. Tb!Closes(ids) \in Seq(C) /\ Elements(Tb!Closes(ids)) = C
  BY <1>1, ClosesAll
<1>3. \A c \in C : c \in TabCall /\ NoLists({c})
  BY <1>0, CallsOfTabs
<1>4. ASSUME NEW id \in ids \ {RemoteTab}
      PROVE  \E c \in C : c.op = "close" /\ c.id = id
  <2>1. Tb!CloseCall(id, TRUE) \in C
    OBVIOUS
  <2>2. Tb!CloseCall(id, TRUE).op = "close" /\ Tb!CloseCall(id, TRUE).id = id
    BY DEF Tb!CloseCall
  <2>. QED
    BY <2>1, <2>2
<1>. HIDE DEF C
<1>5. C \subseteq TabCall /\ NoLists(C)
  BY <1>3 DEF NoLists
<1>. QED
  BY <1>2, <1>4, <1>5

\* The user closes tabs.
LEMMA ClosesStep ==
  ASSUME TabsInv,
         \/ \E id \in Tb!Ids(tabs) : Tb!CloseTab(id)
         \/ \E ids \in SUBSET Tb!Ids(tabs) : Tb!CloseMany(ids) \/ Tb!CloseInWorktree(ids)
  PROVE  TabsInv'
<1>. DEFINE cs == tabsCalls
<1>0. TabTypes /\ cs \in Seq(TabCall)
  BY DEF TabsInv, TabTypes
<1>1. /\ tabs \in Seq(Tb!Session) /\ Tb!Ids(tabs) \subseteq Tb!Locals \cup {RemoteTab} /\ RemoteTab \notin Tb!Locals
      /\ focus \in Tb!Locals \cup {RemoteTab, None} /\ overtaken \in BOOLEAN
  BY <1>0, RemoteIsApart
<1>2. ASSUME NEW ids \in SUBSET Tb!Ids(tabs), NEW X, Tb!Operate, Tb!RemoveSessions(ids),
             UNCHANGED <<server, tabsBorn, replies, broadcasts>>,
             focus' \in {focus, tabsActive'}, CallsMade(cs, tabsCalls', replies, X),
             \A id \in ids \ {RemoteTab} : \E c \in X : c.op = "close" /\ c.id = id
      PROVE  TabsInv'
  <2>1. /\ tabs' \in Seq(Tb!Session) /\ tabsActive' \in Tb!Locals \cup {RemoteTab, None}
        /\ TabsAre(tabs, tabsActive, Tb!Ids(server), tabsCalls)
             => TabsAre(tabs', tabsActive', Tb!Ids(server), tabsCalls')
    BY <1>0, <1>2, RemovedAre
  <2>2. ops' \in 0 .. MaxOps /\ latest' = latest /\ overtaken' = overtaken
    BY <1>0, <1>2, Operated
  <2>3. Tb!TypeOK'
    BY <1>0, <1>1, <1>2, <2>1, <2>2, TabsTyped
  <2>. QED
    BY <1>2, <2>1, <2>2, <2>3, UserKeeps
<1>3. ASSUME NEW id \in Tb!Ids(tabs), Tb!CloseTab(id)
      PROVE  TabsInv'
  <2>1. /\ Tb!Operate /\ Tb!RemoveSessions({id}) /\ UNCHANGED <<server, tabsBorn, replies, broadcasts>>
        /\ focus' \in {focus, tabsActive'}
    BY <1>3 DEF Tb!CloseTab, Tb!serverVars
  <2>2. CASE id = RemoteTab
    <3>1. tabsCalls' = cs
      BY <1>3, <2>2 DEF Tb!CloseTab
    <3>2. CallsMade(cs, tabsCalls', replies, {})
      BY <1>0, <3>1, NoCallMade
    <3>. QED
      BY <1>2, <2>1, <2>2, <3>2
  <2>3. CASE id # RemoteTab
    <3>. DEFINE c == Tb!CloseCall(id, FALSE)
    <3>1. c \in TabCall /\ NoLists({c}) /\ tabsCalls' = Append(cs, c) /\ c.op = "close" /\ c.id = id
      BY <1>1, <1>3, <2>3, CallsOfTabs DEF Tb!CloseTab, Tb!Call, Tb!CloseCall
    <3>. HIDE DEF c
    <3>2. CallsMade(cs, tabsCalls', replies, {c})
      BY <1>0, <3>1, OneCallMade
    <3>. QED
      BY <1>2, <2>1, <3>1, <3>2
  <2>. QED
    BY <2>2, <2>3
<1>4. ASSUME NEW ids \in SUBSET Tb!Ids(tabs), Tb!CloseMany(ids) \/ Tb!CloseInWorktree(ids)
      PROVE  TabsInv'
  <2>. DEFINE q == Tb!Closes(ids)
  <2>1. /\ Tb!Operate /\ Tb!RemoveSessions(ids) /\ UNCHANGED <<server, tabsBorn, replies, broadcasts>>
        /\ focus' \in {focus, tabsActive'} /\ tabsCalls' = cs \o q
    BY <1>4 DEF Tb!CloseMany, Tb!CloseInWorktree, Tb!serverVars
  <2>2. /\ q \in Seq(TabCall) /\ NoLists(Elements(q))
        /\ \A id \in ids \ {RemoteTab} : \E c \in Elements(q) : c.op = "close" /\ c.id = id
    BY <1>0, ManyClosed
  <2>. HIDE DEF q
  <2>3. CallsMade(cs, tabsCalls', replies, Elements(q))
    BY <1>0, <2>1, <2>2, ManyCallsMade
  <2>. QED
    BY <1>2, <2>1, <2>2, <2>3
<1>. QED
  BY <1>3, <1>4

\* The user shows another tab, drags one, or opens another host's.
LEMMA ShowsStep ==
  ASSUME TabsInv,
         \/ \E id \in Tb!Ids(tabs) : Tb!SwitchTab(id)
         \/ \E i, j \in DOMAIN tabs : Tb!ReorderTabs(i, j)
         \/ Tb!OpenRemoteTab
  PROVE  TabsInv'
<1>. DEFINE cs == tabsCalls
<1>0. TabTypes /\ cs \in Seq(TabCall)
  BY DEF TabsInv, TabTypes
<1>1. /\ tabs \in Seq(Tb!Session) /\ Tb!Ids(tabs) \subseteq Tb!Locals \cup {RemoteTab} /\ RemoteTab \notin Tb!Locals
      /\ tabsActive \in Tb!Locals \cup {RemoteTab, None} /\ focus \in Tb!Locals \cup {RemoteTab, None}
      /\ RemoteTab \notin Tb!Ids(server) /\ overtaken \in BOOLEAN
  BY <1>0, RemoteIsApart
<1>2. CallsMade(cs, cs, replies, {})
  BY <1>0, NoCallMade
<1>3. ASSUME Tb!Operate, UNCHANGED <<server, tabsBorn, tabsCalls, replies, broadcasts>>,
             tabs' \in Seq(Tb!Session), EachOnce(tabs) => EachOnce(tabs'),
             Tb!Ids(tabs) \subseteq Tb!Ids(tabs'), Tb!Ids(tabs') \subseteq Tb!Ids(tabs) \cup {RemoteTab},
             \/ tabsActive' \in Tb!Ids(tabs')
             \/ tabsActive' = tabsActive /\ tabs # <<>>,
             focus' \in {focus, tabsActive'}
      PROVE  TabsInv'
  <2>1. tabsActive' \in Tb!Locals \cup {RemoteTab, None}
    BY <1>1, <1>3
  <2>2. ops' \in 0 .. MaxOps /\ latest' = latest /\ overtaken' = overtaken
    BY <1>0, <1>3, Operated
  <2>3. Tb!TypeOK'
    BY <1>0, <1>1, <1>3, <2>1, <2>2, TabsTyped
  <2>4. ASSUME TabsAre(tabs, tabsActive, Tb!Ids(server), cs)
        PROVE  TabsAre(tabs', tabsActive', Tb!Ids(server), cs)
    <3>1. EachOnce(tabs) /\ Tb!Ids(tabs) \ {RemoteTab} \subseteq Tb!Ids(server)
      BY <2>4 DEF TabsAre
    <3>2. EachOnce(tabs') /\ Tb!Ids(tabs') \ {RemoteTab} \subseteq Tb!Ids(server)
      BY <1>3, <3>1
    <3>3. \A id \in Tb!Ids(tabs) : id \in Tb!Ids(tabs') \cup {RemoteTab}
      BY <1>3
    <3>4. \/ tabsActive' \in Tb!Ids(tabs')
          \/ /\ tabsActive' = tabsActive /\ tabs # <<>>
             /\ tabsActive \in Tb!Ids(tabs) => tabsActive \in Tb!Ids(tabs')
      BY <1>3
    <3>. QED
      BY <1>1, <1>2, <2>4, <3>2, <3>3, <3>4, TabsKept
  <2>5. CallsMade(cs, tabsCalls', replies, {})
    BY <1>2, <1>3
  <2>6. tabsCalls' = cs
    BY <1>3
  <2>. QED
    BY <1>3, <2>2, <2>3, <2>4, <2>5, <2>6, UserKeeps
<1>4. ASSUME NEW id \in Tb!Ids(tabs), Tb!SwitchTab(id)
      PROVE  TabsInv'
  BY <1>1, <1>3, <1>4 DEF Tb!SwitchTab, Tb!serverVars
<1>5. ASSUME NEW i \in DOMAIN tabs, NEW j \in DOMAIN tabs, Tb!ReorderTabs(i, j)
      PROVE  TabsInv'
  <2>. DEFINE t == Tb!InsertAt(Tb!RemoveAt(tabs, i), j, tabs[i])
  <2>1. t \in Seq(Tb!Session) /\ Tb!Ids(t) = Tb!Ids(tabs) /\ (EachOnce(tabs) => EachOnce(t))
    BY <1>1, DragKeeps
  <2>2. /\ tabs' = t /\ Tb!Operate
        /\ UNCHANGED <<server, tabsBorn, tabsCalls, replies, broadcasts, tabsActive, focus>>
    BY <1>5 DEF Tb!ReorderTabs, Tb!serverVars
  <2>3. tabs # <<>>
    BY <1>1
  <2>. HIDE DEF t
  <2>. QED
    BY <1>3, <2>1, <2>2, <2>3
<1>6. CASE Tb!OpenRemoteTab
  <2>. DEFINE x == [id |-> RemoteTab, panes |-> 1]
  <2>1. x \in Tb!Session /\ x.id = RemoteTab
    BY TabAssumption DEF Tb!Session
  <2>2. /\ tabs' = Append(tabs, x) /\ tabsActive' = x.id /\ focus' = RemoteTab /\ Tb!Operate
        /\ UNCHANGED <<server, tabsBorn, tabsCalls, replies, broadcasts>> /\ RemoteTab \notin Tb!Ids(tabs)
    BY <1>6 DEF Tb!OpenRemoteTab, Tb!AddSession, Tb!serverVars
  <2>. HIDE DEF x
  <2>3. /\ Append(tabs, x) \in Seq(Tb!Session)
        /\ Tb!Ids(Append(tabs, x)) = Tb!Ids(tabs) \cup {x.id}
        /\ EachOnce(tabs) /\ x.id \notin Tb!Ids(tabs) => EachOnce(Append(tabs, x))
    BY <1>1, <2>1, AppendAdds
  <2>. QED
    BY <1>3, <2>1, <2>2, <2>3
<1>. QED
  BY <1>4, <1>5, <1>6

\* Whatever the user does.
LEMMA UserStep ==
  ASSUME TabsInv, Tb!UserActs \/ Tb!ClosePane("exit")
  PROVE  TabsInv'
<1>0. tabs \in Seq(Tb!Session)
  BY RemoteIsApart DEF TabsInv
<1>1. ASSUME NEW i \in DOMAIN tabs
      PROVE  /\ Tb!Ids(tabs) \ {tabs[i].id} \in SUBSET Tb!Ids(tabs)
             /\ Tb!Ids(SubSeq(tabs, i + 1, Len(tabs))) \in SUBSET Tb!Ids(tabs)
  <2>. DEFINE s == SubSeq(tabs, i + 1, Len(tabs))
  <2>1. /\ DOMAIN s = 1 .. Len(tabs) - i /\ \A j \in 1 .. Len(tabs) - i : s[j] = tabs[i + j]
        /\ i \in 1 .. Len(tabs) /\ Len(tabs) \in Nat /\ DOMAIN tabs = 1 .. Len(tabs)
    BY <1>0
  <2>. HIDE DEF s
  <2>2. ASSUME NEW j \in 1 .. Len(tabs) - i
        PROVE  i + j \in 1 .. Len(tabs)
    BY <2>1
  <2>. QED
    BY <2>1, <2>2 DEF s, Tb!Ids
<1>. QED
  BY <1>1, AsksStep, ClosesStep, ShowsStep DEF Tb!UserActs

-----------------------------------------------------------------------------
\* What the server does.  Its list changes only with the news of it.
LEMMA NewsComes ==
  ASSUME NEW bs \in Seq(TabNews), NEW b \in TabNews, NEW cs
  PROVE  /\ Append(bs, b) \in Seq(TabNews)
         /\ TabsQuiet(Append(bs, b), cs) <=> TabsQuiet(bs, cs) /\ b # Tb!ListChanged
<1>1. Append(bs, b) \in Seq(TabNews) /\ Elements(Append(bs, b)) = Elements(bs) \cup {b}
  BY ElementsOfAppend
<1>. QED
  BY <1>1 DEF TabsQuiet

\* A broadcast tells of the list or of a session.
LEMMA NewsKinds ==
  /\ Tb!ListChanged \in TabNews
  /\ \A x \in TabSession : Tb!Updated(x) \in TabNews /\ Tb!Updated(x) # Tb!ListChanged
                           /\ Tb!Updated(x).session = x
  /\ \A b \in TabNews : b # Tb!ListChanged => \E x \in TabSession : b = Tb!Updated(x)
<1>1. \A x \in TabSession : /\ Tb!Updated(x) \in TabNews /\ Tb!Updated(x).session = x
                            /\ Tb!Updated(x).kind = "session"
  BY DEF TabNews, Tb!Updated
<1>2. Tb!ListChanged.kind = "list" /\ Tb!ListChanged \in TabNews
  BY DEF Tb!ListChanged, TabNews
<1>3. \A b \in TabNews : b # Tb!ListChanged => \E x \in TabSession : b = Tb!Updated(x)
  BY DEF TabNews
<1>. QED
  BY <1>1, <1>2, <1>3

\* The server's sessions after it created one, closed one or split a pane.
ServerChanged ==
  \/ server' \in TabLists /\ broadcasts' = Append(broadcasts, Tb!ListChanged)
  \/ /\ server' \in TabLists /\ Tb!Ids(server') = Tb!Ids(server) /\ tabsBorn' = tabsBorn
     /\ \E x \in TabSession : x.id \in Tb!Ids(server) /\ broadcasts' = Append(broadcasts, Tb!Updated(x))
ServerTyped == tabsBorn' \in 0 .. MaxSessions /\ \A id \in Tb!Ids(server') : id <= tabsBorn'

\* The server has one more session.
LEMMA CreateChanges ==
  ASSUME TabTypes, Tb!Create
  PROVE  /\ ServerTyped /\ server' \in TabLists /\ broadcasts' = Append(broadcasts, Tb!ListChanged)
         /\ Tb!Last(server') \in TabSession
<1>. DEFINE x == [id |-> tabsBorn + 1, panes |-> 1]
<1>1. /\ server \in Seq(TabSession) /\ EachOnce(server) /\ tabsBorn \in 0 .. MaxSessions
      /\ \A id \in Tb!Ids(server) : id <= tabsBorn
  BY DEF TabTypes, TabLists
<1>2. /\ tabsBorn' = tabsBorn + 1 /\ server' = Append(server, x) /\ tabsBorn < MaxSessions
      /\ broadcasts' = Append(broadcasts, Tb!ListChanged)
  BY DEF Tb!Create, Tb!Broadcast
<1>3. x \in TabSession /\ x.id = tabsBorn + 1
  BY <1>1, <1>2, TabAssumption DEF TabSession, Tb!Locals
<1>. HIDE DEF x
<1>4. /\ Append(server, x) \in Seq(TabSession) /\ Tb!Last(Append(server, x)) = x
      /\ Tb!Ids(Append(server, x)) = Tb!Ids(server) \cup {x.id}
      /\ EachOnce(server) /\ x.id \notin Tb!Ids(server) => EachOnce(Append(server, x))
  BY <1>1, <1>3, AppendAdds
<1>5. Tb!Ids(server) \subseteq Tb!Locals
  BY <1>1, IdsAreTyped
<1>6. x.id \notin Tb!Ids(server) /\ \A id \in Tb!Ids(server) : id <= tabsBorn + 1
  BY <1>1, <1>3, <1>5 DEF Tb!Locals
<1>7. tabsBorn + 1 \in 0 .. MaxSessions
  BY <1>1, <1>2, TabAssumption
<1>8. \A id \in Tb!Ids(server') : id <= tabsBorn'
  BY <1>1, <1>2, <1>3, <1>4, <1>6
<1>. QED
  BY <1>1, <1>2, <1>3, <1>4, <1>6, <1>7, <1>8 DEF ServerTyped, TabLists

\* The server has one session less.
LEMMA CloseChanges ==
  ASSUME TabTypes, NEW id, Tb!Close(id)
  PROVE  /\ ServerTyped /\ server' \in TabLists /\ broadcasts' = Append(broadcasts, Tb!ListChanged)
         /\ Tb!LastId(server') \in Tb!Locals \cup {None}
<1>1. /\ server \in Seq(TabSession) /\ EachOnce(server) /\ tabsBorn \in 0 .. MaxSessions
      /\ \A j \in Tb!Ids(server) : j <= tabsBorn
  BY DEF TabTypes, TabLists
<1>2. /\ tabsBorn' = tabsBorn /\ server' = Tb!Without(server, {id})
      /\ broadcasts' = Append(broadcasts, Tb!ListChanged)
  BY DEF Tb!Close, Tb!Broadcast
<1>3. /\ server' \in Seq(TabSession) /\ Tb!Ids(server') = Tb!Ids(server) \ {id} /\ EachOnce(server')
  BY <1>1, <1>2, WithoutLeaves
<1>4. Tb!LastId(server') = (IF server' = <<>> THEN None ELSE server'[Len(server')].id)
      /\ (server' # <<>> => Tb!LastId(server') \in Tb!Ids(server'))
  BY <1>3, LastAndFound
<1>5. Tb!Ids(server') \subseteq Tb!Locals
  BY <1>3, IdsAreTyped
<1>. QED
  BY <1>1, <1>2, <1>3, <1>4, <1>5 DEF ServerTyped, TabLists

\* A session of the server has other panes.
LEMMA PanesChange ==
  ASSUME TabTypes, NEW id \in Tb!Ids(server), NEW n \in 1 .. MaxPanes, Tb!SetPanes(id, n)
  PROVE  /\ ServerTyped /\ ServerChanged /\ [id |-> id, panes |-> n] \in TabSession
         /\ server' \in TabLists /\ Tb!Ids(server') = Tb!Ids(server)
<1>. DEFINE x == [id |-> id, panes |-> n]
<1>1. /\ server \in Seq(TabSession) /\ EachOnce(server) /\ tabsBorn \in 0 .. MaxSessions
      /\ \A j \in Tb!Ids(server) : j <= tabsBorn
  BY DEF TabTypes, TabLists
<1>2. /\ tabsBorn' = tabsBorn /\ server' = Tb!Replace(server, x)
      /\ broadcasts' = Append(broadcasts, Tb!Updated(x))
  BY DEF Tb!SetPanes, Tb!Broadcast
<1>3. Tb!Ids(server) \subseteq Tb!Locals
  BY <1>1, IdsAreTyped
<1>4. x \in TabSession /\ x.id = id
  BY <1>3 DEF TabSession
<1>. HIDE DEF x
<1>5. server' \in Seq(TabSession) /\ Tb!Ids(server') = Tb!Ids(server) /\ EachOnce(server')
  BY <1>1, <1>2, <1>4, ReplaceKeeps
<1>. QED
  BY <1>1, <1>2, <1>4, <1>5 DEF ServerTyped, ServerChanged, TabLists, x

\* The phone changes the server's sessions.
LEMMA PhoneStep ==
  ASSUME TabsInv,
         \/ Tb!PhoneCreates
         \/ \E id \in Tb!Ids(server) : Tb!PhoneCloses(id) \/ \E n \in 1 .. MaxPanes : Tb!PhoneResizes(id, n)
  PROVE  TabsInv'
<1>0. /\ TabTypes /\ broadcasts \in Seq(TabNews)
      /\ QueuesInv(server, tabsCalls, replies, broadcasts, latest)
      /\ ViewInv(server, tabsCalls, replies, broadcasts, tabs, tabsActive, overtaken)
  BY DEF TabsInv, TabTypes
<1>1. Tb!Operate /\ UNCHANGED <<tabsCalls, replies, tabs, tabsActive, focus>>
  BY DEF Tb!PhoneCreates, Tb!PhoneCloses, Tb!PhoneResizes, Tb!viewVars
<1>2. ServerTyped /\ ServerChanged /\ server' \in TabLists
  <2>1. CASE Tb!PhoneCreates
    BY <1>0, <2>1, CreateChanges DEF Tb!PhoneCreates, ServerChanged
  <2>2. ASSUME NEW id \in Tb!Ids(server), Tb!PhoneCloses(id)
        PROVE  ServerTyped /\ ServerChanged /\ server' \in TabLists
    BY <1>0, <2>2, CloseChanges DEF Tb!PhoneCloses, ServerChanged
  <2>3. ASSUME NEW id \in Tb!Ids(server), NEW n \in 1 .. MaxPanes, Tb!PhoneResizes(id, n)
        PROVE  ServerTyped /\ ServerChanged /\ server' \in TabLists
    BY <1>0, <2>3, PanesChange DEF Tb!PhoneResizes
  <2>. QED
    BY <2>1, <2>2, <2>3
<1>3. ops' \in 0 .. MaxOps /\ latest' = latest /\ overtaken' = overtaken
  BY <1>0, <1>1, Operated
<1>4. TabTypes'
  <2>1. broadcasts' \in Seq(TabNews)
    BY <1>0, <1>2, NewsKinds, NewsComes DEF ServerChanged
  <2>2. server' \in Seq(Tb!Session)
    BY <1>2, IdsAreTyped
  <2>. QED
    BY <1>0, <1>1, <1>2, <1>3, <2>1, <2>2 DEF TabTypes, Tb!TypeOK, ServerTyped
<1>5. CASE broadcasts' = Append(broadcasts, Tb!ListChanged)
  <2>1. ~TabsQuiet(broadcasts', tabsCalls)
    BY <1>0, <1>5, NewsKinds, NewsComes
  <2>2. NewsBacked(broadcasts', Tb!Ids(server'))
    BY <1>0, <1>5, NewsKinds, NewsGrow
  <2>3. QueuesInv(server', tabsCalls, replies, broadcasts', latest)
    BY <1>0, <2>1, <2>2 DEF QueuesInv
  <2>4. ViewInv(server', tabsCalls, replies, broadcasts', tabs, tabsActive, overtaken)
    BY <2>1 DEF ViewInv
  <2>. QED
    BY <1>1, <1>3, <1>4, <2>3, <2>4 DEF TabsInv
<1>6. CASE broadcasts' # Append(broadcasts, Tb!ListChanged)
  <2>1. PICK x \in TabSession : x.id \in Tb!Ids(server) /\ broadcasts' = Append(broadcasts, Tb!Updated(x))
    BY <1>2, <1>6 DEF ServerChanged
  <2>2. Tb!Ids(server') = Tb!Ids(server)
    BY <1>2, <1>6 DEF ServerChanged
  <2>3. TabsQuiet(broadcasts', tabsCalls) <=> TabsQuiet(broadcasts, tabsCalls)
    BY <1>0, <2>1, NewsKinds, NewsComes
  <2>4. NewsBacked(broadcasts', Tb!Ids(server))
    <3>1. NewsBacked(broadcasts, Tb!Ids(server))
      BY <1>0 DEF QueuesInv
    <3>. QED
      BY <1>0, <2>1, <3>1, NewsKinds, NewsGrow
  <2>5. QueuesInv(server', tabsCalls, replies, broadcasts', latest)
    BY <1>0, <2>2, <2>3, <2>4 DEF QueuesInv
  <2>6. ViewInv(server', tabsCalls, replies, broadcasts', tabs, tabsActive, overtaken)
    BY <1>0, <2>2, <2>3 DEF ViewInv
  <2>. QED
    BY <1>1, <1>3, <1>4, <2>5, <2>6 DEF TabsInv
<1>. QED
  BY <1>5, <1>6

\* What is left of the calls when the first of them is served.
LEMMA CallsServed ==
  ASSUME NEW cs \in Seq(TabCall), cs # <<>>, NEW rs, FirstAsks(cs, rs)
  PROVE  LET c == Head(cs)
             t == Tail(cs)
         IN  /\ c \in TabCall /\ t \in Seq(TabCall) /\ Elements(cs) = {c} \cup Elements(t)
             /\ ~Starting(t) /\ \A r2 : FirstAsks(t, r2)
             /\ Asks(c, "init") => rs = <<>>
             /\ \A bs : TabsQuiet(bs, cs) <=> TabsQuiet(bs, t) /\ ~Asks(c, "refresh")
             /\ Starting(cs) <=> Asks(c, "init")
<1>. DEFINE c == Head(cs)
            t == Tail(cs)
<1>1. c \in TabCall /\ t \in Seq(TabCall) /\ Elements(cs) = {c} \cup Elements(t)
  BY ElementsOfTail
<1>2. \A i \in DOMAIN t : ~Asks(t[i], "init")
  BY FirstGoes
<1>3. Asks(c, "init") => rs = <<>>
  <2>1. 1 \in DOMAIN cs /\ c = cs[1]
    OBVIOUS
  <2>. HIDE DEF c
  <2>. QED
    BY <2>1 DEF FirstAsks
<1>. HIDE DEF c, t
<1>4. ~Starting(t) /\ \A r2 : FirstAsks(t, r2)
  BY <1>2 DEF Starting, Elements, FirstAsks
<1>5. \A bs : TabsQuiet(bs, cs) <=> TabsQuiet(bs, t) /\ ~Asks(c, "refresh")
  BY <1>1 DEF TabsQuiet
<1>6. Starting(cs) <=> Asks(c, "init")
  BY <1>1, <1>4 DEF Starting
<1>. QED
  BY <1>1, <1>3, <1>4, <1>5, <1>6 DEF c, t

\* The answers, with one more.
LEMMA AnswerComes ==
  ASSUME NEW cs, NEW t, NEW c, Elements(cs) = {c} \cup Elements(t),
         NEW rs \in Seq(TabReply), NEW r \in TabReply, r.call = c
  PROVE  /\ Append(rs, r) \in Seq(TabReply)
         /\ TabsComing(cs, rs) => TabsComing(t, Append(rs, r))
         /\ BringsTabs(r) => TabsComing(t, Append(rs, r))
<1>1. Append(rs, r) \in Seq(TabReply) /\ Elements(Append(rs, r)) = Elements(rs) \cup {r}
  BY ElementsOfAppend
<1>2. Tb!BringsAList(c) => BringsTabs(r)
  BY DEF BringsTabs
<1>. QED
  BY <1>1, <1>2 DEF TabsComing

\* Calls whose answer tells of a session that the server still has.
LEMMA ServedQuietly ==
  ASSUME TabsInv, NEW c, NEW t, NEW r \in TabReply, tabsCalls # <<>>,
         c = Head(tabsCalls), t = Tail(tabsCalls), r.call = c, c.op # "list",
         tabsCalls' = t, replies' = Append(replies, r), latest' = latest,
         UNCHANGED <<tabs, tabsActive, focus, ops, overtaken>>,
         server' \in TabLists, ServerTyped, Tb!Ids(server') = Tb!Ids(server),
         \/ broadcasts' = broadcasts
         \/ \E x \in TabSession : x.id \in Tb!Ids(server) /\ broadcasts' = Append(broadcasts, Tb!Updated(x)),
         ShowsOf(r, Tb!Ids(server)),
         c.op = "close" => c.id \notin Tb!Ids(server)
  PROVE  TabsInv'
<1>. DEFINE S == Tb!Ids(server)
<1>0. /\ TabTypes /\ tabsCalls \in Seq(TabCall) /\ replies \in Seq(TabReply) /\ broadcasts \in Seq(TabNews)
      /\ QueuesInv(server, tabsCalls, replies, broadcasts, latest)
      /\ ViewInv(server, tabsCalls, replies, broadcasts, tabs, tabsActive, overtaken)
  BY DEF TabsInv, TabTypes
<1>1. /\ c \in TabCall /\ t \in Seq(TabCall) /\ Elements(tabsCalls) = {c} \cup Elements(t)
      /\ ~Starting(t) /\ \A r2 : FirstAsks(t, r2)
      /\ \A bs : TabsQuiet(bs, tabsCalls) <=> TabsQuiet(bs, t) /\ ~Asks(c, "refresh")
      /\ Starting(tabsCalls) <=> Asks(c, "init")
  BY <1>0, CallsServed DEF QueuesInv
<1>2. ~Asks(c, "init") /\ ~Asks(c, "refresh")
  BY DEF Asks
<1>3. broadcasts' \in Seq(TabNews) /\ (TabsQuiet(broadcasts', t) <=> TabsQuiet(broadcasts, tabsCalls))
      /\ NewsBacked(broadcasts', S)
  <2>1. NewsBacked(broadcasts, S)
    BY <1>0 DEF QueuesInv
  <2>2. CASE broadcasts' = broadcasts
    BY <1>0, <1>1, <1>2, <2>1, <2>2
  <2>3. CASE broadcasts' # broadcasts
    <3>1. PICK x \in TabSession : x.id \in S /\ broadcasts' = Append(broadcasts, Tb!Updated(x))
      BY <2>3
    <3>2. /\ Append(broadcasts, Tb!Updated(x)) \in Seq(TabNews)
          /\ TabsQuiet(Append(broadcasts, Tb!Updated(x)), t) <=> TabsQuiet(broadcasts, t)
      BY <1>0, NewsKinds, NewsComes
    <3>3. NewsBacked(Append(broadcasts, Tb!Updated(x)), S)
      BY <1>0, <2>1, <3>1, NewsKinds, NewsGrow
    <3>. QED
      BY <1>1, <1>2, <3>1, <3>2, <3>3
  <2>. QED
    BY <2>2, <2>3
<1>4. /\ replies' \in Seq(TabReply)
      /\ TabsComing(tabsCalls, replies) => TabsComing(t, replies')
  BY <1>0, <1>1, AnswerComes
<1>5. TabTypes'
  <2>1. server' \in Seq(Tb!Session)
    BY IdsAreTyped
  <2>. QED
    BY <1>0, <1>1, <1>3, <1>4, <2>1 DEF TabTypes, Tb!TypeOK, ServerTyped
<1>6. QueuesInv(server', t, replies', broadcasts', latest)
  <2>1. FirstAnswers(replies')
    BY <1>0, <1>2, FirstStays DEF QueuesInv
  <2>2. TabsQuiet(broadcasts', t) => AnswersBacked(replies', S)
    BY <1>0, <1>3, AnswersGrow DEF QueuesInv
  <2>3. TabsQuiet(broadcasts', t) => latest = S
    BY <1>0, <1>1, <1>2, <1>3 DEF QueuesInv
  <2>4. LastListIs(replies', latest)
    BY <1>0, LastListGrows DEF QueuesInv
  <2>. QED
    BY <1>1, <1>3, <2>1, <2>2, <2>3, <2>4 DEF QueuesInv
<1>7. ViewInv(server', t, replies', broadcasts', tabs, tabsActive, overtaken)
  <2>. SUFFICES ASSUME TabsQuiet(broadcasts', t), ~overtaken, ~TabsComing(t, replies')
                PROVE  TabsAre(tabs, tabsActive, S, t)
    BY DEF ViewInv
  <2>1. TabsAre(tabs, tabsActive, S, tabsCalls)
    BY <1>0, <1>3, <1>4 DEF ViewInv
  <2>2. \A id \in S : TabsClosing(tabsCalls, id) => TabsClosing(t, id)
    BY <1>1 DEF TabsClosing
  <2>3. ~Starting(tabsCalls)
    BY <1>1, <1>2
  <2>. QED
    BY <2>1, <2>2, <2>3 DEF TabsAre
<1>. QED
  BY <1>5, <1>6, <1>7 DEF TabsInv

\* Calls that change the list of sessions.
LEMMA ServedLoudly ==
  ASSUME TabsInv, NEW c, NEW t, NEW r \in TabReply, tabsCalls # <<>>,
         c = Head(tabsCalls), t = Tail(tabsCalls), r.call = c, c.op # "list",
         tabsCalls' = t, replies' = Append(replies, r), latest' = latest,
         UNCHANGED <<tabs, tabsActive, focus, ops, overtaken>>,
         server' \in TabLists, ServerTyped, broadcasts' = Append(broadcasts, Tb!ListChanged)
  PROVE  TabsInv'
<1>. DEFINE S == Tb!Ids(server')
<1>0. /\ TabTypes /\ tabsCalls \in Seq(TabCall) /\ replies \in Seq(TabReply) /\ broadcasts \in Seq(TabNews)
      /\ QueuesInv(server, tabsCalls, replies, broadcasts, latest)
  BY DEF TabsInv, TabTypes
<1>1. /\ c \in TabCall /\ t \in Seq(TabCall) /\ Elements(tabsCalls) = {c} \cup Elements(t)
      /\ ~Starting(t) /\ \A r2 : FirstAsks(t, r2)
  BY <1>0, CallsServed DEF QueuesInv
<1>2. ~Asks(c, "init")
  BY DEF Asks
<1>3. broadcasts' \in Seq(TabNews) /\ ~TabsQuiet(broadcasts', t) /\ NewsBacked(broadcasts', S)
  <2>1. /\ Append(broadcasts, Tb!ListChanged) \in Seq(TabNews)
        /\ ~TabsQuiet(Append(broadcasts, Tb!ListChanged), t)
    BY <1>0, NewsKinds, NewsComes
  <2>2. NewsBacked(Append(broadcasts, Tb!ListChanged), S)
    BY <1>0, NewsKinds, NewsGrow
  <2>. QED
    BY <2>1, <2>2
<1>4. replies' \in Seq(TabReply)
  BY <1>0, <1>1, AnswerComes
<1>5. TabTypes'
  <2>1. server' \in Seq(Tb!Session)
    BY IdsAreTyped
  <2>. QED
    BY <1>0, <1>1, <1>3, <1>4, <2>1 DEF TabTypes, Tb!TypeOK, ServerTyped
<1>6. QueuesInv(server', t, replies', broadcasts', latest)
  <2>1. FirstAnswers(replies')
    BY <1>0, <1>2, FirstStays DEF QueuesInv
  <2>2. LastListIs(replies', latest)
    BY <1>0, LastListGrows DEF QueuesInv
  <2>. QED
    BY <1>1, <1>3, <2>1, <2>2 DEF QueuesInv
<1>7. ViewInv(server', t, replies', broadcasts', tabs, tabsActive, overtaken)
  BY <1>3 DEF ViewInv
<1>. QED
  BY <1>5, <1>6, <1>7 DEF TabsInv

\* The list is asked for.
LEMMA ServedList ==
  ASSUME TabsInv, NEW c, NEW t, NEW r, tabsCalls # <<>>, c = Head(tabsCalls), t = Tail(tabsCalls),
         c.op = "list", r = [call |-> c, ok |-> TRUE, answer |-> server],
         tabsCalls' = t, replies' = Append(replies, r), latest' = Tb!Ids(server),
         UNCHANGED <<server, tabsBorn, broadcasts, tabs, tabsActive, focus, ops, overtaken>>
  PROVE  TabsInv'
<1>. DEFINE S == Tb!Ids(server)
<1>0. /\ TabTypes /\ tabsCalls \in Seq(TabCall) /\ replies \in Seq(TabReply) /\ broadcasts \in Seq(TabNews)
      /\ QueuesInv(server, tabsCalls, replies, broadcasts, latest)
      /\ ViewInv(server, tabsCalls, replies, broadcasts, tabs, tabsActive, overtaken)
      /\ server \in TabLists
  BY DEF TabsInv, TabTypes
<1>1. /\ c \in TabCall /\ t \in Seq(TabCall) /\ Elements(tabsCalls) = {c} \cup Elements(t)
      /\ ~Starting(t) /\ \A r2 : FirstAsks(t, r2)
      /\ Asks(c, "init") => replies = <<>>
      /\ \A bs : TabsQuiet(bs, tabsCalls) <=> TabsQuiet(bs, t) /\ ~Asks(c, "refresh")
  BY <1>0, CallsServed DEF QueuesInv
<1>2. /\ r \in TabReply /\ r.call = c /\ r.answer = server
      /\ Asks(c, "init") \/ Asks(c, "refresh")
      /\ ~(Asks(c, "init") /\ Asks(c, "refresh"))
  <2>1. c.why \in {"init", "refresh"}
    BY <1>1, CallKinds
  <2>. QED
    BY <1>0, <1>1, <2>1 DEF TabReply, Asks
<1>3. /\ replies' \in Seq(TabReply)
      /\ TabsComing(tabsCalls, replies) => TabsComing(t, replies')
      /\ BringsTabs(r) => TabsComing(t, replies')
  BY <1>0, <1>1, <1>2, AnswerComes
<1>4. TabTypes'
  BY <1>0, <1>1, <1>3 DEF TabTypes, Tb!TypeOK
<1>5. QueuesInv(server, t, replies', broadcasts, S)
  <2>1. FirstAnswers(replies')
    <3>1. FirstAnswers(replies) /\ (Asks(r.call, "init") => replies = <<>>)
      BY <1>0, <1>1, <1>2 DEF QueuesInv
    <3>. QED
      BY <1>0, <1>2, <3>1, FirstStays
  <2>2. AnswersBacked(replies', S)
    <3>1. CASE Asks(c, "refresh")
      BY <1>0, <1>2, <3>1, AnswersGrow
    <3>2. CASE Asks(c, "init")
      <4>1. AnswersBacked(replies, S)
        BY <1>1, <3>2 DEF AnswersBacked
      <4>2. ShowsOf(r, S)
        BY <1>2 DEF ShowsOf
      <4>. QED
        BY <1>0, <1>2, <4>1, <4>2, AnswersGrow
    <3>. QED
      BY <1>2, <3>1, <3>2
  <2>3. LastListIs(replies', S)
    BY <1>0, <1>2, LastListGrows
  <2>. QED
    BY <1>0, <1>1, <2>1, <2>2, <2>3 DEF QueuesInv
<1>6. ViewInv(server, t, replies', broadcasts, tabs, tabsActive, overtaken)
  <2>. SUFFICES ASSUME TabsQuiet(broadcasts, t), ~overtaken, ~TabsComing(t, replies')
                PROVE  TabsAre(tabs, tabsActive, S, t)
    BY DEF ViewInv
  <2>1. Asks(c, "init") /\ server = <<>>
    BY <1>2, <1>3 DEF BringsTabs
  <2>2. ~Asks(c, "refresh") /\ S = {}
    BY <1>2, <2>1 DEF Tb!Ids
  <2>3. TabsAre(tabs, tabsActive, S, tabsCalls)
    BY <1>0, <1>1, <1>3, <2>2 DEF ViewInv
  <2>. QED
    BY <2>2, <2>3 DEF TabsAre
<1>. QED
  BY <1>4, <1>5, <1>6 DEF TabsInv

\* The server takes the next call.
LEMMA ServeStep ==
  ASSUME TabsInv, Tb!Serve
  PROVE  TabsInv'
<1>. DEFINE c == Head(tabsCalls)
            t == Tail(tabsCalls)
            S == Tb!Ids(server)
<1>0. /\ TabTypes /\ tabsCalls \in Seq(TabCall) /\ server \in TabLists
      /\ QueuesInv(server, tabsCalls, replies, broadcasts, latest)
  BY DEF TabsInv, TabTypes
<1>1. /\ tabsCalls # <<>> /\ tabsCalls' = t
      /\ latest' = (IF c.op = "list" THEN S ELSE latest)
      /\ UNCHANGED <<tabs, tabsActive, focus, ops, overtaken>>
      /\ \/ Tb!ServeList(c) \/ Tb!ServeCreate(c) \/ Tb!ServeClose(c) \/ Tb!ServeAttach(c) \/ Tb!ServePanes(c)
  BY DEF Tb!Serve, Tb!viewVars
<1>2. c \in TabCall
  BY <1>0, <1>1, CallsServed DEF QueuesInv
<1>. HIDE DEF c, t
<1>3. ServerTyped \/ server' # server \/ tabsBorn' # tabsBorn
  BY <1>0 DEF TabTypes, ServerTyped
<1>4. CASE Tb!Fail(c) /\ c.op # "list" /\ (c.op = "close" => c.id \notin S)
  <2>. DEFINE r == [call |-> c, ok |-> FALSE, answer |-> None]
  <2>1. replies' = Append(replies, r) /\ UNCHANGED <<server, tabsBorn, broadcasts>>
    BY <1>4 DEF Tb!Fail, Tb!serverVars
  <2>2. r \in TabReply /\ r.call = c /\ ShowsOf(r, S)
    BY <1>2, <1>4 DEF TabReply, ShowsOf
  <2>. HIDE DEF r
  <2>. QED
    BY <1>0, <1>1, <1>3, <1>4, <2>1, <2>2, ServedQuietly DEF c, t
<1>5. CASE Tb!ServeList(c)
  BY <1>1, <1>5, ServedList DEF Tb!ServeList, Tb!Answer, Tb!serverVars, c, t
<1>6. CASE Tb!ServeCreate(c)
  <2>1. CASE Tb!Fail(c)
    BY <1>4, <1>6, <2>1 DEF Tb!ServeCreate
  <2>2. CASE ~Tb!Fail(c)
    <3>. DEFINE r == [call |-> c, ok |-> TRUE, answer |-> Tb!Last(server')]
    <3>1. c.op = "create" /\ Tb!Create /\ replies' = Append(replies, r)
      BY <1>6, <2>2 DEF Tb!ServeCreate, Tb!Answer
    <3>2. /\ ServerTyped /\ server' \in TabLists /\ broadcasts' = Append(broadcasts, Tb!ListChanged)
          /\ Tb!Last(server') \in TabSession
      BY <1>0, <3>1, CreateChanges
    <3>3. r \in TabReply /\ r.call = c
      BY <1>2, <3>1, <3>2 DEF TabReply
    <3>. HIDE DEF r
    <3>. QED
      BY <1>1, <3>1, <3>2, <3>3, ServedLoudly DEF c, t
  <2>. QED
    BY <2>1, <2>2
<1>7. CASE Tb!ServeClose(c)
  <2>1. CASE c.id \notin S
    BY <1>4, <1>7, <2>1 DEF Tb!ServeClose
  <2>2. CASE c.id \in S
    <3>. DEFINE r == [call |-> c, ok |-> TRUE, answer |-> Tb!LastId(server')]
    <3>1. c.op = "close" /\ Tb!Close(c.id) /\ replies' = Append(replies, r)
      BY <1>7, <2>2 DEF Tb!ServeClose, Tb!Answer
    <3>2. /\ ServerTyped /\ server' \in TabLists /\ broadcasts' = Append(broadcasts, Tb!ListChanged)
          /\ Tb!LastId(server') \in Tb!Locals \cup {None}
      BY <1>0, <3>1, CloseChanges
    <3>3. r \in TabReply /\ r.call = c
      BY <1>2, <3>1, <3>2 DEF TabReply
    <3>. HIDE DEF r
    <3>. QED
      BY <1>1, <3>1, <3>2, <3>3, ServedLoudly DEF c, t
  <2>. QED
    BY <2>1, <2>2
<1>8. CASE Tb!ServeAttach(c)
  <2>1. CASE c.id \notin S
    BY <1>4, <1>8, <2>1 DEF Tb!ServeAttach
  <2>2. CASE c.id \in S
    <3>. DEFINE r == [call |-> c, ok |-> TRUE, answer |-> Tb!Find(server, c.id)]
    <3>1. /\ c.op = "attach" /\ replies' = Append(replies, r)
          /\ UNCHANGED <<server, tabsBorn, broadcasts>>
      BY <1>8, <2>2 DEF Tb!ServeAttach, Tb!Answer, Tb!serverVars
    <3>2. Tb!Find(server, c.id) \in TabSession /\ Tb!Find(server, c.id).id = c.id
      BY <1>0, <2>2, LastAndFound DEF TabLists
    <3>3. r \in TabReply /\ r.call = c /\ ShowsOf(r, S)
      BY <1>2, <2>2, <3>1, <3>2 DEF TabReply, ShowsOf
    <3>. HIDE DEF r
    <3>. QED
      BY <1>0, <1>1, <1>3, <3>1, <3>3, ServedQuietly DEF c, t
  <2>. QED
    BY <2>1, <2>2
<1>9. CASE Tb!ServePanes(c)
  <2>. DEFINE n == IF c.id \in S THEN Tb!Find(server, c.id).panes ELSE 0
              m == IF c.op = "split" THEN n + 1 ELSE n - 1
  <2>1. c.op \in {"split", "closePane"}
    BY <1>9 DEF Tb!ServePanes
  <2>2. CASE ~(n > 0 /\ m \in 1 .. MaxPanes)
    <3>1. Tb!Fail(c)
      BY <1>9, <2>2 DEF Tb!ServePanes
    <3>. QED
      BY <1>4, <2>1, <3>1
  <2>3. CASE n > 0 /\ m \in 1 .. MaxPanes
    <3>. DEFINE r == [call |-> c, ok |-> TRUE, answer |-> [id |-> c.id, panes |-> m]]
    <3>1. Tb!SetPanes(c.id, m) /\ replies' = Append(replies, r)
      BY <1>9, <2>3 DEF Tb!ServePanes, Tb!Answer
    <3>2. c.id \in S
      BY <2>3
    <3>. HIDE DEF n, m
    <3>3. /\ ServerTyped /\ ServerChanged /\ [id |-> c.id, panes |-> m] \in TabSession
          /\ server' \in TabLists /\ Tb!Ids(server') = S
      BY <1>0, <2>3, <3>1, <3>2, PanesChange
    <3>4. r \in TabReply /\ r.call = c /\ ShowsOf(r, S)
      BY <1>2, <2>1, <3>2, <3>3 DEF TabReply, ShowsOf
    <3>. HIDE DEF r
    <3>5. \E x \in TabSession : x.id \in S /\ broadcasts' = Append(broadcasts, Tb!Updated(x))
      <4>. DEFINE x == [id |-> c.id, panes |-> m]
      <4>1. broadcasts' = Append(broadcasts, Tb!Updated(x)) /\ x.id \in S
        BY <3>1, <3>2 DEF Tb!SetPanes, Tb!Broadcast
      <4>. QED
        BY <3>3, <4>1
    <3>. QED
      BY <1>1, <2>1, <3>1, <3>2, <3>3, <3>4, <3>5, ServedQuietly DEF c, t
  <2>. QED
    BY <2>2, <2>3
<1>. QED
  BY <1>1, <1>5, <1>6, <1>7, <1>8, <1>9

-----------------------------------------------------------------------------
\* A session is shown anew, in its tab or in one of its own.
LEMMA SessionIsSet ==
  ASSUME TabTypes, NEW x \in TabSession, Tb!SetSession(x)
  PROVE  /\ tabs' \in Seq(Tb!Session) /\ tabsActive' \in Tb!Locals \cup {RemoteTab, None}
         /\ Tb!Ids(tabs') = Tb!Ids(tabs) \cup {x.id} /\ (EachOnce(tabs) => EachOnce(tabs'))
         /\ tabsActive' \in Tb!Ids(tabs') \/ (tabsActive' = tabsActive /\ tabs # <<>>)
<1>1. /\ tabs \in Seq(Tb!Session) /\ tabsActive \in Tb!Locals \cup {RemoteTab, None}
      /\ x \in Tb!Session /\ x.id \in Tb!Locals
  BY RemoteIsApart, IdsAreTyped DEF TabSession
<1>2. CASE x.id \in Tb!Ids(tabs)
  <2>1. tabs' = Tb!Replace(tabs, x) /\ tabsActive' = tabsActive
    BY <1>2 DEF Tb!SetSession
  <2>2. /\ Tb!Replace(tabs, x) \in Seq(Tb!Session)
        /\ Tb!Ids(Tb!Replace(tabs, x)) = Tb!Ids(tabs)
        /\ EachOnce(tabs) => EachOnce(Tb!Replace(tabs, x))
    BY <1>1, ReplaceKeeps
  <2>3. tabs # <<>>
    BY <1>2 DEF Tb!Ids
  <2>. QED
    BY <1>1, <1>2, <2>1, <2>2, <2>3
<1>3. CASE x.id \notin Tb!Ids(tabs)
  <2>1. tabs' = Append(tabs, x) /\ tabsActive' = x.id
    BY <1>3 DEF Tb!SetSession, Tb!AddSession
  <2>2. /\ Append(tabs, x) \in Seq(Tb!Session)
        /\ Tb!Ids(Append(tabs, x)) = Tb!Ids(tabs) \cup {x.id}
        /\ EachOnce(tabs) /\ x.id \notin Tb!Ids(tabs) => EachOnce(Append(tabs, x))
    BY <1>1, AppendAdds
  <2>. QED
    BY <1>1, <1>3, <2>1, <2>2
<1>. QED
  BY <1>2, <1>3

\* A session of the server's is shown, with no call.
LEMMA SetIsKept ==
  ASSUME NEW l, NEW m, NEW a, NEW b, NEW S, NEW cs \in Seq(TabCall), NEW id \in S, RemoteTab \notin S,
         Tb!Ids(m) = Tb!Ids(l) \cup {id}, EachOnce(l) => EachOnce(m),
         b \in Tb!Ids(m) \/ (b = a /\ l # <<>>),
         TabsAre(l, a, S, cs)
  PROVE  TabsAre(m, b, S, cs)
<1>1. CallsMade(cs, cs, <<>>, {})
  BY NoCallMade
<1>2. EachOnce(m) /\ Tb!Ids(m) \ {RemoteTab} \subseteq S
  BY DEF TabsAre
<1>3. \A j \in Tb!Ids(l) : j \in Tb!Ids(m) \cup {RemoteTab}
  OBVIOUS
<1>4. m # <<>> => b \in Tb!Ids(m) \/ (b = a /\ l # <<>> /\ (a \in Tb!Ids(l) => a \in Tb!Ids(m)))
  OBVIOUS
<1>. QED
  BY <1>1, <1>2, <1>3, <1>4, TabsKept

\* What is left of the news when the first of it is taken.
LEMMA NewsTaken ==
  ASSUME NEW bs \in Seq(TabNews), bs # <<>>
  PROVE  /\ Head(bs) \in TabNews /\ Tail(bs) \in Seq(TabNews)
         /\ \A cs : TabsQuiet(bs, cs) <=> TabsQuiet(Tail(bs), cs) /\ Head(bs) # Tb!ListChanged
<1>1. Head(bs) \in TabNews /\ Tail(bs) \in Seq(TabNews) /\ Elements(bs) = {Head(bs)} \cup Elements(Tail(bs))
  BY ElementsOfTail
<1>. QED
  BY <1>1 DEF TabsQuiet

\* News arrives.
LEMMA BroadcastStep ==
  ASSUME TabsInv, Tb!OnBroadcast
  PROVE  TabsInv'
<1>. DEFINE b == Head(broadcasts)
            n == Tail(broadcasts)
            S == Tb!Ids(server)
            cs == tabsCalls
<1>0. /\ TabTypes /\ tabsCalls \in Seq(TabCall) /\ broadcasts \in Seq(TabNews)
      /\ QueuesInv(server, cs, replies, broadcasts, latest)
      /\ ViewInv(server, cs, replies, broadcasts, tabs, tabsActive, overtaken)
  BY DEF TabsInv, TabTypes
<1>1. /\ broadcasts # <<>> /\ broadcasts' = n
      /\ UNCHANGED <<server, tabsBorn, replies, focus, ops, latest, overtaken>>
  BY DEF Tb!OnBroadcast, Tb!serverVars, Tb!history
<1>2. /\ b \in TabNews /\ n \in Seq(TabNews)
      /\ \A c2 : TabsQuiet(broadcasts, c2) <=> TabsQuiet(n, c2) /\ b # Tb!ListChanged
  BY <1>0, <1>1, NewsTaken
<1>3. /\ NewsBacked(n, S)
      /\ b # Tb!ListChanged => b.session.id \in S \/ Tb!ListChanged \in Elements(n)
  BY <1>0, <1>1, NewsShrink DEF QueuesInv
<1>4. RemoteTab \notin S /\ focus \in Tb!Locals \cup {RemoteTab, None} /\ ops \in 0 .. MaxOps
      /\ overtaken \in BOOLEAN /\ tabs \in Seq(Tb!Session) /\ tabsActive \in Tb!Locals \cup {RemoteTab, None}
  BY <1>0, RemoteIsApart
<1>5. CASE b = Tb!ListChanged
  <2>. DEFINE c == [op |-> "list", why |-> "refresh"]
  <2>1. tabsCalls' = Append(cs, c) /\ tabs' = tabs /\ tabsActive' = tabsActive
    BY <1>5 DEF Tb!OnBroadcast, Tb!Call
  <2>2. c \in TabCall /\ Asks(c, "refresh") /\ ~Asks(c, "init")
    BY CallsOfTabs DEF Asks
  <2>. HIDE DEF c
  <2>3. Append(cs, c) \in Seq(TabCall) /\ Elements(Append(cs, c)) = Elements(cs) \cup {c}
    BY <1>0, <2>2, ElementsOfAppend
  <2>4. ~TabsQuiet(n, tabsCalls')
    BY <2>1, <2>2, <2>3 DEF TabsQuiet
  <2>5. FirstAsks(tabsCalls', replies)
    BY <1>0, <2>1, <2>2, FirstStays DEF QueuesInv
  <2>6. Tb!TypeOK'
    BY <1>0, <1>1, <1>4, <2>1, TabsTyped
  <2>7. TabTypes'
    BY <1>0, <1>1, <1>2, <2>1, <2>3, <2>6 DEF TabTypes
  <2>8. QueuesInv(server, tabsCalls', replies, n, latest)
    BY <1>0, <1>3, <2>4, <2>5 DEF QueuesInv
  <2>9. ViewInv(server, tabsCalls', replies, n, tabs', tabsActive', overtaken)
    BY <2>4 DEF ViewInv
  <2>. QED
    BY <1>1, <2>7, <2>8, <2>9 DEF TabsInv
<1>6. CASE b # Tb!ListChanged
  <2>1. PICK x \in TabSession : b.session = x
    BY <1>2, <1>6, NewsKinds
  <2>2. Tb!SetSession(x) /\ tabsCalls' = cs
    BY <1>6, <2>1 DEF Tb!OnBroadcast
  <2>3. /\ tabs' \in Seq(Tb!Session) /\ tabsActive' \in Tb!Locals \cup {RemoteTab, None}
        /\ Tb!Ids(tabs') = Tb!Ids(tabs) \cup {x.id} /\ (EachOnce(tabs) => EachOnce(tabs'))
        /\ tabsActive' \in Tb!Ids(tabs') \/ (tabsActive' = tabsActive /\ tabs # <<>>)
    BY <1>0, <2>2, SessionIsSet
  <2>4. Tb!TypeOK'
    BY <1>0, <1>1, <1>4, <2>3, TabsTyped
  <2>5. TabTypes'
    BY <1>0, <1>1, <1>2, <2>2, <2>4 DEF TabTypes
  <2>6. TabsQuiet(n, cs) <=> TabsQuiet(broadcasts, cs)
    BY <1>2, <1>6
  <2>7. QueuesInv(server, cs, replies, n, latest)
    BY <1>0, <1>3, <2>6 DEF QueuesInv
  <2>8. ASSUME TabsQuiet(n, cs), ~overtaken, ~TabsComing(cs, replies)
        PROVE  TabsAre(tabs', tabsActive', S, cs)
    <3>1. TabsAre(tabs, tabsActive, S, cs)
      BY <1>0, <2>6, <2>8 DEF ViewInv
    <3>2. x.id \in S
      BY <1>3, <1>6, <2>1, <2>8 DEF TabsQuiet
    <3>. QED
      BY <1>0, <1>4, <2>3, <3>1, <3>2, SetIsKept
  <2>9. ViewInv(server, cs, replies, n, tabs', tabsActive', overtaken)
    BY <2>8 DEF ViewInv
  <2>. QED
    BY <1>1, <2>2, <2>5, <2>7, <2>9 DEF TabsInv
<1>. QED
  BY <1>5, <1>6

\* What is known of an answer when it is taken, while nothing else is on its way.
AnswerTells(r, S, l, a, ov, cs) ==
  /\ ShowsOf(r, S)
  /\ r.call.op = "list" => Tb!Ids(r.answer) = S
  /\ ~BringsTabs(r) /\ ~ov => TabsAre(l, a, S, cs)
  /\ ~Starting(cs)

\* No list is asked for, and what was asked for still is.
CallsAdded(cs, c2) ==
  Elements(cs) \subseteq Elements(c2) /\ \A c \in Elements(c2) \ Elements(cs) : c.op # "list"

OvertakenBy(r) ==
  overtaken' = (overtaken \/ (Tb!BringsAList(r.call) /\ Tb!Ids(r.call.list) # latest))

\* The tabs are right when it has been taken, unless more is on its way.
AnswerShows(r, u) ==
  AnswerTells(r, Tb!Ids(server), tabs, tabsActive, overtaken, tabsCalls) /\ latest = Tb!Ids(server)
    /\ ~overtaken' /\ ~TabsComing(tabsCalls', u) => TabsAre(tabs', tabsActive', Tb!Ids(server), tabsCalls')

\* So it is with the first answer, whatever calls it makes but for lists.
LEMMA AnswerTaken ==
  ASSUME TabsInv, replies # <<>>, replies' = Tail(replies),
         tabsCalls' \in Seq(TabCall), CallsAdded(tabsCalls, tabsCalls'),
         UNCHANGED <<server, tabsBorn, broadcasts, ops, latest>>,
         OvertakenBy(Head(replies)),
         tabs' \in Seq(Tb!Session), tabsActive' \in Tb!Locals \cup {RemoteTab, None},
         focus' \in Tb!Locals \cup {RemoteTab, None},
         AnswerShows(Head(replies), Tail(replies))
  PROVE  TabsInv'
<1>. DEFINE S == Tb!Ids(server)
            cs == tabsCalls
            c2 == tabsCalls'
            r == Head(replies)
            u == Tail(replies)
<1>0. /\ TabTypes /\ cs \in Seq(TabCall) /\ replies \in Seq(TabReply) /\ broadcasts \in Seq(TabNews)
      /\ QueuesInv(server, cs, replies, broadcasts, latest)
      /\ ViewInv(server, cs, replies, broadcasts, tabs, tabsActive, overtaken)
      /\ overtaken \in BOOLEAN /\ ops \in 0 .. MaxOps
  BY RemoteIsApart DEF TabsInv, TabTypes
<1>1. r \in TabReply /\ u \in Seq(TabReply) /\ Elements(replies) = {r} \cup Elements(u)
  BY <1>0, ElementsOfTail
<1>2. \A c \in Elements(cs) : ~Asks(c, "init")
  BY <1>0 DEF QueuesInv, FirstAsks, Elements
<1>3. \A c \in Elements(c2) : ~Asks(c, "init")
  BY <1>2 DEF Asks, CallsAdded
<1>4. ~Starting(cs) /\ ~Starting(c2) /\ FirstAsks(c2, u)
  BY <1>2, <1>3 DEF Starting, FirstAsks, Elements
<1>5. (\A i \in DOMAIN u : ~Asks(u[i].call, "init")) /\ FirstAnswers(u)
  <2>1. \A i \in DOMAIN u : ~Asks(u[i].call, "init")
    BY <1>0, FirstGoes DEF QueuesInv
  <2>. QED
    BY <2>1 DEF FirstAnswers
<1>6. TabsQuiet(broadcasts, c2) <=> TabsQuiet(broadcasts, cs)
  BY DEF TabsQuiet, Asks, CallsAdded
<1>7. Tb!TypeOK'
  <2>1. overtaken' \in BOOLEAN
    BY <1>0 DEF OvertakenBy
  <2>. QED
    BY <1>0, <2>1, TabsTyped
<1>8. TabTypes'
  BY <1>0, <1>1, <1>7 DEF TabTypes
<1>9. QueuesInv(server, c2, u, broadcasts, latest)
  <2>1. NewsBacked(broadcasts, S) /\ LastListIs(u, latest)
    BY <1>0, LastListShrinks DEF QueuesInv
  <2>2. TabsQuiet(broadcasts, c2) => AnswersBacked(u, S)
    BY <1>0, <1>6, AnswersShrink DEF QueuesInv
  <2>3. TabsQuiet(broadcasts, c2) => latest = S
    BY <1>0, <1>4, <1>6 DEF QueuesInv
  <2>. QED
    BY <1>4, <1>5, <2>1, <2>2, <2>3 DEF QueuesInv
<1>10. ASSUME TabsQuiet(broadcasts, c2), ~overtaken', ~TabsComing(c2, u)
       PROVE  TabsAre(tabs', tabsActive', S, c2)
  <2>1. TabsQuiet(broadcasts, cs) /\ latest = S
    BY <1>0, <1>4, <1>6, <1>10 DEF QueuesInv
  <2>2. \A q \in Elements(u) : ~BringsTabs(q)
    BY <1>10 DEF TabsComing
  <2>3. \A q \in Elements(u) : ~Asks(q.call, "refresh")
    BY <2>2 DEF BringsTabs
  <2>4. ShowsOf(r, S)
    <3>1. ShowsOf(r, S) \/ \E q \in Elements(u) : Asks(q.call, "refresh")
      BY <1>0, <2>1, AnswersShrink DEF QueuesInv
    <3>. QED
      BY <2>3, <3>1
  <2>5. r.call.op = "list" => Tb!Ids(r.answer) = S
    <3>1. \A q \in Elements(u) : q.call.op # "list"
      <4>. SUFFICES ASSUME NEW q \in Elements(u), q.call.op = "list" PROVE FALSE
        OBVIOUS
      <4>1. q \in TabReply /\ ~Asks(q.call, "init")
        BY <1>1, <1>5 DEF Elements
      <4>2. q.call.why \in {"init", "refresh"}
        BY <4>1, CallKinds DEF TabReply
      <4>. QED
        BY <2>3, <4>1, <4>2 DEF Asks
    <3>2. r.call.op = "list" /\ (\A q \in Elements(u) : q.call.op # "list") => Tb!Ids(r.answer) = latest
      BY <1>0, LastListShrinks DEF QueuesInv
    <3>. QED
      BY <2>1, <3>1, <3>2
  <2>6. ~BringsTabs(r) /\ ~overtaken => TabsAre(tabs, tabsActive, S, cs)
    <3>. SUFFICES ASSUME ~BringsTabs(r), ~overtaken PROVE TabsAre(tabs, tabsActive, S, cs)
      OBVIOUS
    <3>1. ~TabsComing(cs, replies)
      BY <1>1, <1>10, <2>2 DEF TabsComing, CallsAdded
    <3>. QED
      BY <1>0, <2>1, <3>1 DEF ViewInv
  <2>. QED
    BY <1>4, <1>10, <2>1, <2>4, <2>5, <2>6 DEF AnswerTells, AnswerShows
<1>11. ViewInv(server, c2, u, broadcasts, tabs', tabsActive', overtaken')
  BY <1>10 DEF ViewInv
<1>. QED
  BY <1>8, <1>9, <1>11 DEF TabsInv

AttachCall(id, why, l) == [op |-> "attach", id |-> id, why |-> why, list |-> l]

\* One of a list's sessions is attached to.
LEMMA ListAttached ==
  ASSUME NEW cs \in Seq(TabCall), NEW l \in TabLists, NEW id \in Tb!Ids(l), NEW why \in {"init", "refresh"}
  PROVE  /\ Append(cs, AttachCall(id, why, l)) \in Seq(TabCall)
         /\ CallsAdded(cs, Append(cs, AttachCall(id, why, l)))
         /\ \A u : TabsComing(Append(cs, AttachCall(id, why, l)), u)
<1>. DEFINE c == AttachCall(id, why, l)
<1>1. id \in Tb!Locals
  BY IdsAreTyped
<1>2. c \in TabCall /\ c.op # "list" /\ Tb!BringsAList(c)
  BY <1>1 DEF AttachCall, TabCall, Tb!BringsAList
<1>. HIDE DEF c
<1>3. Append(cs, c) \in Seq(TabCall) /\ Elements(Append(cs, c)) = Elements(cs) \cup {c}
  BY <1>2, ElementsOfAppend
<1>4. CallsAdded(cs, Append(cs, c)) /\ \A u : TabsComing(Append(cs, c), u)
  BY <1>2, <1>3 DEF CallsAdded, TabsComing
<1>. QED
  BY <1>3, <1>4 DEF c

\* Tabs that are exactly a list.
LEMMA TabsAreTheList ==
  ASSUME NEW l, NEW a, NEW cs, EachOnce(l), l # <<>> => a \in Tb!Ids(l)
  PROVE  TabsAre(l, a, Tb!Ids(l), cs)
  BY DEF TabsAre

\* A list arrives.
LEMMA ListTaken ==
  ASSUME TabsInv, Tb!OnReply, Tb!OnInitList(Head(replies)) \/ Tb!OnRefresh(Head(replies))
  PROVE  TabsInv'
<1>. DEFINE S == Tb!Ids(server)
            cs == tabsCalls
            r == Head(replies)
            u == Tail(replies)
<1>0. /\ TabTypes /\ cs \in Seq(TabCall) /\ replies \in Seq(TabReply)
  BY DEF TabsInv, TabTypes
<1>1. /\ replies # <<>> /\ replies' = u
      /\ UNCHANGED <<server, tabsBorn, broadcasts, ops, latest>>
      /\ OvertakenBy(Head(replies))
  BY DEF Tb!OnReply, Tb!serverVars, OvertakenBy
<1>2. /\ tabs \in Seq(Tb!Session) /\ tabsActive \in Tb!Locals \cup {RemoteTab, None}
      /\ focus \in Tb!Locals \cup {RemoteTab, None}
  BY <1>0, RemoteIsApart
<1>3. r \in TabReply /\ r.call.op = "list"
  BY <1>0, <1>1, ElementsOfTail DEF Tb!OnInitList, Tb!OnRefresh
<1>4. r.answer \in TabLists /\ ~Tb!BringsAList(r.call)
  BY <1>3 DEF TabReply, Tb!BringsAList
<1>t. ASSUME tabsCalls' \in Seq(TabCall), CallsAdded(cs, tabsCalls'),
             tabs' \in Seq(Tb!Session), tabsActive' \in Tb!Locals \cup {RemoteTab, None},
             focus' \in Tb!Locals \cup {RemoteTab, None},
             AnswerTells(r, S, tabs, tabsActive, overtaken, cs) /\ latest = S
               /\ ~overtaken' /\ ~TabsComing(tabsCalls', u) => TabsAre(tabs', tabsActive', S, tabsCalls')
      PROVE  TabsInv'
  <2>1. AnswerShows(r, u)
    BY <1>t DEF AnswerShows
  <2>. QED
    BY <1>1, <1>t, <2>1, AnswerTaken
<1>s. CallsAdded(cs, cs)
  BY DEF CallsAdded
<1>. HIDE DEF r, u
<1>5. ASSUME NEW id \in Tb!Ids(r.answer), NEW why \in {"init", "refresh"}, Tb!AttachFrom(r.answer, id, why)
      PROVE  TabsInv'
  <2>. DEFINE c == AttachCall(id, why, r.answer)
  <2>1. tabsCalls' = Append(cs, c) /\ UNCHANGED <<tabs, tabsActive, focus>>
    BY <1>5 DEF AttachCall, Tb!AttachFrom, Tb!Call, Tb!viewVars
  <2>2. /\ Append(cs, c) \in Seq(TabCall) /\ CallsAdded(cs, Append(cs, c))
        /\ \A q : TabsComing(Append(cs, c), q)
    BY <1>0, <1>4, ListAttached
  <2>. HIDE DEF c
  <2>3. /\ tabsCalls' \in Seq(TabCall) /\ CallsAdded(cs, tabsCalls')
        /\ TabsComing(tabsCalls', u)
    BY <2>1, <2>2
  <2>. QED
    BY <1>2, <1>t, <2>1, <2>3
<1>6. CASE Tb!OnInitList(r)
  <2>1. CASE r.answer = <<>>
    <3>1. UNCHANGED <<tabsCalls, tabs, tabsActive, focus>>
      BY <1>6, <2>1 DEF Tb!OnInitList, Tb!viewVars
    <3>2. ~BringsTabs(r)
      BY <1>4, <1>6, <2>1 DEF BringsTabs, Asks, Tb!OnInitList
    <3>3. AnswerTells(r, S, tabs, tabsActive, overtaken, cs) /\ ~overtaken' =>
            TabsAre(tabs', tabsActive', S, tabsCalls')
      BY <1>1, <3>1, <3>2 DEF AnswerTells, OvertakenBy
    <3>4. tabsCalls' \in Seq(TabCall) /\ CallsAdded(cs, tabsCalls')
      BY <1>0, <1>s, <3>1
    <3>. QED
      BY <1>2, <1>t, <3>1, <3>3, <3>4
  <2>2. CASE r.answer # <<>>
    <3>1. PICK id \in Tb!Ids(r.answer) : Tb!AttachFrom(r.answer, id, "init")
      BY <1>6, <2>2 DEF Tb!OnInitList
    <3>. QED
      BY <1>5, <3>1
  <2>. QED
    BY <2>1, <2>2
<1>7. CASE Tb!OnRefresh(r)
  <2>1. CASE tabsActive \notin Tb!Ids(r.answer) /\ r.answer # <<>>
    <3>. DEFINE new == Tb!Without(r.answer, Tb!Ids(tabs))
    <3>1. r.answer \in Seq(TabSession) /\ r.answer # <<>>
      BY <1>4, <2>1 DEF TabLists
    <3>2. new \in Seq(TabSession) /\ Tb!Ids(new) = Tb!Ids(r.answer) \ Tb!Ids(tabs)
      BY <3>1, WithoutLeaves
    <3>3. Tb!RefreshTarget(r.answer) = IF new # <<>> THEN Head(new).id ELSE Head(r.answer).id
      BY DEF Tb!RefreshTarget
    <3>. HIDE DEF new
    <3>4. \A s \in Seq(TabSession) : s # <<>> => 1 \in DOMAIN s /\ Head(s) = s[1]
      OBVIOUS
    <3>5. \A s \in Seq(TabSession) : s # <<>> => Head(s).id \in Tb!Ids(s)
      BY <3>4 DEF Tb!Ids
    <3>6. Tb!RefreshTarget(r.answer) \in Tb!Ids(r.answer)
      BY <3>1, <3>2, <3>3, <3>5
    <3>7. Tb!AttachFrom(r.answer, Tb!RefreshTarget(r.answer), "refresh")
      BY <1>7, <2>1 DEF Tb!OnRefresh
    <3>. QED
      BY <1>5, <3>6, <3>7
  <2>2. CASE ~(tabsActive \notin Tb!Ids(r.answer) /\ r.answer # <<>>)
    <3>1. tabs' = r.answer /\ UNCHANGED <<tabsCalls, tabsActive, focus>>
      BY <1>7, <2>2 DEF Tb!OnRefresh
    <3>2. AnswerTells(r, S, tabs, tabsActive, overtaken, cs) => TabsAre(tabs', tabsActive', S, tabsCalls')
      <4>1. AnswerTells(r, S, tabs, tabsActive, overtaken, cs) => Tb!Ids(r.answer) = S
        BY <1>3 DEF AnswerTells
      <4>2. EachOnce(r.answer)
        BY <1>4 DEF TabLists
      <4>3. TabsAre(r.answer, tabsActive, Tb!Ids(r.answer), cs)
        BY <2>2, <4>2, TabsAreTheList
      <4>. QED
        BY <3>1, <4>1, <4>3
    <3>3. tabs' \in Seq(Tb!Session)
      BY <1>4, <3>1, IdsAreTyped
    <3>4. tabsCalls' \in Seq(TabCall) /\ CallsAdded(cs, tabsCalls')
      BY <1>0, <1>s, <3>1
    <3>. QED
      BY <1>2, <1>t, <3>1, <3>2, <3>3, <3>4
  <2>. QED
    BY <2>1, <2>2
<1>. QED
  BY <1>6, <1>7 DEF r

\* A session has been attached to, for a list or to show it.
LEMMA AttachTaken ==
  ASSUME TabsInv, Tb!OnReply, Tb!OnAttach(Head(replies)) \/ Tb!OnSwitched(Head(replies))
  PROVE  TabsInv'
<1>. DEFINE S == Tb!Ids(server)
            cs == tabsCalls
            r == Head(replies)
            u == Tail(replies)
<1>0. /\ TabTypes /\ cs \in Seq(TabCall) /\ replies \in Seq(TabReply)
  BY DEF TabsInv, TabTypes
<1>1. /\ replies # <<>> /\ replies' = u
      /\ UNCHANGED <<server, tabsBorn, broadcasts, ops, latest>>
      /\ OvertakenBy(Head(replies))
  BY DEF Tb!OnReply, Tb!serverVars, OvertakenBy
<1>2. /\ tabs \in Seq(Tb!Session) /\ tabsActive \in Tb!Locals \cup {RemoteTab, None}
      /\ focus \in Tb!Locals \cup {RemoteTab, None}
  BY <1>0, RemoteIsApart
<1>3. r \in TabReply /\ r.call \in TabCall /\ r.call.op = "attach" /\ r.ok \in BOOLEAN
  <2>1. r \in TabReply
    BY <1>0, <1>1, ElementsOfTail
  <2>. QED
    BY <2>1 DEF TabReply, Tb!OnAttach, Tb!OnSwitched, Tb!BringsAList
<1>4. r.call.id \in Tb!Locals /\ UNCHANGED tabsCalls
  BY <1>3, CallKinds DEF Tb!OnAttach, Tb!OnSwitched
<1>5. tabsCalls' \in Seq(TabCall) /\ CallsAdded(cs, tabsCalls')
  BY <1>0, <1>4 DEF CallsAdded
<1>t. ASSUME tabsCalls' \in Seq(TabCall), CallsAdded(cs, tabsCalls'),
             tabs' \in Seq(Tb!Session), tabsActive' \in Tb!Locals \cup {RemoteTab, None},
             focus' \in Tb!Locals \cup {RemoteTab, None},
             AnswerTells(r, S, tabs, tabsActive, overtaken, cs) /\ latest = S
               /\ ~overtaken' /\ ~TabsComing(tabsCalls', u) => TabsAre(tabs', tabsActive', S, tabsCalls')
      PROVE  TabsInv'
  <2>1. AnswerShows(r, u)
    BY <1>t DEF AnswerShows
  <2>. QED
    BY <1>1, <1>t, <2>1, AnswerTaken
<1>s. CallsAdded(cs, cs)
  BY DEF CallsAdded
<1>. HIDE DEF r, u
<1>6. CASE Tb!OnAttach(r)
  <2>1. Tb!BringsAList(r.call) /\ r.call.list \in TabLists /\ r.call.id \in Tb!Ids(r.call.list)
    BY <1>3, <1>6, CallKinds DEF Tb!OnAttach
  <2>2. r.call.list \in Seq(TabSession) /\ EachOnce(r.call.list)
    BY <2>1 DEF TabLists
  <2>3. tabs' \in Seq(TabSession) /\ EachOnce(tabs') /\ Tb!Ids(tabs') = Tb!Ids(r.call.list)
    <3>1. CASE r.ok
      <4>1. r.answer \in TabSession /\ tabs' = Tb!Replace(r.call.list, r.answer)
        BY <1>3, <1>6, <3>1 DEF TabReply, Tb!OnAttach
      <4>. QED
        BY <2>2, <4>1, ReplaceKeeps
    <3>2. CASE ~r.ok
      BY <1>6, <2>2, <3>2 DEF Tb!OnAttach
    <3>. QED
      BY <3>1, <3>2
  <2>4. tabs' \in Seq(Tb!Session)
    BY <2>3, IdsAreTyped
  <2>5. Head(r.call.list).id \in Tb!Locals
    <3>1. r.call.list # <<>>
      BY <2>1 DEF Tb!Ids
    <3>2. Head(r.call.list) \in TabSession
      BY <2>2, <3>1
    <3>. QED
      BY <3>2 DEF TabSession
  <2>6. tabsActive' = r.call.id /\ focus' \in Tb!Locals \cup {RemoteTab, None}
    BY <1>2, <1>4, <1>6, <2>5 DEF Tb!OnAttach
  <2>7. latest = S /\ ~overtaken' => TabsAre(tabs', tabsActive', S, tabsCalls')
    <3>1. TabsAre(tabs', tabsActive', Tb!Ids(tabs'), tabsCalls')
      BY <2>1, <2>3, <2>6, TabsAreTheList
    <3>. QED
      BY <1>1, <2>1, <2>3, <3>1 DEF OvertakenBy, r
  <2>. QED
    BY <1>4, <1>5, <1>t, <2>4, <2>6, <2>7
<1>7. CASE Tb!OnSwitched(r)
  <2>1. /\ r.call.why = "switch" /\ tabs' = tabs
        /\ r.ok => tabsActive' = r.call.id /\ focus' = r.call.id
        /\ ~r.ok => tabsActive' = tabsActive /\ focus' = focus
    BY <1>7 DEF Tb!OnSwitched
  <2>2. ~BringsTabs(r)
    BY <1>3, <2>1 DEF BringsTabs, Asks, Tb!BringsAList
  <2>3. ASSUME AnswerTells(r, S, tabs, tabsActive, overtaken, cs), ~overtaken'
        PROVE  TabsAre(tabs', tabsActive', S, tabsCalls')
    <3>1. TabsAre(tabs, tabsActive, S, cs) /\ ~Starting(cs) /\ ShowsOf(r, S)
      BY <1>1, <2>2, <2>3 DEF AnswerTells, OvertakenBy
    <3>2. CASE ~r.ok
      BY <1>4, <2>1, <3>1, <3>2
    <3>3. CASE r.ok
      <4>1. r.answer.id = r.call.id
        BY <1>3, <3>3 DEF TabReply
      <4>2. r.call.id \in S
        BY <1>3, <2>1, <3>1, <3>3, <4>1 DEF ShowsOf
      <4>3. r.call.id \in Tb!Ids(tabs) \/ TabsClosing(cs, r.call.id)
        BY <3>1, <4>2 DEF TabsAre
      <4>. QED
        BY <1>4, <2>1, <3>1, <3>3, <4>2, <4>3 DEF TabsAre
    <3>. QED
      BY <1>3, <3>2, <3>3
  <2>4. tabsActive' \in Tb!Locals \cup {RemoteTab, None} /\ focus' \in Tb!Locals \cup {RemoteTab, None}
    BY <1>2, <1>3, <1>4, <2>1
  <2>. QED
    BY <1>2, <1>5, <1>t, <2>1, <2>3, <2>4
<1>. QED
  BY <1>6, <1>7 DEF r

\* A session was created, closed, split or left by a shell.
LEMMA OtherTaken ==
  ASSUME TabsInv, Tb!OnReply, \/ Tb!OnCreated(Head(replies)) \/ Tb!OnClosed(Head(replies))
         \/ Tb!OnSplit(Head(replies)) \/ Tb!OnPaneClosed(Head(replies))
  PROVE  TabsInv'
<1>. DEFINE S == Tb!Ids(server)
            cs == tabsCalls
            r == Head(replies)
            u == Tail(replies)
<1>0. /\ TabTypes /\ cs \in Seq(TabCall) /\ replies \in Seq(TabReply)
  BY DEF TabsInv, TabTypes
<1>1. /\ replies # <<>> /\ replies' = u
      /\ UNCHANGED <<server, tabsBorn, broadcasts, ops, latest>>
      /\ OvertakenBy(Head(replies))
  BY DEF Tb!OnReply, Tb!serverVars, OvertakenBy
<1>2. /\ tabs \in Seq(Tb!Session) /\ tabsActive \in Tb!Locals \cup {RemoteTab, None}
      /\ focus \in Tb!Locals \cup {RemoteTab, None} /\ RemoteTab \notin S
      /\ Tb!Ids(tabs) \subseteq Tb!Locals \cup {RemoteTab}
  BY <1>0, RemoteIsApart
<1>3. r \in TabReply /\ r.call \in TabCall /\ r.ok \in BOOLEAN
  <2>1. r \in TabReply
    BY <1>0, <1>1, ElementsOfTail
  <2>. QED
    BY <2>1 DEF TabReply
<1>4. ~BringsTabs(r) /\ r.call.op \notin {"list", "attach"}
  BY DEF BringsTabs, Asks, Tb!BringsAList, Tb!OnCreated, Tb!OnClosed, Tb!OnSplit, Tb!OnPaneClosed
<1>t. ASSUME tabsCalls' \in Seq(TabCall), CallsAdded(cs, tabsCalls'),
             tabs' \in Seq(Tb!Session), tabsActive' \in Tb!Locals \cup {RemoteTab, None},
             focus' \in Tb!Locals \cup {RemoteTab, None},
             AnswerTells(r, S, tabs, tabsActive, overtaken, cs) /\ latest = S
               /\ ~overtaken' /\ ~TabsComing(tabsCalls', u) => TabsAre(tabs', tabsActive', S, tabsCalls')
      PROVE  TabsInv'
  <2>1. AnswerShows(r, u)
    BY <1>t DEF AnswerShows
  <2>. QED
    BY <1>1, <1>t, <2>1, AnswerTaken
<1>. HIDE DEF r, u
<1>5. ASSUME NEW X, CallsMade(cs, tabsCalls', u, X),
             tabs' \in Seq(Tb!Session), tabsActive' \in Tb!Locals \cup {RemoteTab, None},
             focus' \in Tb!Locals \cup {RemoteTab, None},
             ShowsOf(r, S) /\ TabsAre(tabs, tabsActive, S, cs) => TabsAre(tabs', tabsActive', S, tabsCalls')
      PROVE  TabsInv'
  <2>1. tabsCalls' \in Seq(TabCall) /\ CallsAdded(cs, tabsCalls')
    BY <1>5 DEF CallsMade, NoLists, CallsAdded
  <2>2. AnswerTells(r, S, tabs, tabsActive, overtaken, cs) /\ ~overtaken' =>
          TabsAre(tabs', tabsActive', S, tabsCalls')
    BY <1>1, <1>4, <1>5 DEF AnswerTells, OvertakenBy
  <2>. QED
    BY <1>5, <1>t, <2>1, <2>2
<1>6. CallsMade(cs, cs, u, {})
  BY <1>0, NoCallMade
\* No tab changes.
<1>7. ASSUME UNCHANGED <<tabs, tabsActive, tabsCalls>>, focus' \in Tb!Locals \cup {RemoteTab, None}
      PROVE  TabsInv'
  BY <1>2, <1>5, <1>6, <1>7
\* The session that the answer tells of is shown anew.
<1>8. ASSUME r.ok, r.call.op \in {"split", "closePane"}, UNCHANGED tabsCalls,
             focus' \in {focus, r.answer.id},
             \/ Tb!SetSession(r.answer)
             \/ tabs' = Tb!Replace(tabs, r.answer) /\ UNCHANGED tabsActive
      PROVE  TabsInv'
  <2>1. r.answer \in TabSession /\ r.answer.id \in Tb!Locals
    BY <1>3, <1>8 DEF TabReply, TabSession
  <2>2. ShowsOf(r, S) => r.answer.id \in S
    BY <1>8 DEF ShowsOf
  <2>3. focus' \in Tb!Locals \cup {RemoteTab, None}
    BY <1>2, <1>8, <2>1
  <2>4. CASE Tb!SetSession(r.answer)
    <3>1. /\ tabs' \in Seq(Tb!Session) /\ tabsActive' \in Tb!Locals \cup {RemoteTab, None}
          /\ Tb!Ids(tabs') = Tb!Ids(tabs) \cup {r.answer.id} /\ (EachOnce(tabs) => EachOnce(tabs'))
          /\ tabsActive' \in Tb!Ids(tabs') \/ (tabsActive' = tabsActive /\ tabs # <<>>)
      BY <1>0, <2>1, <2>4, SessionIsSet
    <3>2. ASSUME ShowsOf(r, S), TabsAre(tabs, tabsActive, S, cs)
          PROVE  TabsAre(tabs', tabsActive', S, cs)
      BY <1>0, <1>2, <2>2, <3>1, <3>2, SetIsKept
    <3>. QED
      BY <1>5, <1>6, <1>8, <2>3, <3>1, <3>2
  <2>5. CASE tabs' = Tb!Replace(tabs, r.answer) /\ UNCHANGED tabsActive
    <3>1. r.answer \in Tb!Session
      BY <2>1, IdsAreTyped
    <3>2. /\ tabs' \in Seq(Tb!Session) /\ Tb!Ids(tabs') = Tb!Ids(tabs)
          /\ EachOnce(tabs) => EachOnce(tabs')
      BY <1>2, <2>5, <3>1, ReplaceKeeps
    <3>3. tabs = <<>> => tabs' = <<>>
      BY <2>5 DEF Tb!Replace
    <3>4. ASSUME TabsAre(tabs, tabsActive, S, cs)
          PROVE  TabsAre(tabs', tabsActive, S, cs)
      <4>1. EachOnce(tabs') /\ Tb!Ids(tabs') \ {RemoteTab} \subseteq S
        BY <3>2, <3>4 DEF TabsAre
      <4>. QED
        BY <3>2, <3>3, <3>4, <4>1 DEF TabsAre
    <3>. QED
      BY <1>2, <1>5, <1>6, <1>8, <2>3, <2>5, <3>2, <3>4
  <2>. QED
    BY <1>8, <2>4, <2>5
<1>9. CASE Tb!OnCreated(r)
  <2>1. CASE ~r.ok
    BY <1>2, <1>7, <1>9, <2>1 DEF Tb!OnCreated, Tb!viewVars
  <2>2. CASE r.ok
    <3>1. r.call.op = "create" /\ Tb!AddSession(r.answer)
      BY <1>9, <2>2 DEF Tb!OnCreated
    <3>2. r.answer \in TabSession /\ r.answer.id \in Tb!Locals /\ r.answer \in Tb!Session
      BY <1>3, <2>2, <3>1, IdsAreTyped DEF TabReply, TabSession
    <3>3. tabs' = Append(tabs, r.answer) /\ tabsActive' = r.answer.id
      BY <3>1 DEF Tb!AddSession
    <3>4. tabs' \in Seq(Tb!Session)
      BY <1>2, <3>2, <3>3
    <3>5. ~ShowsOf(r, S)
      BY <2>2, <3>1 DEF ShowsOf
    <3>6. focus' \in Tb!Locals \cup {RemoteTab, None}
      BY <1>2, <1>9, <2>2, <3>2 DEF Tb!OnCreated
    <3>7. \E X : CallsMade(cs, tabsCalls', u, X)
      <4>. DEFINE c == [op |-> "split", id |-> r.answer.id, why |-> "layout"]
      <4>1. c \in TabCall /\ NoLists({c})
        BY <3>2, CallsOfTabs
      <4>2. tabsCalls' = cs \/ tabsCalls' = Append(cs, c)
        BY <1>9, <2>2 DEF Tb!OnCreated, Tb!Call
      <4>. HIDE DEF c
      <4>. QED
        BY <1>0, <1>6, <4>1, <4>2, OneCallMade
    <3>. QED
      BY <1>5, <3>2, <3>3, <3>4, <3>5, <3>6, <3>7
  <2>. QED
    BY <1>3, <2>1, <2>2
<1>10. CASE Tb!OnClosed(r)
  <2>1. /\ r.call.op = "close" /\ UNCHANGED <<tabs, tabsActive, tabsCalls>>
        /\ focus' = focus \/ (r.ok /\ r.answer # None /\ focus' = r.answer)
    BY <1>10 DEF Tb!OnClosed
  <2>2. r.ok => r.answer \in Tb!Locals \cup {None}
    BY <1>3, <2>1 DEF TabReply
  <2>. QED
    BY <1>2, <1>7, <2>1, <2>2
<1>11. CASE Tb!OnSplit(r)
  <2>1. r.call.op = "split" /\ UNCHANGED tabsCalls
    BY <1>11 DEF Tb!OnSplit
  <2>2. CASE ~r.ok
    BY <1>2, <1>7, <1>11, <2>1, <2>2 DEF Tb!OnSplit
  <2>3. CASE r.ok
    BY <1>8, <1>11, <2>1, <2>3 DEF Tb!OnSplit
  <2>. QED
    BY <1>3, <2>2, <2>3
<1>12. CASE Tb!OnPaneClosed(r)
  <2>1. r.call.op = "closePane"
    BY <1>12 DEF Tb!OnPaneClosed
  <2>2. CASE r.ok
    BY <1>8, <1>12, <2>1, <2>2 DEF Tb!OnPaneClosed
  <2>3. CASE ~r.ok /\ r.call.why = "exit" /\ r.call.id \in Tb!Ids(tabs)
    <3>. DEFINE c == Tb!CloseCall(r.call.id, FALSE)
    <3>1. Tb!RemoveSessions({r.call.id}) /\ tabsCalls' = Append(cs, c) /\ focus' = focus
      BY <1>12, <2>3 DEF Tb!OnPaneClosed, Tb!Call
    <3>2. c \in TabCall /\ NoLists({c}) /\ c.op = "close" /\ c.id = r.call.id
      <4>1. r.call.id \in Tb!Locals
        BY <1>3, <2>1, CallKinds
      <4>. QED
        BY <4>1, CallsOfTabs DEF Tb!CloseCall
    <3>. HIDE DEF c
    <3>3. CallsMade(cs, tabsCalls', u, {c}) /\ CallsMade(cs, tabsCalls', replies, {c})
      BY <1>0, <3>1, <3>2, OneCallMade
    <3>4. /\ tabs' \in Seq(Tb!Session) /\ tabsActive' \in Tb!Locals \cup {RemoteTab, None}
          /\ TabsAre(tabs, tabsActive, S, cs) => TabsAre(tabs', tabsActive', S, tabsCalls')
      BY <1>0, <2>3, <3>1, <3>2, <3>3, RemovedAre
    <3>. QED
      BY <1>2, <1>5, <3>1, <3>3, <3>4
  <2>4. CASE ~r.ok /\ ~(r.call.why = "exit" /\ r.call.id \in Tb!Ids(tabs))
    BY <1>2, <1>7, <1>12, <2>4 DEF Tb!OnPaneClosed, Tb!viewVars
  <2>. QED
    BY <1>3, <2>2, <2>3, <2>4
<1>. QED
  BY <1>9, <1>10, <1>11, <1>12 DEF r

\* Every step of the tab bar keeps its invariant.
LEMMA TabsStep ==
  ASSUME TabsInv, TabsNext
  PROVE  TabsInv'
<1>1. CASE UNCHANGED tbVars
  BY <1>1 DEF tbVars, TabsInv, TabTypes, Tb!TypeOK
<1>2. CASE Tb!OnReply
  <2>. DEFINE r == Head(replies)
  <2>1. \/ Tb!OnInitList(r) \/ Tb!OnRefresh(r) \/ Tb!OnAttach(r) \/ Tb!OnSwitched(r)
        \/ Tb!OnCreated(r) \/ Tb!OnClosed(r) \/ Tb!OnSplit(r) \/ Tb!OnPaneClosed(r)
    BY <1>2 DEF Tb!OnReply
  <2>. QED
    BY <1>2, <2>1, ListTaken, AttachTaken, OtherTaken
<1>. QED
  BY <1>1, <1>2, UserStep, ServeStep, PhoneStep, BroadcastStep DEF TabsNext, Tb!Next

\* It holds when the window opens, with whatever sessions the server has.
LEMMA TabsBegin ==
  ASSUME Tb!Init
  PROVE  TabsInv
<1>1. PICK n \in 0 .. 2 : tabsBorn = n /\ server = [i \in 1 .. n |-> [id |-> i, panes |-> 1]]
  BY DEF Tb!Init
<1>2. /\ tabsCalls = <<[op |-> "list", why |-> "init"]>> /\ replies = <<>> /\ broadcasts = <<>>
      /\ tabs = <<>> /\ tabsActive = None /\ focus = None
      /\ ops = 0 /\ latest = {} /\ overtaken = FALSE
  BY DEF Tb!Init
<1>3. n \in 0 .. MaxSessions
  BY TabAssumption
<1>4. \A i \in 1 .. n : [id |-> i, panes |-> 1] \in TabSession
  BY <1>3, TabAssumption DEF TabSession, Tb!Locals
<1>5. server \in Seq(TabSession) /\ DOMAIN server = 1 .. n /\ \A i \in 1 .. n : server[i].id = i
  BY <1>1, <1>4
<1>6. server \in TabLists /\ \A id \in Tb!Ids(server) : id <= tabsBorn
  BY <1>1, <1>5 DEF TabLists, EachOnce, Tb!Ids
<1>7. [op |-> "list", why |-> "init"] \in TabCall /\ Asks([op |-> "list", why |-> "init"], "init")
  BY DEF TabCall, Asks
<1>8. tabsCalls \in Seq(TabCall) /\ DOMAIN tabsCalls = {1} /\ Asks(tabsCalls[1], "init")
  BY <1>2, <1>7
<1>9. TabTypes
  <2>1. server \in Seq(Tb!Session)
    BY <1>6, IdsAreTyped
  <2>2. replies \in Seq(TabReply) /\ broadcasts \in Seq(TabNews) /\ tabs \in Seq(Tb!Session)
    BY <1>2
  <2>3. ops \in 0 .. MaxOps /\ overtaken \in BOOLEAN
    <3>1. ops \in 0 .. MaxOps
      BY <1>2, TabAssumption
    <3>2. overtaken \in BOOLEAN
      BY <1>2
    <3>. QED
      BY <3>1, <3>2
  <2>4. Tb!TypeOK
    BY <1>1, <1>2, <1>3, <2>1, <2>2, <2>3 DEF Tb!TypeOK
  <2>. QED
    BY <1>1, <1>3, <1>6, <1>8, <2>2, <2>4 DEF TabTypes
<1>10. Starting(tabsCalls)
  BY <1>8 DEF Starting, Elements
<1>11. QueuesInv(server, tabsCalls, replies, broadcasts, latest)
  <2>1. DOMAIN replies = {} /\ DOMAIN broadcasts = {}
    BY <1>2
  <2>. QED
    BY <1>2, <1>8, <1>10, <2>1 DEF QueuesInv, FirstAsks, FirstAnswers, NewsBacked, AnswersBacked, LastListIs
<1>12. ViewInv(server, tabsCalls, replies, broadcasts, tabs, tabsActive, overtaken)
  BY <1>2, <1>10 DEF ViewInv, TabsAre, EachOnce, Tb!Ids
<1>. QED
  BY <1>9, <1>11, <1>12 DEF TabsInv

\* So the tabs follow the server.
LEMMA TabsFollow ==
  ASSUME TabsInv
  PROVE  Tb!CatchUpUnlessOvertaken /\ Tb!ATabIsShown
<1>. SUFFICES ASSUME Tb!Settled, ~overtaken
              PROVE  Tb!ShowsServer /\ (tabs # <<>> => tabsActive \in Tb!Ids(tabs))
  BY DEF Tb!CatchUpUnlessOvertaken, Tb!ATabIsShown
<1>. DEFINE S == Tb!Ids(server)
            m == Tb!Without(tabs, {RemoteTab})
<1>1. /\ TabTypes /\ ViewInv(server, tabsCalls, replies, broadcasts, tabs, tabsActive, overtaken)
      /\ tabsCalls = <<>> /\ replies = <<>> /\ broadcasts = <<>>
  BY DEF TabsInv, Tb!Settled
<1>2. Elements(<<>>) = {}
  BY DEF Elements
<1>3. TabsAre(tabs, tabsActive, S, tabsCalls)
  BY <1>1, <1>2 DEF ViewInv, TabsQuiet, TabsComing
<1>4. ~Starting(tabsCalls) /\ \A id : ~TabsClosing(tabsCalls, id)
  BY <1>1, <1>2 DEF Starting, TabsClosing
<1>5. /\ tabs \in Seq(Tb!Session) /\ RemoteTab \notin S /\ server \in Seq(TabSession) /\ EachOnce(server)
  BY <1>1, RemoteIsApart
<1>6. m \in Seq(Tb!Session) /\ Tb!Ids(m) = Tb!Ids(tabs) \ {RemoteTab} /\ (EachOnce(tabs) => EachOnce(m))
  BY <1>5, WithoutLeaves
<1>7. Tb!LocalTabs = m
  BY DEF Tb!LocalTabs
<1>. HIDE DEF m
<1>8. EachOnce(m) /\ Tb!Ids(m) = S
  BY <1>3, <1>4, <1>5, <1>6 DEF TabsAre
<1>9. server \in Seq(Tb!Session)
  BY <1>1 DEF TabTypes, Tb!TypeOK
<1>10. Len(m) = Len(server)
  BY <1>5, <1>6, <1>8, <1>9, AsLong
<1>. QED
  BY <1>3, <1>4, <1>7, <1>8, <1>10 DEF TabsAre, Tb!ShowsServer

-----------------------------------------------------------------------------
\* While the tab bar runs its invariant holds.
TabsGo == part = "tabs" => TabsInv

\* Once all calls are answered the tabs are the server's sessions and one of them is
\* shown, in every reachable state (useIpcSetup.ts, sessionStore.ts).
THEOREM TabsCatchUp == Spec => []TabsFollowTheServer
<1>1. Init => TabsGo
  BY TabsBegin DEF Init, TabsGo
<1>2. TabsGo /\ [Next]_vars => TabsGo'
  BY PartsStep, TabsStep DEF TabsGo
<1>3. TabsGo => TabsFollowTheServer
  BY TabsFollow DEF TabsGo, TabsFollowTheServer
<1>. QED
  BY <1>1, <1>2, <1>3, PTL DEF Spec

-----------------------------------------------------------------------------
\* What runs here of Typing is what its theorems are about (Typing_proofs).
THEOREM TypingRuns == Spec => TypingSpec
<1>1. Init => TypingInit
  BY DEF Init
<1>2. [Next]_vars => [TypingNext]_typingVars
  BY DEF Next, vars, typingVars
<1>. QED
  BY <1>1, <1>2, PTL DEF Spec, TypingSpec
=============================================================================
