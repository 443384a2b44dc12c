------------------------------ MODULE LogPanels ------------------------------
(***************************************************************************)
(* One panel of the AI logs, in src/components/Sidebar: that of a provider *)
(* (ClaudeLogPanel, CodexLogPanel, GeminiLogPanel, OpenCodeLogPanel) or    *)
(* the one of them all (AiLogPanel/AllLogPanel). It lists the sessions the *)
(* backend finds on the disk and opens the messages of one beside itself.  *)
(* The panels run alike; what they differ in is a record.                  *)
(***************************************************************************)
EXTENDS Naturals, Sequences, FiniteSets, SequencesExt

CONSTANTS
  LogSession, None,
  LogCacheSize,                       \* 32 in the code
  MaxLogClicks, MaxLogLoads           \* bounds

VARIABLES
  kind,               \* the panel
  place,              \* where a session ran, seen from the terminal's folder
  entries, loading, loadError, viewMode, cwdFilter, filter, openGroups,
  tooltip, tooltipMessages, tooltipLoading, showMore,
  sessionCache,       \* of the module: it outlives the panel; oldest first
  loads, reads,       \* requests under way
  overtaken,          \* another session was being read when this one was opened
  logClicks, logLoads

listVars == <<entries, loading, loadError, loads, logLoads>>
lookVars == <<viewMode, cwdFilter, filter, openGroups>>
detailVars == <<tooltip, tooltipMessages, tooltipLoading, showMore, sessionCache, reads, overtaken>>
logWorld == <<kind, place>>
vars == <<listVars, lookVars, detailVars, logWorld, logClicks>>

(* around: a folder above or below; namesake: another one of that name;       *)
(* unknown: not recorded, which on Unix is above all.                         *)
Place == {"same", "around", "namesake", "unknown", "elsewhere"}

Claude == [lists |-> {"same", "around", "unknown"}, bounded |-> FALSE, onFocus |-> TRUE, filters |-> TRUE]
Codex == [lists |-> {"same", "around", "unknown"}, bounded |-> FALSE, onFocus |-> FALSE, filters |-> FALSE]
Gemini == [lists |-> {"same", "namesake"}, bounded |-> TRUE, onFocus |-> FALSE, filters |-> FALSE]
OpenCode == [lists |-> {"same", "around", "unknown"}, bounded |-> TRUE, onFocus |-> FALSE, filters |-> FALSE]
All == [lists |-> {"same"}, bounded |-> TRUE, onFocus |-> TRUE, filters |-> FALSE]
Kinds == {Claude, Codex, Gemini, OpenCode, All}

MaybeSession == LogSession \cup {None}

TypeOK ==
  /\ kind \in Kinds /\ place \in [LogSession -> Place]
  /\ {loading, loadError, cwdFilter, tooltipLoading, showMore, overtaken} \subseteq BOOLEAN
  /\ entries \subseteq LogSession /\ openGroups \subseteq Place
  /\ viewMode \in {"flat", "grouped"} /\ {filter, tooltip, tooltipMessages} \subseteq MaybeSession
  /\ sessionCache \in Seq(LogSession) /\ IsInjective(sessionCache)
  /\ kind.bounded => Len(sessionCache) <= LogCacheSize
  /\ loads \in 0..(MaxLogLoads + 1) /\ reads \subseteq [key : LogSession, live : BOOLEAN]
  /\ logClicks \in 0..MaxLogClicks /\ logLoads \in 0..MaxLogLoads

Init ==
  /\ kind \in Kinds /\ place \in [LogSession -> Place]
  /\ entries = {} /\ loading = TRUE /\ loadError = FALSE
  /\ viewMode = "flat" /\ cwdFilter = TRUE /\ filter = None /\ openGroups = {}
  /\ tooltip = None /\ tooltipMessages = None /\ tooltipLoading = FALSE /\ showMore = FALSE
  /\ sessionCache = <<>> /\ loads = 1 /\ reads = {} /\ overtaken = FALSE
  /\ logClicks = 0 /\ logLoads = 0

-----------------------------------------------------------------------------
(* loadHistory: the refresh button waits for the load under way, a focus of   *)
(* the window does not.                                                       *)
LoadHistory ==
  /\ ~loading \/ kind.onFocus
  /\ logLoads < MaxLogLoads /\ logLoads' = logLoads + 1
  /\ loading' = TRUE /\ loadError' = FALSE /\ loads' = loads + 1
  /\ UNCHANGED <<entries, lookVars, detailVars, logWorld, logClicks>>

(* A history grows: what is read has what was read before.                    *)
Loaded(data) ==
  /\ loads > 0 /\ loads' = loads - 1
  /\ entries' = data /\ loading' = FALSE
  /\ UNCHANGED <<loadError, logLoads, lookVars, detailVars, logWorld, logClicks>>

LoadFailed ==
  /\ loads > 0 /\ loads' = loads - 1
  /\ entries' = {} /\ loading' = FALSE
  /\ loadError' = (kind # All)        \* allSettled never rejects
  /\ UNCHANGED <<logLoads, lookVars, detailVars, logWorld, logClicks>>

(* filteredEntries, the groups, and the rows one can click.                   *)
Filtered ==
  {k \in entries : /\ cwdFilter => place[k] \in kind.lists
                   /\ filter \in {None, k}}
Rows ==
  IF loading \/ loadError THEN {}
  ELSE {k \in Filtered : viewMode = "flat" \/ place[k] \in openGroups}

ToggleCwdFilter ==
  cwdFilter' = ~cwdFilter /\ UNCHANGED <<viewMode, filter, openGroups>>

ToggleViewMode ==
  /\ viewMode' = IF viewMode = "flat" THEN "grouped" ELSE "flat"
  /\ openGroups' = {} /\ UNCHANGED <<cwdFilter, filter>>

ToggleGroup(g) ==
  /\ viewMode = "grouped" /\ ~loading /\ ~loadError
  /\ \E k \in Filtered : place[k] = g
  /\ openGroups' = SymDiff(openGroups, {g})
  /\ UNCHANGED <<viewMode, cwdFilter, filter>>

(* The badge of a row shows that session only, or all again.                  *)
ToggleFilter(k) ==
  /\ kind.filters /\ k \in Rows \cup {filter}
  /\ filter' = IF filter = k THEN None ELSE k
  /\ UNCHANGED <<viewMode, cwdFilter, openGroups>>

Look ==
  /\ logClicks < MaxLogClicks /\ logClicks' = logClicks + 1
  /\ \/ ToggleCwdFilter \/ ToggleViewMode
     \/ \E g \in Place : ToggleGroup(g)
     \/ \E k \in LogSession : ToggleFilter(k)
  /\ UNCHANGED <<listVars, detailVars, logWorld>>

-----------------------------------------------------------------------------
(* setTooltipMessages when a row is opened.                                   *)
OpenedKeepsShown(k) == IF k \in ToSet(sessionCache) THEN tooltipMessages ELSE None
Opened(k) == IF k \in ToSet(sessionCache) THEN k ELSE None

CloseDetail ==
  /\ tooltip' = None /\ tooltipMessages' = None /\ tooltipLoading' = FALSE /\ showMore' = FALSE
  /\ UNCHANGED <<sessionCache, reads, overtaken>>

OpenDetail(k) ==
  /\ tooltip' = k /\ tooltipMessages' = Opened(k)
  /\ tooltipLoading' = (k \notin ToSet(sessionCache))
  /\ reads' = IF tooltipLoading' THEN reads \cup {[key |-> k, live |-> TRUE]} ELSE reads
  /\ overtaken' = \E r \in reads : r.live /\ r.key # k
  /\ UNCHANGED <<sessionCache, showMore>>

HandleRowClick(k) ==
  /\ k \in Rows
  /\ logClicks < MaxLogClicks /\ logClicks' = logClicks + 1
  /\ IF tooltip = k THEN CloseDetail ELSE OpenDetail(k)
  /\ UNCHANGED <<listVars, lookVars, logWorld>>

(* The cross, or a click elsewhere.                                           *)
HandleDetailClose ==
  /\ tooltip # None /\ CloseDetail
  /\ UNCHANGED <<listVars, lookVars, logWorld, logClicks>>

ShowMore ==
  /\ tooltipMessages # None /\ ~tooltipLoading /\ ~showMore /\ showMore' = TRUE
  /\ UNCHANGED <<tooltip, tooltipMessages, tooltipLoading, sessionCache, reads, overtaken>>
  /\ UNCHANGED <<listVars, lookVars, logWorld, logClicks>>

RememberAll(k) == IF k \in ToSet(sessionCache) THEN sessionCache ELSE Append(sessionCache, k)

(* Claude's and Codex's caches drop nothing, the others their oldest session. *)
Remember(k) ==
  LET put == IF k \in ToSet(sessionCache) THEN sessionCache ELSE Append(sessionCache, k)
  IN IF kind.bounded /\ Len(put) > LogCacheSize THEN Tail(put) ELSE put

ReadDone(r, ok) ==
  /\ r \in reads /\ reads' = reads \ {r}
  /\ sessionCache' = IF ok THEN Remember(r.key) ELSE sessionCache
  /\ IF r.live
     THEN tooltipMessages' = (IF ok THEN r.key ELSE None) /\ tooltipLoading' = FALSE
     ELSE UNCHANGED <<tooltipMessages, tooltipLoading>>
  /\ UNCHANGED <<tooltip, showMore, overtaken, listVars, lookVars, logWorld, logClicks>>

(* The panel goes, with its provider or for another one, and comes back.      *)
Remount ==
  /\ logLoads < MaxLogLoads /\ logLoads' = logLoads + 1
  /\ entries' = {} /\ loading' = TRUE /\ loadError' = FALSE /\ loads' = 1
  /\ viewMode' = "flat" /\ cwdFilter' = TRUE /\ filter' = None /\ openGroups' = {}
  /\ tooltip' = None /\ tooltipMessages' = None /\ tooltipLoading' = FALSE /\ showMore' = FALSE
  /\ reads' = {[r EXCEPT !.live = FALSE] : r \in reads} /\ overtaken' = FALSE
  /\ UNCHANGED <<sessionCache, logWorld, logClicks>>

Next ==
  \/ LoadHistory \/ LoadFailed \/ Look \/ HandleDetailClose \/ ShowMore \/ Remount
  \/ \E data \in SUBSET LogSession : entries \subseteq data /\ Loaded(data)
  \/ \E k \in LogSession : HandleRowClick(k)
  \/ \E r \in reads, ok \in BOOLEAN : ReadDone(r, ok)

Spec == Init /\ [][Next]_vars

-----------------------------------------------------------------------------
(* The messages under a session's title are its own, whatever was closed,     *)
(* filtered away, forgotten by the cache or read again; unless another one    *)
(* was still being read when it was opened.                                   *)
MessagesOfTheTitle ==
  tooltip # None /\ tooltipMessages # None /\ ~overtaken => tooltipMessages = tooltip
=============================================================================
