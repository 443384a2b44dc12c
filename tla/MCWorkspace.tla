---------------------------- MODULE MCWorkspace ----------------------------
(***************************************************************************)
(* The side panels about files and Git, side by side: the Git panel and    *)
(* its dialogs, worktrees, diffs, merges, the commit graph and log, the    *)
(* file tree, the editor's tabs and the search.  As in MCTerminal each     *)
(* behaviour runs one of them.  After the properties come the theorems:    *)
(* the Git panel's lists only move forward, its actions end with what the  *)
(* user was told, the tree, the tabs and the search stay current, the      *)
(* history is drawn as it is, and no dialog loses the user's work.         *)
(***************************************************************************)
EXTENDS Integers, Sequences, FiniteSetTheorems, TLAPS

CONSTANTS
  Cwds, NoCwd, MaxRefresh, MaxVersion, MaxRuns, MaxCommands, Worktree, None,
  MaxActs, Hunks, MaxOps, Repo, NoRepo, PullFile, MaxConflicts, Dir, NoDir,
  MaxMoves, Conflict, MaxRenders, MaxPolls, Text, MaxSegments, GraphSize,
  GraphColors, MaxParents, ClDir, ClRow, NoCommit, MaxClActs, MaxClMoves,
  ExDir, MaxEdits, MaxExActs, File, MaxTexts, MaxGestures, MaxSearches,
  MaxBatches, MaxInputs

VARIABLES
  part,   \* the component that runs; the others are idle
  version, panelCwd, refreshGen, gitCache, noRepoCache,
  shown, gitError, reading, acting,   \* GitView
  isOpen, outputMode, status, onClose, channel, runs,
  isGenerating, isAutoCommitting,   \* GitOutput
  folders, branches, worktreesTabs, isAddModalOpen,
  isAddingRef, isAdding, adds, actionModal, resetMode,
  confirmHard, isProcessing, running, asked, unasked,
  confirmingRemove, removing, acts,   \* Worktrees
  work, diff, refetching, isLoading, error,
  discardedPatches, ops, clicks, queue, saving, discardDisk,
  loading, intact,   \* DiffDiscard
  formPulls, pullError, conflict, resolved, processing,
  fixing, retries, pullActions, conflicts, retried, crossed,   \* PullConflict
  formDir, isPushing, isCreatingPr, isGeneratingPr,
  showPrForm, prBase, prTitle, prResult, prTasks, creating,
  retargeted, moved, moves, pushes,   \* PullRequest
  fileOpen, dropped, blocks, blocksRead, mergeLoading,
  mergeError, toolMenu, waitingTool, polls, writeDue,
  writing, accepting, isStaged, editorShown, tabCloses,
  renders, pollCount,   \* MergeEditor
  segments, cut, line, parserMode, textBuf, currentLines,
  incomingLines, parsed,   \* ConflictParser
  ggParents, ggLanes, ggHues, ggNext, ggRows,   \* GitGraph
  clCwd, clLog, clLoads, clSelected, clHover, clTips,
  clRefs, clMenu, clPrompt, clCompare, clDialog, clRuns,
  clActs, clMoves,   \* CommitLog
  exPaneCwd, exPinned, exDisk, exCache, exShown, exCurrent,
  exDue, exRefreshed, exTimer, exListings, exOpen,
  exChildren, exRowListings, exFocusRow, exMenu, exInput,
  exTrash, exDrag, exOps, exEvents, exAsked, exEdits, exActs,   \* Explorer
  inPanel, editorTabs, activeIndex, menu, autoSaveTimer,
  editorDisk, reads, writes, crashed, texts, gestures,   \* EditorTabs
  query, cwd, searchRoot, caseSensitive, searchTimer,
  currentChannel, found, isSearching, firstBatch, searches,
  selectedIndex, inputs   \* FileSearch

Gv == INSTANCE GitView
Go == INSTANCE GitOutput WITH
  mode <- outputMode
Wt == INSTANCE Worktrees WITH
  tabs <- worktreesTabs
Dd == INSTANCE DiffDiscard WITH
  disk <- discardDisk
Pc == INSTANCE PullConflict
Pq == INSTANCE PullRequest
Me == INSTANCE MergeEditor
Cp == INSTANCE ConflictParser WITH
  mode <- parserMode
Gg == INSTANCE GitGraph
Cl == INSTANCE CommitLog
Ex == INSTANCE Explorer
Ed == INSTANCE EditorTabs WITH
  tabs <- editorTabs, disk <- editorDisk
Fs == INSTANCE FileSearch

Parts == {"git", "output", "worktrees", "discard", "pull", "request",
          "merge", "parser", "graph", "log", "tree", "editor", "search"}
Idle == "idle"

Init ==
  /\ part \in Parts
  /\ IF part = "git"
       THEN Gv!Init
       ELSE /\ version = Idle /\ panelCwd = Idle /\ refreshGen = Idle
            /\ gitCache = Idle /\ noRepoCache = Idle /\ shown = Idle
            /\ gitError = Idle /\ reading = Idle /\ acting = Idle
  /\ IF part = "output"
       THEN Go!Init
       ELSE /\ isOpen = Idle /\ outputMode = Idle /\ status = Idle
            /\ onClose = Idle /\ channel = Idle /\ runs = Idle
            /\ isGenerating = Idle /\ isAutoCommitting = Idle
  /\ IF part = "worktrees"
       THEN Wt!Init
       ELSE /\ folders = Idle /\ branches = Idle /\ worktreesTabs = Idle
            /\ isAddModalOpen = Idle /\ isAddingRef = Idle /\ isAdding = Idle
            /\ adds = Idle /\ actionModal = Idle /\ resetMode = Idle
            /\ confirmHard = Idle /\ isProcessing = Idle /\ running = Idle
            /\ asked = Idle /\ unasked = Idle /\ confirmingRemove = Idle
            /\ removing = Idle /\ acts = Idle
  /\ IF part = "discard"
       THEN Dd!Init
       ELSE /\ work = Idle /\ diff = Idle /\ refetching = Idle
            /\ isLoading = Idle /\ error = Idle /\ discardedPatches = Idle
            /\ ops = Idle /\ clicks = Idle /\ queue = Idle /\ saving = Idle
            /\ discardDisk = Idle /\ loading = Idle /\ intact = Idle
  /\ IF part = "pull"
       THEN Pc!Init
       ELSE /\ formPulls = Idle /\ pullError = Idle /\ conflict = Idle
            /\ resolved = Idle /\ processing = Idle /\ fixing = Idle
            /\ retries = Idle /\ pullActions = Idle /\ conflicts = Idle
            /\ retried = Idle /\ crossed = Idle
  /\ IF part = "request"
       THEN Pq!Init
       ELSE /\ formDir = Idle /\ isPushing = Idle /\ isCreatingPr = Idle
            /\ isGeneratingPr = Idle /\ showPrForm = Idle /\ prBase = Idle
            /\ prTitle = Idle /\ prResult = Idle /\ prTasks = Idle
            /\ creating = Idle /\ retargeted = Idle /\ moved = Idle
            /\ moves = Idle /\ pushes = Idle
  /\ IF part = "merge"
       THEN Me!Init
       ELSE /\ fileOpen = Idle /\ dropped = Idle /\ blocks = Idle
            /\ blocksRead = Idle /\ mergeLoading = Idle /\ mergeError = Idle
            /\ toolMenu = Idle /\ waitingTool = Idle /\ polls = Idle
            /\ writeDue = Idle /\ writing = Idle /\ accepting = Idle
            /\ isStaged = Idle /\ editorShown = Idle /\ tabCloses = Idle
            /\ renders = Idle /\ pollCount = Idle
  /\ IF part = "parser"
       THEN Cp!Init
       ELSE /\ segments = Idle /\ cut = Idle /\ line = Idle
            /\ parserMode = Idle /\ textBuf = Idle /\ currentLines = Idle
            /\ incomingLines = Idle /\ parsed = Idle
  /\ IF part = "graph"
       THEN Gg!GgInit
       ELSE /\ ggParents = Idle /\ ggLanes = Idle /\ ggHues = Idle
            /\ ggNext = Idle /\ ggRows = Idle
  /\ IF part = "log"
       THEN Cl!ClInit
       ELSE /\ clCwd = Idle /\ clLog = Idle /\ clLoads = Idle
            /\ clSelected = Idle /\ clHover = Idle /\ clTips = Idle
            /\ clRefs = Idle /\ clMenu = Idle /\ clPrompt = Idle
            /\ clCompare = Idle /\ clDialog = Idle /\ clRuns = Idle
            /\ clActs = Idle /\ clMoves = Idle
  /\ IF part = "tree"
       THEN Ex!ExInit
       ELSE /\ exPaneCwd = Idle /\ exPinned = Idle /\ exDisk = Idle
            /\ exCache = Idle /\ exShown = Idle /\ exCurrent = Idle
            /\ exDue = Idle /\ exRefreshed = Idle /\ exTimer = Idle
            /\ exListings = Idle /\ exOpen = Idle /\ exChildren = Idle
            /\ exRowListings = Idle /\ exFocusRow = Idle /\ exMenu = Idle
            /\ exInput = Idle /\ exTrash = Idle /\ exDrag = Idle
            /\ exOps = Idle /\ exEvents = Idle /\ exAsked = Idle
            /\ exEdits = Idle /\ exActs = Idle
  /\ IF part = "editor"
       THEN Ed!Init
       ELSE /\ inPanel = Idle /\ editorTabs = Idle /\ activeIndex = Idle
            /\ menu = Idle /\ autoSaveTimer = Idle /\ editorDisk = Idle
            /\ reads = Idle /\ writes = Idle /\ crashed = Idle /\ texts = Idle
            /\ gestures = Idle
  /\ IF part = "search"
       THEN Fs!Init
       ELSE /\ query = Idle /\ cwd = Idle /\ searchRoot = Idle
            /\ caseSensitive = Idle /\ searchTimer = Idle
            /\ currentChannel = Idle /\ found = Idle /\ isSearching = Idle
            /\ firstBatch = Idle /\ searches = Idle /\ selectedIndex = Idle
            /\ inputs = Idle

gvVars == <<version, panelCwd, refreshGen, gitCache, noRepoCache, shown,
            gitError, reading, acting>>
goVars == <<isOpen, outputMode, status, onClose, channel, runs,
            isGenerating, isAutoCommitting>>
wtVars == <<folders, branches, worktreesTabs, isAddModalOpen, isAddingRef,
            isAdding, adds, actionModal, resetMode, confirmHard,
            isProcessing, running, asked, unasked, confirmingRemove,
            removing, acts>>
ddVars == <<work, diff, refetching, isLoading, error, discardedPatches, ops,
            clicks, queue, saving, discardDisk, loading, intact>>
pcVars == <<formPulls, pullError, conflict, resolved, processing, fixing,
            retries, pullActions, conflicts, retried, crossed>>
pqVars == <<formDir, isPushing, isCreatingPr, isGeneratingPr, showPrForm,
            prBase, prTitle, prResult, prTasks, creating, retargeted, moved,
            moves, pushes>>
meVars == <<fileOpen, dropped, blocks, blocksRead, mergeLoading, mergeError,
            toolMenu, waitingTool, polls, writeDue, writing, accepting,
            isStaged, editorShown, tabCloses, renders, pollCount>>
cpVars == <<segments, cut, line, parserMode, textBuf, currentLines,
            incomingLines, parsed>>
ggVars == <<ggParents, ggLanes, ggHues, ggNext, ggRows>>
clVars == <<clCwd, clLog, clLoads, clSelected, clHover, clTips, clRefs,
            clMenu, clPrompt, clCompare, clDialog, clRuns, clActs, clMoves>>
exVars == <<exPaneCwd, exPinned, exDisk, exCache, exShown, exCurrent, exDue,
            exRefreshed, exTimer, exListings, exOpen, exChildren,
            exRowListings, exFocusRow, exMenu, exInput, exTrash, exDrag,
            exOps, exEvents, exAsked, exEdits, exActs>>
edVars == <<inPanel, editorTabs, activeIndex, menu, autoSaveTimer,
            editorDisk, reads, writes, crashed, texts, gestures>>
fsVars == <<query, cwd, searchRoot, caseSensitive, searchTimer,
            currentChannel, found, isSearching, firstBatch, searches,
            selectedIndex, inputs>>
vars == <<part, gvVars, goVars, wtVars, ddVars, pcVars, pqVars, meVars,
          cpVars, ggVars, clVars, exVars, edVars, fsVars>>

Next ==
  /\ UNCHANGED part
  /\ IF part = "git" THEN Gv!Next ELSE UNCHANGED gvVars
  /\ IF part = "output" THEN Go!Next ELSE UNCHANGED goVars
  /\ IF part = "worktrees" THEN Wt!Next ELSE UNCHANGED wtVars
  /\ IF part = "discard" THEN Dd!Next ELSE UNCHANGED ddVars
  /\ IF part = "pull" THEN Pc!Next ELSE UNCHANGED pcVars
  /\ IF part = "request" THEN Pq!Next ELSE UNCHANGED pqVars
  /\ IF part = "merge" THEN Me!Next ELSE UNCHANGED meVars
  /\ IF part = "parser" THEN Cp!Next ELSE UNCHANGED cpVars
  /\ IF part = "graph" THEN Gg!GgNext ELSE UNCHANGED ggVars
  /\ IF part = "log" THEN Cl!ClNext ELSE UNCHANGED clVars
  /\ IF part = "tree" THEN Ex!ExNext ELSE UNCHANGED exVars
  /\ IF part = "editor" THEN Ed!Next ELSE UNCHANGED edVars
  /\ IF part = "search" THEN Fs!Next ELSE UNCHANGED fsVars

Spec == Init /\ [][Next]_vars

-----------------------------------------------------------------------------
(* One type invariant for each component.                                    *)
TypeOK ==
  /\ part = "git" => Gv!TypeOK
  /\ part = "output" => Go!TypeOK
  /\ part = "worktrees" => Wt!TypeOK
  /\ part = "discard" => Dd!TypeOK
  /\ part = "pull" => Pc!TypeOK
  /\ part = "request" => Pq!TypeOK
  /\ part = "merge" => Me!TypeOK
  /\ part = "parser" => Cp!TypeOK
  /\ part = "graph" => Gg!GgTypeOK
  /\ part = "log" => Cl!ClTypeOK
  /\ part = "tree" => Ex!ExTypeOK
  /\ part = "editor" => Ed!TypeOK
  /\ part = "search" => Fs!TypeOK

(* What the Git panel shows of a directory, and what it remembers of it, is   *)
(* never replaced by an older reading (gitStore.ts 101-214).                  *)
GitViewNeverGoesBack ==
  [][part = "git" => Gv!KeepsUp]_vars

(* Git actions end as their dialogs say: a spinner stands for a run that is   *)
(* alive, a conflict whose files are all dealt with is tried again, a pull    *)
(* request goes onto its repository's default branch (gitOutputStore.ts,      *)
(* PullConflictDialog.tsx, CommitForm.tsx).                                   *)
GitActionsEndWell ==
  /\ part = "output" => Go!SpinnerHasARun
  /\ part = "pull" => Pc!AllResolvedIsRetried
  /\ part = "request" => Pq!OntoItsDefaultBranch

(* No work is destroyed unasked or written wrongly: hard resets are           *)
(* confirmed, the list of discarded hunks on show is the one on disk, a       *)
(* merge is staged when every conflict is resolved, and parsing a conflict    *)
(* keeps each side's lines (WorktreeActionModal.tsx, DiffView's discards,     *)
(* MergeEditor.tsx, conflictParser.ts).                                       *)
WorkIsKept ==
  /\ part = "worktrees" => Wt!HardResetIsConfirmed
  /\ part = "discard" => Dd!SavedIsShown
  /\ part = "merge" => Me!StagedIsResolved
  /\ part = "parser" => Cp!SidesAreKept

(* The history is drawn as it is: every parent on the list is joined to its   *)
(* child, the detail is that of the selected commit, the refs those of the    *)
(* directory (gitGraph.ts, GitCommitLog.tsx, RefsTree.tsx).                   *)
HistoryIsDrawnTrue ==
  /\ part = "graph" => Gg!EdgesAreDrawn
  /\ part = "log" => Cl!DetailOfTheSelected /\ Cl!RefsOfTheDirectory

(* The tree lists what the directory holds once it is quiet, the results are  *)
(* those of the search that is shown, and a file has one tab                  *)
(* (ExplorerView.tsx, fileSearchStore.ts, the editor's stores).               *)
FilesAreCurrent ==
  /\ part = "tree" => Ex!TreeIsCurrent
  /\ part = "editor" => Ed!OneTabPerFile
  /\ part = "search" => Fs!ShowsTheSearch

(***************************************************************************)
(* Theorems                                                                *)
(***************************************************************************)
\* A step of each part, or none of it.
GitNext == [Gv!Next]_gvVars
OutputNext == [Go!Next]_goVars
WorktreesNext == [Wt!Next]_wtVars
DiscardNext == [Dd!Next]_ddVars
PullNext == [Pc!Next]_pcVars
RequestNext == [Pq!Next]_pqVars
MergeNext == [Me!Next]_meVars
ParserNext == [Cp!Next]_cpVars
GraphNext == [Gg!GgNext]_ggVars
LogNext == [Cl!ClNext]_clVars
TreeNext == [Ex!ExNext]_exVars
EditorNext == [Ed!Next]_edVars
SearchNext == [Fs!Next]_fsVars

\* A step is a step of the part that runs.
LEMMA PartsStep ==
  ASSUME [Next]_vars
  PROVE  /\ part' = part
         /\ part = "git" => GitNext
         /\ part = "output" => OutputNext
         /\ part = "worktrees" => WorktreesNext
         /\ part = "discard" => DiscardNext
         /\ part = "pull" => PullNext
         /\ part = "request" => RequestNext
         /\ part = "merge" => MergeNext
         /\ part = "parser" => ParserNext
         /\ part = "graph" => GraphNext
         /\ part = "log" => LogNext
         /\ part = "tree" => TreeNext
         /\ part = "editor" => EditorNext
         /\ part = "search" => SearchNext
  BY DEF Next, vars, GitNext, OutputNext, WorktreesNext, DiscardNext, PullNext, RequestNext,
         MergeNext, ParserNext, GraphNext, LogNext, TreeNext, EditorNext, SearchNext

-----------------------------------------------------------------------------
\* A run of the output view, with any number of commands begun.
OutputRun == [kind : Go!Kinds, phase : Go!Phases, command : Nat]

\* The phase of a run is set, and its command.
LEMMA RunIsSet ==
  ASSUME NEW s \in Seq(OutputRun), NEW i \in DOMAIN s, NEW p \in Go!Phases, NEW n \in Nat
  PROVE  /\ [s EXCEPT ![i].phase = p] \in Seq(OutputRun)
         /\ DOMAIN [s EXCEPT ![i].phase = p] = DOMAIN s
         /\ [s EXCEPT ![i].phase = p][i].phase = p
         /\ [s EXCEPT ![i].command = n] \in Seq(OutputRun)
         /\ DOMAIN [s EXCEPT ![i].command = n] = DOMAIN s
         /\ [s EXCEPT ![i].command = n][i].phase = s[i].phase
<1>1. s[i] \in OutputRun
  OBVIOUS
<1>2. ASSUME NEW r \in OutputRun
      PROVE  /\ [r EXCEPT !.phase = p] \in OutputRun /\ [r EXCEPT !.phase = p].phase = p
             /\ [r EXCEPT !.command = n] \in OutputRun /\ [r EXCEPT !.command = n].phase = r.phase
  BY DEF OutputRun
<1>3. /\ [s EXCEPT ![i].phase = p] = [s EXCEPT ![i] = [s[i] EXCEPT !.phase = p]]
      /\ [s EXCEPT ![i].command = n] = [s EXCEPT ![i] = [s[i] EXCEPT !.command = n]]
  OBVIOUS
<1>4. ASSUME NEW x \in OutputRun
      PROVE  /\ [s EXCEPT ![i] = x] \in Seq(OutputRun) /\ DOMAIN [s EXCEPT ![i] = x] = DOMAIN s
             /\ [s EXCEPT ![i] = x][i] = x
  OBVIOUS
<1>. DEFINE x == [s[i] EXCEPT !.phase = p]
            y == [s[i] EXCEPT !.command = n]
<1>5. x \in OutputRun /\ x.phase = p /\ y \in OutputRun /\ y.phase = s[i].phase
  BY <1>1, <1>2
<1>6. [s EXCEPT ![i].phase = p] = [s EXCEPT ![i] = x] /\ [s EXCEPT ![i].command = n] = [s EXCEPT ![i] = y]
  BY <1>3
<1>. HIDE DEF x, y
<1>. QED
  BY <1>4, <1>5, <1>6

\* The runs are records, in the order in which they were started, and a spinner has one.
OutputInv ==
  /\ runs \in Seq(OutputRun)
  /\ Go!SpinnerHasARun

\* Every step of the output view keeps a run behind its spinner.
LEMMA OutputStep ==
  ASSUME OutputInv, OutputNext
  PROVE  OutputInv'
<1>1. runs \in Seq(OutputRun) /\ Go!SpinnerHasARun
  BY DEF OutputInv
<1>2. ASSUME NEW kind \in Go!Kinds, Go!Open(kind)
      PROVE  OutputInv'
  <2>. DEFINE x == [kind |-> kind, phase |-> "opened", command |-> IF kind = "git" THEN 1 ELSE 0]
  <2>1. runs' = Append(runs, x)
    BY <1>2 DEF Go!Open
  <2>2. x \in OutputRun /\ x.phase # "over"
    BY DEF Go!Phases, OutputRun
  <2>. HIDE DEF x
  <2>3. runs' \in Seq(OutputRun) /\ Len(runs) + 1 \in DOMAIN runs' /\ runs'[Len(runs) + 1] = x
    BY <1>1, <2>1, <2>2
  <2>. QED
    BY <2>2, <2>3 DEF OutputInv, Go!SpinnerHasARun, Go!Alive
<1>3. ASSUME NEW i \in DOMAIN runs, runs' \in Seq(OutputRun), DOMAIN runs' = DOMAIN runs,
             runs'[i].phase # "over" \/ status' # "running"
      PROVE  OutputInv'
  BY <1>3 DEF OutputInv, Go!SpinnerHasARun, Go!Alive
<1>4. {"opened", "listens", "runs", "over"} \subseteq Go!Phases
  BY DEF Go!Phases
<1>5. ASSUME NEW i \in DOMAIN runs, NEW p \in {"listens", "runs"}, runs' = [runs EXCEPT ![i].phase = p]
      PROVE  OutputInv'
  <2>1. p \in Go!Phases /\ 1 \in Nat
    BY <1>4
  <2>2. runs' \in Seq(OutputRun) /\ DOMAIN runs' = DOMAIN runs /\ runs'[i].phase = p
    BY <1>1, <1>5, <2>1, RunIsSet
  <2>3. p # "over"
    BY <1>5
  <2>. QED
    BY <1>3, <2>2, <2>3
<1>6. ASSUME NEW i \in DOMAIN runs, NEW result \in {"success", "error"}, Go!Ends(i, result)
      PROVE  OutputInv'
  <2>1. runs' = [runs EXCEPT ![i].phase = "over"] /\ status' = result
    BY <1>6 DEF Go!Ends
  <2>2. runs' \in Seq(OutputRun) /\ DOMAIN runs' = DOMAIN runs
    BY <1>1, <1>4, <2>1, RunIsSet
  <2>. QED
    BY <1>3, <2>1, <2>2
<1>7. ASSUME NEW i \in DOMAIN runs, NEW n \in Nat,
             runs' = [[runs EXCEPT ![i].phase = "opened"] EXCEPT ![i].command = n]
      PROVE  OutputInv'
  <2>. DEFINE q == [runs EXCEPT ![i].phase = "opened"]
  <2>1. q \in Seq(OutputRun) /\ DOMAIN q = DOMAIN runs /\ q[i].phase = "opened"
    BY <1>1, <1>4, RunIsSet
  <2>2. runs' = [q EXCEPT ![i].command = n]
    BY <1>7
  <2>. HIDE DEF q
  <2>3. runs' \in Seq(OutputRun) /\ DOMAIN runs' = DOMAIN runs /\ runs'[i].phase = "opened"
    <3>. DEFINE t == [q EXCEPT ![i].command = n]
    <3>1. t \in Seq(OutputRun) /\ DOMAIN t = DOMAIN q /\ t[i].phase = q[i].phase
      BY <2>1, RunIsSet, <1>4
    <3>2. runs' = t
      BY <2>2
    <3>. HIDE DEF t
    <3>. QED
      BY <2>1, <3>1, <3>2
  <2>. QED
    BY <1>3, <2>3
<1>8. ASSUME NEW i \in DOMAIN runs, Go!Begins(i) \/ Go!Spawns(i)
      PROVE  OutputInv'
  BY <1>5, <1>8 DEF Go!Begins, Go!Spawns
<1>9. ASSUME NEW i \in DOMAIN runs, runs' = [runs EXCEPT ![i].phase = "opened", ![i].command = 1]
      PROVE  OutputInv'
  <2>1. runs' = [[runs EXCEPT ![i].phase = "opened"] EXCEPT ![i].command = 1]
    BY <1>9, Zenon
  <2>2. 1 \in Nat
    OBVIOUS
  <2>. QED
    BY <1>7, <2>1, <2>2
<1>10. ASSUME NEW i \in DOMAIN runs, runs' = [runs EXCEPT ![i].phase = "opened", ![i].command = @ + 1]
       PROVE  OutputInv'
  <2>. DEFINE q == [runs EXCEPT ![i].phase = "opened"]
  <2>1. runs' = [q EXCEPT ![i].command = q[i].command + 1]
    BY <1>10, Zenon
  <2>2. q \in Seq(OutputRun) /\ DOMAIN q = DOMAIN runs
    BY <1>1, <1>4, RunIsSet
  <2>3. q[i].command + 1 \in Nat
    <3>. HIDE DEF q
    <3>1. q[i] \in OutputRun
      BY <2>2
    <3>. QED
      BY <3>1 DEF OutputRun
  <2>. QED
    BY <1>7, <2>1, <2>3
<1>11. ASSUME NEW i \in DOMAIN runs, Go!AiEnds(i) \/ Go!CommandEnds(i) \/ Go!Throws(i)
       PROVE  OutputInv'
  BY <1>6, <1>9, <1>10, <1>11 DEF Go!AiEnds, Go!CommandEnds, Go!Throws
<1>12. ASSUME UNCHANGED runs, status' # "running" \/ (UNCHANGED <<status, isOpen>>)
       PROVE  OutputInv'
  <2>1. runs' \in Seq(OutputRun) /\ DOMAIN runs' = DOMAIN runs /\ \A i \in DOMAIN runs : Go!Alive(i)' = Go!Alive(i)
    BY <1>1, <1>12 DEF Go!Alive
  <2>. QED
    BY <1>1, <1>12, <2>1 DEF OutputInv, Go!SpinnerHasARun
<1>13. CASE Go!Abort \/ Go!Close \/ (\E i \in DOMAIN runs : Go!AiAnswers(i)) \/ UNCHANGED goVars
  BY <1>12, <1>13 DEF Go!Abort, Go!Close, Go!AiAnswers, goVars
<1>14. CASE Go!Commit \/ Go!GenerateMessage \/ Go!AutoCommit
  BY <1>2, <1>14 DEF Go!Commit, Go!GenerateMessage, Go!AutoCommit, Go!Kinds
<1>. QED
  BY <1>8, <1>11, <1>13, <1>14 DEF OutputNext, Go!Next

-----------------------------------------------------------------------------
\* Every step of a refused pull and its dialog keeps the promise of a retry.
LEMMA PullStep ==
  ASSUME Pc!AllResolvedIsRetried, PullNext
  PROVE  Pc!AllResolvedIsRetried'
<1>. USE DEF Pc!AllResolvedIsRetried, Pc!IsOpen, Pc!Closed
<1>1. ASSUME conflict' = Pc!Closed
      PROVE  Pc!AllResolvedIsRetried'
  BY <1>1
<1>2. ASSUME UNCHANGED <<conflict, resolved, crossed>>, retries \subseteq retries', retried \subseteq retried'
      PROVE  Pc!AllResolvedIsRetried'
  BY <1>2
<1>3. CASE Pc!Close \/ (\E a \in pullActions : Pc!ActionDone(a))
  BY <1>1, <1>3 DEF Pc!Close, Pc!ActionDone
<1>4. CASE UNCHANGED pcVars \/ (\E r \in Repo : Pc!HandlePull(r) \/ Pc!PullEnds(r)) \/ (\E f \in PullFile : Pc!Fix(f))
  BY <1>2, <1>4 DEF Pc!HandlePull, Pc!PullEnds, Pc!Fix, pcVars
<1>5. CASE (\E x \in fixing : Pc!FixFails(x)) \/ (\E a \in pullActions : Pc!ActionFails(a))
  BY <1>2, <1>5 DEF Pc!FixFails, Pc!ActionFails
<1>6. CASE \E action \in Pc!Action : Pc!HandleAction(action)
  BY <1>2, <1>6 DEF Pc!HandleAction, Pc!Begin
<1>7. ASSUME NEW r \in Repo, NEW files \in (SUBSET PullFile) \ {{}}, Pc!PullRefused(r, files)
      PROVE  Pc!AllResolvedIsRetried'
  <2>. DEFINE d == [repo |-> r, files |-> files, n |-> conflicts + 1]
  <2>1. crossed' = (crossed \/ resolved # {}) /\ resolved' = resolved /\ conflict' = d
    BY <1>7 DEF Pc!PullRefused
  <2>2. d.files = files
    OBVIOUS
  <2>3. files # {}
    OBVIOUS
  <2>. HIDE DEF d
  <2>. QED
    BY <2>1, <2>2, <2>3
<1>8. ASSUME NEW x \in fixing, Pc!Fixed(x)
      PROVE  Pc!AllResolvedIsRetried'
  BY <1>8 DEF Pc!Fixed, Pc!AllResolvedBy
<1>9. ASSUME NEW d \in retries, Pc!AutoRetry(d)
      PROVE  Pc!AllResolvedIsRetried'
  BY <1>9 DEF Pc!AutoRetry, Pc!Begin
<1>. QED
  BY <1>3, <1>4, <1>5, <1>6, <1>7, <1>8, <1>9 DEF PullNext, Pc!Next

-----------------------------------------------------------------------------
\* As long as the panel has not moved under it, the form's branch is the default one of
\* its directory, unless the user named it, and so are its handlers' directories.
RequestInv ==
  /\ ~moved => /\ \A x \in prTasks : x.dir = formDir
               /\ showPrForm => retargeted \/ prBase = formDir
  /\ Pq!OntoItsDefaultBranch

\* Every step of the form keeps it.
LEMMA RequestStep ==
  ASSUME RequestInv, RequestNext
  PROVE  RequestInv'
<1>. USE DEF RequestInv, Pq!OntoItsDefaultBranch, Pq!prText, Pq!bounds
<1>1. CASE Pq!HandlePush
  BY <1>1 DEF Pq!HandlePush
<1>2. CASE Pq!EditForm
  <2>1. UNCHANGED <<formDir, prTasks, creating, moved>>
    BY <1>2 DEF Pq!EditForm
  <2>2. \/ UNCHANGED <<prBase, retargeted, showPrForm>>
        \/ retargeted' = TRUE
        \/ showPrForm' = FALSE
    BY <1>2, Zenon DEF Pq!EditForm
  <2>. QED
    BY <2>1, <2>2
<1>3. CASE Pq!DismissResult
  BY <1>3 DEF Pq!DismissResult
<1>4. CASE Pq!HandleCreatePr
  <2>. DEFINE x == [dir |-> formDir, base |-> prBase, chosen |-> retargeted]
  <2>1. /\ creating' = creating \cup {x} /\ showPrForm
        /\ UNCHANGED <<formDir, showPrForm, prBase, prTasks, retargeted, moved>>
    BY <1>4 DEF Pq!HandleCreatePr
  <2>2. x.dir = formDir /\ x.base = prBase /\ x.chosen = retargeted
    OBVIOUS
  <2>. HIDE DEF x
  <2>. QED
    BY <2>1, <2>2
<1>5. CASE Pq!HandleGeneratePrContent
  BY <1>5 DEF Pq!HandleGeneratePrContent
<1>6. ASSUME NEW d \in Dir, Pq!MoveToKnown(d) \/ Pq!MoveToUnknown(d)
      PROVE  RequestInv'
  BY <1>6 DEF Pq!MoveToKnown, Pq!MoveToUnknown
<1>7. ASSUME NEW x \in prTasks, Pq!Pushed(x) \/ Pq!NoRequestYet(x)
      PROVE  RequestInv'
  BY <1>7 DEF Pq!Pushed, Pq!NoRequestYet, Pq!Then, Pq!OffersLater
<1>8. ASSUME NEW x \in prTasks, Pq!OfferRequest(x)
      PROVE  RequestInv'
  BY <1>8 DEF Pq!OfferRequest
<1>9. ASSUME NEW x \in prTasks, Pq!PushEnds(x) \/ Pq!Generated(x)
      PROVE  RequestInv'
  <2>1. prTasks' = prTasks \ {x} /\ UNCHANGED <<formDir, showPrForm, prBase, creating, retargeted, moved>>
    BY <1>9 DEF Pq!PushEnds, Pq!Generated
  <2>. QED
    BY <2>1
<1>10. ASSUME NEW x \in creating, Pq!Created(x)
       PROVE  RequestInv'
  BY <1>10 DEF Pq!Created
<1>11. CASE UNCHANGED pqVars
  BY <1>11 DEF pqVars
<1>. QED
  BY <1>1, <1>2, <1>3, <1>4, <1>5, <1>6, <1>7, <1>8, <1>9, <1>10, <1>11 DEF RequestNext, Pq!Next

\* The inductive invariant of the Git actions.
ActionsInv ==
  /\ part = "output" => OutputInv
  /\ part = "pull" => Pc!AllResolvedIsRetried
  /\ part = "request" => RequestInv
\* Git actions end as their dialogs say in every reachable state (gitOutputStore.ts,
\* PullConflictDialog.tsx, CommitForm.tsx).
THEOREM ActionsEndWell == Spec => []GitActionsEndWell
<1>1. Init => ActionsInv
  <2>1. Go!Init => OutputInv
    BY DEF Go!Init, OutputInv, Go!SpinnerHasARun
  <2>2. Pc!Init => Pc!AllResolvedIsRetried
    BY DEF Pc!Init, Pc!AllResolvedIsRetried, Pc!IsOpen
  <2>3. Pq!Init => RequestInv
    BY DEF Pq!Init, RequestInv, Pq!OntoItsDefaultBranch
  <2>. QED
    BY <2>1, <2>2, <2>3 DEF Init, ActionsInv
<1>2. ActionsInv /\ [Next]_vars => ActionsInv'
  BY PartsStep, OutputStep, PullStep, RequestStep DEF ActionsInv
<1>3. ActionsInv => GitActionsEndWell
  BY DEF ActionsInv, OutputInv, RequestInv, GitActionsEndWell
<1>. QED
  BY <1>1, <1>2, <1>3, PTL DEF Spec

-----------------------------------------------------------------------------
\* No directory is not a directory of a pane (gitStore.ts: a cwd of null).
ASSUME CwdAssumption == NoCwd \notin Cwds

\* A snapshot, or none; and a refresh under way.
Halves == [info : Nat, statuses : Nat]
GitReading == [gen : Nat, cwd : Cwds, known : BOOLEAN, more : BOOLEAN, snap : Halves]

\* The variables of the Git view have their types.
ViewTypes ==
  /\ version \in [Cwds -> Nat] /\ panelCwd \in Cwds \cup {NoCwd} /\ refreshGen \in Nat
  /\ gitCache \in [Cwds -> Halves] /\ shown \in [cwd : Cwds \cup {NoCwd}, snap : Halves]
  /\ reading \subseteq GitReading /\ acting \subseteq Cwds

\* s, read in the directory c, is of the past.
OfThePast(s, c) == s.info <= version[c] /\ s.statuses <= version[c]

\* What r has read, s has not outdated.
Supersedes(r, s) ==
  /\ r.snap.info # 0 => s.info <= r.snap.info
  /\ r.snap.statuses # 0 => s.statuses <= r.snap.statuses

\* Nothing on show, remembered or being read is of the future.
ReadInThePast ==
  /\ \A c \in Cwds : OfThePast(gitCache[c], c)
  /\ shown.cwd \in Cwds => OfThePast(shown.snap, shown.cwd)
  /\ \A r \in reading : OfThePast(r.snap, r.cwd)

\* The snapshot on show is the one remembered, unless a failed refresh has forgotten it.
ShownIsCached ==
  shown.cwd \in Cwds /\ Gv!Cached(shown.cwd) => gitCache[shown.cwd] = shown.snap

\* Each refresh has a number of its own, which refreshGen has reached.
RefreshesAreCounted ==
  \A r \in reading : r.gen <= refreshGen /\ \A q \in reading : q.gen = r.gen => q = r

\* The last refresh has read nothing that is older than what is on show or remembered.
LastIsNewest ==
  \A r \in reading : r.gen = refreshGen =>
    Supersedes(r, gitCache[r.cwd]) /\ (shown.cwd = r.cwd => Supersedes(r, shown.snap))

\* The inductive invariant of the Git view.
ViewInv == ViewTypes /\ ReadInThePast /\ ShownIsCached /\ RefreshesAreCounted /\ LastIsNewest

\* A refresh begins: what it shows at once is not older than what was on show.
LEMMA RefreshBegins ==
  ASSUME ViewInv, NEW c \in Cwds, Gv!Refresh(c), acting' \subseteq acting,
         panelCwd' \in {panelCwd, c}, version' \in [Cwds -> Nat],
         \A d \in Cwds : version[d] <= version'[d]
  PROVE  ViewInv' /\ Gv!KeepsUp
<1>. DEFINE x == [gen |-> refreshGen', cwd |-> c, known |-> c \in noRepoCache,
                  more |-> FALSE, snap |-> Gv!NoSnapshot]
            y == [cwd |-> c, snap |-> gitCache[c]]
<1>1. ViewTypes /\ ReadInThePast /\ ShownIsCached /\ RefreshesAreCounted /\ LastIsNewest
  BY DEF ViewInv
<1>2. /\ refreshGen' = refreshGen + 1 /\ refreshGen' \in Nat /\ gitCache' = gitCache
      /\ reading' = reading \cup {x} /\ shown' = IF Gv!Cached(c) THEN y ELSE Gv!Blank
  BY <1>1 DEF Gv!Refresh, ViewTypes
<1>3. Gv!NoSnapshot \in Halves /\ Gv!NoSnapshot.info = 0 /\ Gv!NoSnapshot.statuses = 0
  BY DEF Gv!NoSnapshot, Gv!Unread, Halves
<1>4. /\ Gv!Blank \in [cwd : Cwds \cup {NoCwd}, snap : Halves]
      /\ Gv!Blank.cwd = NoCwd /\ Gv!Blank.cwd \notin Cwds
  BY <1>3, CwdAssumption DEF Gv!Blank
<1>5. /\ x \in GitReading /\ x.gen = refreshGen + 1 /\ x.cwd = c
      /\ x.snap.info = 0 /\ x.snap.statuses = 0
  BY <1>2, <1>3 DEF GitReading
<1>6. gitCache[c] \in Halves /\ y \in [cwd : Cwds \cup {NoCwd}, snap : Halves] /\ y.cwd = c /\ y.snap = gitCache[c]
  BY <1>1 DEF ViewTypes
<1>. HIDE DEF x, y
<1>7. ViewTypes'
  <2>1. shown' \in [cwd : Cwds \cup {NoCwd}, snap : Halves]
    BY <1>2, <1>4, <1>6
  <2>2. panelCwd' \in Cwds \cup {NoCwd} /\ acting' \subseteq Cwds
    BY <1>1 DEF ViewTypes
  <2>. QED
    BY <1>1, <1>2, <1>5, <2>1, <2>2 DEF ViewTypes
<1>8. ASSUME NEW s \in Halves, NEW d \in Cwds, OfThePast(s, d)
      PROVE  s.info <= version'[d] /\ s.statuses <= version'[d]
  <2>1. s.info \in Nat /\ s.statuses \in Nat /\ version[d] \in Nat /\ version'[d] \in Nat
    BY <1>1 DEF Halves, ViewTypes
  <2>. QED
    BY <1>8, <2>1 DEF OfThePast
<1>9. ReadInThePast'
  <2>1. ASSUME NEW d \in Cwds PROVE OfThePast(gitCache[d], d)'
    <3>1. gitCache[d] \in Halves /\ OfThePast(gitCache[d], d)
      BY <1>1 DEF ViewTypes, ReadInThePast
    <3>. QED
      BY <1>2, <1>8, <3>1 DEF OfThePast
  <2>2. ASSUME shown'.cwd \in Cwds PROVE OfThePast(shown.snap, shown.cwd)'
    <3>1. shown' = y
      BY <1>2, <1>4, <2>2
    <3>. QED
      BY <1>2, <1>6, <2>1, <3>1 DEF OfThePast
  <2>3. ASSUME NEW r \in reading PROVE r.snap.info <= version'[r.cwd] /\ r.snap.statuses <= version'[r.cwd]
    <3>1. r.snap \in Halves /\ r.cwd \in Cwds /\ OfThePast(r.snap, r.cwd)
      BY <1>1 DEF ViewTypes, GitReading, ReadInThePast
    <3>. QED
      BY <1>8, <3>1
  <2>4. x.snap.info <= version'[x.cwd] /\ x.snap.statuses <= version'[x.cwd]
    <3>1. version'[c] \in Nat
      OBVIOUS
    <3>. QED
      BY <1>5, <3>1
  <2>. QED
    BY <1>2, <2>1, <2>2, <2>3, <2>4 DEF ReadInThePast, OfThePast
<1>10. ShownIsCached'
  BY <1>2, <1>4, <1>6 DEF ShownIsCached, Gv!Cached
<1>11. \A r \in reading : r.gen \in Nat /\ r.gen <= refreshGen
  BY <1>1 DEF ViewTypes, GitReading, RefreshesAreCounted
<1>12. refreshGen \in Nat
  BY <1>1 DEF ViewTypes
<1>13. RefreshesAreCounted'
  <2>1. \A r \in reading, q \in reading : q.gen = r.gen => q = r
    BY <1>1 DEF RefreshesAreCounted
  <2>. QED
    BY <1>2, <1>5, <1>11, <1>12, <2>1 DEF RefreshesAreCounted
<1>14. LastIsNewest'
  <2>1. \A r \in reading : r.gen # refreshGen'
    BY <1>2, <1>11, <1>12
  <2>2. ASSUME NEW s PROVE Supersedes(x, s)
    BY <1>5 DEF Supersedes
  <2>3. Supersedes(x, gitCache'[x.cwd]) /\ Supersedes(x, shown'.snap)
    BY <2>2
  <2>. QED
    BY <1>2, <2>1, <2>3 DEF LastIsNewest, Supersedes
<1>15. ASSUME NEW d \in Cwds, shown.cwd = d, shown'.cwd = d
       PROVE  shown'.snap = shown.snap
  <2>1. shown' = y /\ Gv!Cached(c) /\ d = c
    BY <1>2, <1>4, <1>6, <1>15
  <2>. QED
    BY <1>1, <1>6, <1>15, <2>1 DEF ShownIsCached
<1>16. \A s \in Halves : s.info <= s.info /\ s.statuses <= s.statuses
  BY DEF Halves
<1>17. shown.snap \in Halves /\ \A d \in Cwds : gitCache[d] \in Halves
  BY <1>1 DEF ViewTypes
<1>18. Gv!KeepsUp
  BY <1>2, <1>15, <1>16, <1>17 DEF Gv!KeepsUp
<1>. QED
  BY <1>7, <1>9, <1>10, <1>13, <1>14, <1>18 DEF ViewInv

\* A refresh has read more, or asks for more: x takes the place of r.
LEMMA RefreshReads ==
  ASSUME ViewInv, NEW r \in reading, NEW x \in GitReading,
         reading' = (reading \ {r}) \cup {x}, x.gen = r.gen, x.cwd = r.cwd,
         x.snap.info \in {r.snap.info, version[r.cwd]},
         x.snap.statuses \in {r.snap.statuses, version[r.cwd]},
         UNCHANGED <<version, panelCwd, refreshGen, gitCache, shown, acting>>
  PROVE  ViewInv' /\ Gv!KeepsUp
<1>1. ViewTypes /\ ReadInThePast /\ ShownIsCached /\ RefreshesAreCounted /\ LastIsNewest
  BY DEF ViewInv
<1>2. /\ r \in GitReading /\ r.cwd \in Cwds /\ r.snap \in Halves /\ version[r.cwd] \in Nat
      /\ r.snap.info \in Nat /\ r.snap.statuses \in Nat
  BY <1>1 DEF ViewTypes, GitReading, Halves
<1>3. ViewTypes'
  BY <1>1 DEF ViewTypes
<1>4. OfThePast(x.snap, x.cwd)
  BY <1>1, <1>2 DEF ReadInThePast, OfThePast
<1>5. ReadInThePast'
  BY <1>1, <1>4 DEF ReadInThePast, OfThePast
<1>6. ShownIsCached'
  BY <1>1 DEF ShownIsCached, Gv!Cached
<1>7. RefreshesAreCounted'
  BY <1>1 DEF RefreshesAreCounted
<1>8. ASSUME NEW s \in Halves, Supersedes(r, s), OfThePast(s, r.cwd)
      PROVE  Supersedes(x, s)
  BY <1>2, <1>8 DEF Supersedes, OfThePast, Halves
<1>9. LastIsNewest'
  <2>1. ASSUME r.gen = refreshGen
        PROVE  Supersedes(x, gitCache[x.cwd]) /\ (shown.cwd = x.cwd => Supersedes(x, shown.snap))
    <3>1. /\ gitCache[r.cwd] \in Halves /\ OfThePast(gitCache[r.cwd], r.cwd)
          /\ Supersedes(r, gitCache[r.cwd])
      BY <1>1, <1>2, <2>1 DEF ViewTypes, ReadInThePast, LastIsNewest
    <3>2. ASSUME shown.cwd = r.cwd
          PROVE  shown.snap \in Halves /\ OfThePast(shown.snap, r.cwd) /\ Supersedes(r, shown.snap)
      BY <1>1, <1>2, <2>1, <3>2 DEF ViewTypes, ReadInThePast, LastIsNewest
    <3>. QED
      BY <1>8, <3>1, <3>2
  <2>. QED
    BY <1>1, <2>1 DEF LastIsNewest, Supersedes
<1>10. \A s \in Halves : s.info <= s.info /\ s.statuses <= s.statuses
  BY DEF Halves
<1>11. shown.snap \in Halves /\ \A d \in Cwds : gitCache[d] \in Halves
  BY <1>1 DEF ViewTypes
<1>12. Gv!KeepsUp
  BY <1>10, <1>11 DEF Gv!KeepsUp
<1>. QED
  BY <1>3, <1>5, <1>6, <1>7, <1>9, <1>12 DEF ViewInv

\* A refresh ends: the last one is shown and remembered, or fails; the others are forgotten.
LEMMA RefreshEnds ==
  ASSUME ViewInv, NEW r \in reading, Gv!Arrives(r) \/ Gv!Fails(r)
  PROVE  ViewInv' /\ Gv!KeepsUp
<1>. DEFINE y == [cwd |-> r.cwd, snap |-> r.snap]
<1>1. ViewTypes /\ ReadInThePast /\ ShownIsCached /\ RefreshesAreCounted /\ LastIsNewest
  BY DEF ViewInv
<1>2. /\ r \in GitReading /\ r.cwd \in Cwds /\ r.snap \in Halves /\ version[r.cwd] \in Nat
      /\ r.snap.info \in Nat /\ r.snap.statuses \in Nat
  BY <1>1 DEF ViewTypes, GitReading, Halves
<1>3. reading' = reading \ {r} /\ UNCHANGED <<version, panelCwd, refreshGen, acting>>
  BY DEF Gv!Arrives, Gv!Fails
<1>4. Gv!NoSnapshot \in Halves /\ Gv!NoSnapshot.info = 0 /\ Gv!NoSnapshot.statuses = 0
  BY DEF Gv!NoSnapshot, Gv!Unread, Halves
<1>5. /\ Gv!Blank \in [cwd : Cwds \cup {NoCwd}, snap : Halves]
      /\ Gv!Blank.cwd = NoCwd /\ Gv!Blank.cwd \notin Cwds
  BY <1>4, CwdAssumption DEF Gv!Blank
<1>6. y \in [cwd : Cwds \cup {NoCwd}, snap : Halves] /\ y.cwd = r.cwd /\ y.snap = r.snap
  BY <1>2
<1>7. shown.snap \in Halves /\ \A d \in Cwds : gitCache[d] \in Halves
  BY <1>1 DEF ViewTypes
<1>8. \A s \in Halves : s.info <= s.info /\ s.statuses <= s.statuses
  BY DEF Halves
<1>9. CASE r.gen # refreshGen
  <2>1. UNCHANGED <<gitCache, shown>>
    BY <1>9 DEF Gv!Arrives, Gv!Fails, Gv!Outdated
  <2>2. ViewTypes' /\ ShownIsCached' /\ RefreshesAreCounted' /\ ReadInThePast'
    BY <1>1, <1>3, <2>1
       DEF ViewTypes, ShownIsCached, Gv!Cached, RefreshesAreCounted, ReadInThePast, OfThePast
  <2>3. LastIsNewest'
    BY <1>1, <1>3, <2>1 DEF LastIsNewest, Supersedes
  <2>4. Gv!KeepsUp
    BY <1>7, <1>8, <2>1 DEF Gv!KeepsUp
  <2>. QED
    BY <2>2, <2>3, <2>4 DEF ViewInv
<1>10. ASSUME r.gen = refreshGen, NEW s \in Halves, gitCache' = [gitCache EXCEPT ![r.cwd] = s],
              OfThePast(s, r.cwd), s # Gv!NoSnapshot => Gv!ReadAll(r) /\ s = r.snap,
              shown' \in [cwd : Cwds \cup {NoCwd}, snap : Halves], ShownIsCached',
              shown'.cwd \in Cwds => OfThePast(shown'.snap, shown'.cwd),
              \A d \in Cwds : shown.cwd = d /\ shown'.cwd = d
                => shown.snap.info <= shown'.snap.info /\ shown.snap.statuses <= shown'.snap.statuses
       PROVE  ViewInv' /\ Gv!KeepsUp
  <2>1. ViewTypes'
    BY <1>1, <1>3, <1>10 DEF ViewTypes
  <2>2. /\ gitCache'[r.cwd] = s
        /\ \A d \in Cwds : d # r.cwd => gitCache'[d] = gitCache[d]
    BY <1>1, <1>2, <1>10 DEF ViewTypes
  <2>3. ReadInThePast'
    <3>1. ASSUME NEW d \in Cwds PROVE OfThePast(gitCache'[d], d)
      BY <1>1, <1>10, <2>2 DEF ReadInThePast
    <3>. QED
      BY <1>1, <1>3, <1>10, <3>1 DEF ReadInThePast, OfThePast
  <2>4. RefreshesAreCounted'
    BY <1>1, <1>3 DEF RefreshesAreCounted
  <2>5. LastIsNewest'
    <3>1. \A q \in reading : q # r => q.gen # refreshGen
      BY <1>1, <1>10 DEF RefreshesAreCounted
    <3>. QED
      BY <1>3, <3>1 DEF LastIsNewest
  <2>6. Supersedes(r, gitCache[r.cwd])
    BY <1>1, <1>10 DEF LastIsNewest
  <2>7. ASSUME NEW d \in Cwds, Gv!Cached(d), Gv!Cached(d)'
        PROVE  gitCache[d].info <= gitCache'[d].info /\ gitCache[d].statuses <= gitCache'[d].statuses
    <3>1. CASE d # r.cwd
      BY <1>7, <1>8, <2>2, <3>1
    <3>2. CASE d = r.cwd
      <4>1. s # Gv!NoSnapshot
        BY <2>2, <2>7, <3>2 DEF Gv!Cached
      <4>2. Gv!ReadAll(r) /\ s = r.snap
        BY <1>10, <4>1
      <4>. QED
        BY <2>2, <2>6, <3>2, <4>2 DEF Supersedes, Gv!ReadAll, Gv!Unread
    <3>. QED
      BY <3>1, <3>2
  <2>8. Gv!KeepsUp
    BY <1>10, <2>7 DEF Gv!KeepsUp
  <2>. QED
    BY <1>10, <2>1, <2>3, <2>4, <2>5, <2>8 DEF ViewInv
<1>11. CASE r.gen = refreshGen /\ Gv!Arrives(r)
  <2>1. gitCache' = [gitCache EXCEPT ![r.cwd] = r.snap] /\ shown' = y /\ Gv!ReadAll(r)
    BY <1>11 DEF Gv!Arrives, Gv!Outdated
  <2>2. OfThePast(r.snap, r.cwd)
    BY <1>1 DEF ReadInThePast
  <2>3. gitCache'[r.cwd] = r.snap
    BY <1>1, <1>2, <2>1 DEF ViewTypes
  <2>. HIDE DEF y
  <2>4. ShownIsCached'
    BY <1>6, <2>1, <2>3 DEF ShownIsCached
  <2>5. ASSUME shown.cwd = r.cwd
        PROVE  shown.snap.info <= r.snap.info /\ shown.snap.statuses <= r.snap.statuses
    BY <1>1, <1>11, <2>1, <2>5 DEF LastIsNewest, Supersedes, Gv!ReadAll, Gv!Unread
  <2>. QED
    BY <1>2, <1>6, <1>10, <1>11, <2>1, <2>2, <2>4, <2>5
<1>12. CASE r.gen = refreshGen /\ Gv!Fails(r)
  <2>1. gitCache' = [gitCache EXCEPT ![r.cwd] = Gv!NoSnapshot] /\ shown' \in {shown, Gv!Blank}
    BY <1>12 DEF Gv!Fails, Gv!Outdated
  <2>2. OfThePast(Gv!NoSnapshot, r.cwd)
    BY <1>2, <1>4 DEF OfThePast
  <2>3. /\ gitCache'[r.cwd] = Gv!NoSnapshot
        /\ \A d \in Cwds : d # r.cwd => gitCache'[d] = gitCache[d]
    BY <1>1, <1>2, <2>1 DEF ViewTypes
  <2>4. ShownIsCached'
    BY <1>1, <1>5, <2>1, <2>3 DEF ShownIsCached, Gv!Cached
  <2>5. shown \in [cwd : Cwds \cup {NoCwd}, snap : Halves] /\ (shown.cwd \in Cwds => OfThePast(shown.snap, shown.cwd))
    BY <1>1 DEF ViewTypes, ReadInThePast
  <2>6. \A d \in Cwds : shown.cwd = d /\ shown'.cwd = d
          => shown.snap.info <= shown'.snap.info /\ shown.snap.statuses <= shown'.snap.statuses
    BY <1>5, <1>7, <1>8, <2>1
  <2>. QED
    BY <1>4, <1>5, <1>10, <1>12, <2>1, <2>2, <2>4, <2>5, <2>6
<1>. QED
  BY <1>9, <1>11, <1>12

\* Every step of the Git view keeps the invariant, and nothing goes back.
LEMMA ViewStep ==
  ASSUME ViewInv, GitNext
  PROVE  ViewInv' /\ Gv!KeepsUp
<1>1. ViewTypes
  BY DEF ViewInv
<1>2. /\ version \in [Cwds -> Nat] /\ panelCwd \in Cwds \cup {NoCwd} /\ acting \subseteq Cwds
      /\ \A d \in Cwds : version[d] \in Nat /\ version[d] <= version[d]
  BY <1>1 DEF ViewTypes
<1>3. CASE Gv!Tick
  <2>1. panelCwd \in Cwds /\ Gv!Refresh(panelCwd) /\ UNCHANGED <<version, panelCwd, acting>>
    BY <1>2, <1>3 DEF Gv!Tick
  <2>. QED
    BY <1>2, <2>1, RefreshBegins
<1>4. ASSUME NEW c \in Cwds, Gv!Focus(c)
      PROVE  ViewInv' /\ Gv!KeepsUp
  <2>1. Gv!Refresh(c) /\ panelCwd' = c /\ UNCHANGED <<version, acting>>
    BY <1>4 DEF Gv!Focus
  <2>. QED
    BY <1>2, <2>1, RefreshBegins
<1>5. ASSUME NEW c \in Cwds, version' = [version EXCEPT ![c] = @ + 1]
      PROVE  version' \in [Cwds -> Nat] /\ \A d \in Cwds : version[d] <= version'[d]
  BY <1>2, <1>5
<1>6. ASSUME NEW c \in Cwds, Gv!ActDone(c)
      PROVE  ViewInv' /\ Gv!KeepsUp
  <2>1. Gv!Refresh(c) /\ acting' \subseteq acting /\ UNCHANGED panelCwd /\ version' = [version EXCEPT ![c] = @ + 1]
    BY <1>6 DEF Gv!ActDone
  <2>. QED
    BY <1>5, <2>1, RefreshBegins
<1>7. ASSUME version' \in [Cwds -> Nat], \A d \in Cwds : version[d] <= version'[d],
             UNCHANGED <<refreshGen, gitCache, shown, reading>>, panelCwd' = panelCwd, acting' \subseteq Cwds
      PROVE  ViewInv' /\ Gv!KeepsUp
  <2>1. ViewTypes'
    BY <1>1, <1>7 DEF ViewTypes
  <2>2. ASSUME NEW s \in Halves, NEW d \in Cwds, OfThePast(s, d)
        PROVE  s.info <= version'[d] /\ s.statuses <= version'[d]
    <3>1. s.info \in Nat /\ s.statuses \in Nat /\ version[d] \in Nat /\ version'[d] \in Nat
      BY <1>2, <1>7 DEF Halves
    <3>. QED
      BY <1>7, <2>2, <3>1 DEF OfThePast
  <2>3. ReadInThePast /\ ShownIsCached /\ RefreshesAreCounted /\ LastIsNewest
    BY DEF ViewInv
  <2>4. /\ shown.snap \in Halves /\ \A d \in Cwds : gitCache[d] \in Halves
        /\ \A r \in reading : r.snap \in Halves /\ r.cwd \in Cwds
    BY <1>1 DEF ViewTypes, GitReading
  <2>5. ReadInThePast'
    BY <1>7, <2>2, <2>3, <2>4 DEF ReadInThePast, OfThePast
  <2>6. ShownIsCached' /\ RefreshesAreCounted'
    BY <1>7, <2>3 DEF ShownIsCached, Gv!Cached, RefreshesAreCounted
  <2>7. LastIsNewest'
    BY <1>7, <2>3 DEF LastIsNewest, Supersedes
  <2>8. \A s \in Halves : s.info <= s.info /\ s.statuses <= s.statuses
    BY DEF Halves
  <2>9. Gv!KeepsUp
    BY <1>7, <2>4, <2>8 DEF Gv!KeepsUp
  <2>. QED
    BY <2>1, <2>5, <2>6, <2>7, <2>9 DEF ViewInv
<1>8. ASSUME NEW c \in Cwds, Gv!Changes(c)
      PROVE  ViewInv' /\ Gv!KeepsUp
  <2>1. version' = [version EXCEPT ![c] = @ + 1] /\ UNCHANGED <<refreshGen, gitCache, shown, reading, panelCwd, acting>>
    BY <1>8 DEF Gv!Changes, Gv!store
  <2>2. version' \in [Cwds -> Nat] /\ (\A d \in Cwds : version[d] <= version'[d])
    BY <1>5, <2>1
  <2>. QED
    BY <1>2, <1>7, <2>1, <2>2
<1>9. CASE Gv!Act \/ (\E c \in Cwds : Gv!ActFails(c)) \/ UNCHANGED gvVars
  <2>1. UNCHANGED <<version, panelCwd, refreshGen, gitCache, shown, reading>> /\ acting' \subseteq Cwds
    BY <1>2, <1>9 DEF Gv!Act, Gv!ActFails, Gv!store, gvVars
  <2>. QED
    BY <1>2, <1>7, <2>1
<1>10. ASSUME NEW r \in reading, Gv!ReadInfo(r) \/ Gv!ReadStatuses(r) \/ Gv!AsksForUnpushed(r)
       PROVE  ViewInv' /\ Gv!KeepsUp
  <2>1. r \in GitReading /\ version[r.cwd] \in Nat
    BY <1>1 DEF ViewTypes, GitReading
  <2>2. ASSUME NEW q \in GitReading, NEW n \in Nat
        PROVE  /\ [q EXCEPT !.snap.info = n] \in GitReading /\ [q EXCEPT !.snap.statuses = n] \in GitReading
               /\ [q EXCEPT !.more = TRUE] \in GitReading
    BY DEF GitReading, Halves
  <2>3. ASSUME NEW q \in GitReading, NEW n \in Nat
        PROVE  /\ [q EXCEPT !.snap.info = n].gen = q.gen /\ [q EXCEPT !.snap.info = n].cwd = q.cwd
               /\ [q EXCEPT !.snap.info = n].snap.info = n
               /\ [q EXCEPT !.snap.info = n].snap.statuses = q.snap.statuses
               /\ [q EXCEPT !.snap.statuses = n].gen = q.gen /\ [q EXCEPT !.snap.statuses = n].cwd = q.cwd
               /\ [q EXCEPT !.snap.statuses = n].snap.info = q.snap.info
               /\ [q EXCEPT !.snap.statuses = n].snap.statuses = n
               /\ [q EXCEPT !.more = TRUE].gen = q.gen /\ [q EXCEPT !.more = TRUE].cwd = q.cwd
               /\ [q EXCEPT !.more = TRUE].snap = q.snap
    BY DEF GitReading, Halves
  <2>4. UNCHANGED <<version, panelCwd, refreshGen, gitCache, shown, acting>>
    BY <1>10 DEF Gv!ReadInfo, Gv!ReadStatuses, Gv!AsksForUnpushed
  <2>5. CASE Gv!ReadInfo(r)
    <3>. DEFINE x == [r EXCEPT !.snap.info = version[r.cwd]]
    <3>1. reading' = (reading \ {r}) \cup {x}
      BY <2>5 DEF Gv!ReadInfo
    <3>2. /\ x \in GitReading /\ x.gen = r.gen /\ x.cwd = r.cwd
          /\ x.snap.info = version[r.cwd] /\ x.snap.statuses = r.snap.statuses
      BY <2>1, <2>2, <2>3
    <3>. HIDE DEF x
    <3>. QED
      BY <2>4, <3>1, <3>2, RefreshReads
  <2>6. CASE Gv!ReadStatuses(r)
    <3>. DEFINE x == [r EXCEPT !.snap.statuses = version[r.cwd]]
    <3>1. reading' = (reading \ {r}) \cup {x}
      BY <2>6 DEF Gv!ReadStatuses
    <3>2. /\ x \in GitReading /\ x.gen = r.gen /\ x.cwd = r.cwd
          /\ x.snap.info = r.snap.info /\ x.snap.statuses = version[r.cwd]
      BY <2>1, <2>2, <2>3
    <3>. HIDE DEF x
    <3>. QED
      BY <2>4, <3>1, <3>2, RefreshReads
  <2>7. CASE Gv!AsksForUnpushed(r)
    <3>. DEFINE x == [r EXCEPT !.more = TRUE]
    <3>1. reading' = (reading \ {r}) \cup {x}
      BY <2>7 DEF Gv!AsksForUnpushed
    <3>2. x \in GitReading /\ x.gen = r.gen /\ x.cwd = r.cwd /\ x.snap = r.snap
      BY <2>1, <2>2, <2>3
    <3>. HIDE DEF x
    <3>. QED
      BY <2>4, <3>1, <3>2, RefreshReads
  <2>. QED
    BY <1>10, <2>5, <2>6, <2>7
<1>. QED
  BY <1>3, <1>4, <1>6, <1>8, <1>9, <1>10, RefreshEnds DEF GitNext, Gv!Next

\* The Git view begins with nothing read.
LEMMA ViewBegins ==
  ASSUME Gv!Init
  PROVE  ViewInv
<1>1. Gv!NoSnapshot \in Halves /\ Gv!NoSnapshot.info = 0 /\ Gv!NoSnapshot.statuses = 0
  BY DEF Gv!NoSnapshot, Gv!Unread, Halves
<1>2. Gv!Blank \in [cwd : Cwds \cup {NoCwd}, snap : Halves] /\ Gv!Blank.cwd \notin Cwds
  BY <1>1, CwdAssumption DEF Gv!Blank
<1>3. ViewTypes
  BY <1>1, <1>2 DEF Gv!Init, ViewTypes
<1>4. ReadInThePast
  BY <1>1, <1>2 DEF Gv!Init, ReadInThePast, OfThePast
<1>. QED
  BY <1>2, <1>3, <1>4 DEF Gv!Init, ViewInv, ShownIsCached, RefreshesAreCounted, LastIsNewest

\* What is on show or remembered of a directory never goes back (gitStore.ts 101-214).
THEOREM NothingGoesBack == Spec => GitViewNeverGoesBack
<1>. DEFINE I == part = "git" => ViewInv
<1>1. Init => I
  BY ViewBegins DEF Init
<1>2. I /\ [Next]_vars => I'
  BY PartsStep, ViewStep
<1>3. I /\ [Next]_vars => [part = "git" => Gv!KeepsUp]_vars
  BY PartsStep, ViewStep
<1>. HIDE DEF I
<1>. QED
  BY <1>1, <1>2, <1>3, PTL DEF Spec, GitViewNeverGoesBack


-----------------------------------------------------------------------------
\* Every nonempty set of numbers has a least element.
LEMMA LeastNumber ==
  ASSUME NEW S \in SUBSET Nat, S # {}
  PROVE  \E n \in S : \A m \in S : n <= m
<1>. DEFINE Less == OpToRel(<, Nat)
<1>1. \E n \in S : \A m \in S : ~ (<<m, n>> \in Less)
  BY NatLessThanWellFounded, WFMin
<1>2. \A n, m \in Nat : m < n => <<m, n>> \in Less
  BY DEF OpToRel
<1>. HIDE DEF Less
<1>3. PICK n \in S : \A m \in S : ~ (<<m, n>> \in Less)
  BY <1>1
<1>4. \A m \in S : ~ (m < n)
  BY <1>2, <1>3
<1>. QED
  BY <1>4

\* A sequence without its i-th element.
LEMMA WithoutElement ==
  ASSUME NEW S, NEW s \in Seq(S), NEW i \in DOMAIN s
  PROVE  /\ Ed!RemoveAt(s, i) \in Seq(S) /\ Len(Ed!RemoveAt(s, i)) = Len(s) - 1
         /\ \A k \in 1..(Len(s) - 1) : Ed!RemoveAt(s, i)[k] = IF k < i THEN s[k] ELSE s[k + 1]
<1>. DEFINE n == Len(s)
            a == SubSeq(s, 1, i - 1)
            b == SubSeq(s, i + 1, n)
<1>1. n \in Nat /\ i \in 1..n /\ DOMAIN s = 1..n
  OBVIOUS
<1>2. a = [k \in 1..(i - 1) |-> s[k]] /\ b = [k \in 1..(n - i) |-> s[k + i]]
  BY <1>1
<1>3. a \in Seq(S) /\ Len(a) = i - 1 /\ b \in Seq(S) /\ Len(b) = n - i
  BY <1>1, <1>2
<1>4. Ed!RemoveAt(s, i) = a \o b
  BY DEF Ed!RemoveAt
<1>5. (\A k \in 1..(i - 1) : a[k] = s[k]) /\ \A k \in 1..(n - i) : b[k] = s[k + i]
  BY <1>2
<1>. HIDE DEF n, a, b
<1>6. a \o b \in Seq(S)
  BY <1>3
<1>7. Len(a \o b) = n - 1
  BY <1>1, <1>3
<1>8. ASSUME NEW k \in 1..(n - 1) PROVE (a \o b)[k] = IF k < i THEN s[k] ELSE s[k + 1]
  <2>1. (a \o b)[k] = IF k <= Len(a) THEN a[k] ELSE b[k - Len(a)]
    BY <1>1, <1>3
  <2>2. CASE k < i
    BY <1>1, <1>3, <1>5, <2>1, <2>2
  <2>3. CASE ~(k < i)
    <3>1. k - (i - 1) \in 1..(n - i) /\ k - (i - 1) + i = k + 1
      BY <1>1, <2>3
    <3>2. (a \o b)[k] = b[k - (i - 1)]
      BY <1>1, <1>3, <2>1, <2>3
    <3>. QED
      BY <1>5, <2>3, <3>1, <3>2
  <2>. QED
    BY <2>2, <2>3
<1>. QED
  BY <1>4, <1>6, <1>7, <1>8 DEF n

\* A sequence with e put in at i.
LEMMA WithElement ==
  ASSUME NEW S, NEW s \in Seq(S), NEW i \in 1..(Len(s) + 1), NEW e \in S
  PROVE  /\ Ed!InsertAt(s, i, e) \in Seq(S) /\ Len(Ed!InsertAt(s, i, e)) = Len(s) + 1
         /\ \A k \in 1..(Len(s) + 1) :
              Ed!InsertAt(s, i, e)[k] = IF k < i THEN s[k] ELSE IF k = i THEN e ELSE s[k - 1]
<1>. DEFINE n == Len(s)
            a == SubSeq(s, 1, i - 1)
            b == SubSeq(s, i, n)
            c == a \o <<e>>
<1>1. n \in Nat /\ i \in 1..(n + 1) /\ DOMAIN s = 1..n
  OBVIOUS
<1>2. a = [k \in 1..(i - 1) |-> s[k]] /\ b = [k \in 1..(n + 1 - i) |-> s[k + i - 1]]
  BY <1>1
<1>3. a \in Seq(S) /\ Len(a) = i - 1 /\ b \in Seq(S) /\ Len(b) = n + 1 - i
  BY <1>1, <1>2
<1>4. Ed!InsertAt(s, i, e) = c \o b
  BY DEF Ed!InsertAt
<1>5. (\A k \in 1..(i - 1) : a[k] = s[k]) /\ \A k \in 1..(n + 1 - i) : b[k] = s[k + i - 1]
  BY <1>2
<1>. HIDE DEF n, a, b
<1>6. c \in Seq(S) /\ Len(c) = i /\ c[i] = e /\ \A k \in 1..(i - 1) : c[k] = a[k]
  BY <1>1, <1>3
<1>. HIDE DEF c
<1>7. c \o b \in Seq(S)
  BY <1>3, <1>6
<1>8. Len(c \o b) = n + 1
  <2>1. c \in Seq(S) /\ b \in Seq(S)
    BY <1>3, <1>6
  <2>2. Len(c \o b) = Len(c) + Len(b)
    BY <2>1
  <2>3. Len(c) = i /\ Len(b) = n + 1 - i
    BY <1>3, <1>6
  <2>. QED
    BY <1>1, <2>2, <2>3
<1>9. ASSUME NEW k \in 1..(n + 1) PROVE (c \o b)[k] = IF k < i THEN s[k] ELSE IF k = i THEN e ELSE s[k - 1]
  <2>1. (c \o b)[k] = IF k <= Len(c) THEN c[k] ELSE b[k - Len(c)]
    BY <1>1, <1>3, <1>6
  <2>2. CASE k < i
    BY <1>1, <1>5, <1>6, <2>1, <2>2
  <2>3. CASE k = i
    BY <1>1, <1>6, <2>1, <2>3
  <2>4. CASE k > i
    <3>1. k - i \in 1..(n + 1 - i) /\ k - i + i - 1 = k - 1 /\ ~(k <= i)
      BY <1>1, <2>4
    <3>2. (c \o b)[k] = b[k - i]
      BY <1>6, <2>1, <3>1
    <3>. QED
      BY <1>5, <2>4, <3>1, <3>2
  <2>5. k < i \/ k = i \/ k > i
    BY <1>1
  <2>6. k > i => ~(k < i) /\ k # i
    BY <1>1
  <2>. QED
    BY <1>1, <2>2, <2>3, <2>4, <2>5, <2>6
<1>. QED
  BY <1>4, <1>7, <1>8, <1>9 DEF n

\* A text, and a tab.
EdText == File \X Nat
EdTab == [path : File, content : EdText, originalContent : EdText]

\* The tabs and the one shown.
TabsInv ==
  /\ editorTabs \in Seq(EdTab) /\ activeIndex \in Nat \ {0}
  /\ Ed!OneTabPerFile

\* What is read and written.
IoTypes ==
  /\ texts \in Nat /\ editorDisk \in [File -> EdText]
  /\ \A r \in reads : r.path \in File /\ r.text \in EdText
  /\ \A w \in writes : w.text \in EdText

\* The place of a file is that of its tab.
LEMMA PlaceOfAFile ==
  ASSUME TabsInv, NEW f
  PROVE  /\ Ed!Index(f) = 0 => \A i \in DOMAIN editorTabs : editorTabs[i].path # f
         /\ Ed!Index(f) # 0 => Ed!Index(f) \in DOMAIN editorTabs
<1>. DEFINE I == {i \in 1..Len(editorTabs) : editorTabs[i].path = f}
<1>1. DOMAIN editorTabs = 1..Len(editorTabs)
  BY DEF TabsInv
<1>2. Ed!Index(f) = IF I # {} THEN CHOOSE x \in I : \A y \in I : x <= y ELSE 0
  BY DEF Ed!Index, Ed!SelectInSeq, Ed!Min
<1>3. CASE I = {}
  BY <1>1, <1>2, <1>3
<1>4. CASE I # {}
  <2>1. I \in SUBSET Nat
    OBVIOUS
  <2>2. \E x \in I : \A y \in I : x <= y
    BY <1>4, <2>1, LeastNumber
  <2>3. Ed!Index(f) \in I
    BY <1>2, <1>4, <2>2
  <2>. QED
    BY <1>1, <2>3
<1>. QED
  BY <1>3, <1>4

\* Closing a tab.
LEMMA ATabCloses ==
  ASSUME TabsInv, NEW i \in DOMAIN editorTabs, Ed!closeTab(i)
  PROVE  TabsInv'
<1>. DEFINE n == Len(editorTabs)
<1>1. /\ editorTabs \in Seq(EdTab) /\ activeIndex \in Nat \ {0} /\ n \in Nat
      /\ DOMAIN editorTabs = 1..n /\ i \in 1..n /\ activeIndex \in 1..n
      /\ \A k, l \in 1..n : editorTabs[k].path = editorTabs[l].path => k = l
  BY DEF TabsInv, Ed!OneTabPerFile
<1>2. /\ editorTabs' \in Seq(EdTab) /\ Len(editorTabs') = n - 1
      /\ \A k \in 1..(n - 1) : editorTabs'[k] = IF k < i THEN editorTabs[k] ELSE editorTabs[k + 1]
  BY <1>1, WithoutElement DEF Ed!closeTab
<1>3. activeIndex' = IF i <= activeIndex THEN Ed!Atop(activeIndex - 1) ELSE activeIndex
  BY DEF Ed!closeTab
<1>. HIDE DEF n
<1>4. DOMAIN editorTabs' = 1..(n - 1)
  BY <1>2
<1>5. activeIndex' \in Nat \ {0} /\ (n > 1 => activeIndex' \in 1..(n - 1))
  BY <1>1, <1>3 DEF Ed!Atop
<1>6. editorTabs' # <<>> => n > 1
  BY <1>1, <1>2
<1>7. ASSUME NEW k \in 1..(n - 1), NEW l \in 1..(n - 1), editorTabs'[k].path = editorTabs'[l].path
      PROVE  k = l
  BY <1>1, <1>2, <1>7
<1>. QED
  BY <1>2, <1>4, <1>5, <1>6, <1>7 DEF TabsInv, Ed!OneTabPerFile

\* Closing all others, and those to the right.
LEMMA OtherTabsClose ==
  ASSUME TabsInv, NEW i \in DOMAIN editorTabs, Ed!closeOthers(i) \/ Ed!closeToRight(i)
  PROVE  TabsInv'
<1>. DEFINE n == Len(editorTabs)
<1>1. /\ editorTabs \in Seq(EdTab) /\ activeIndex \in Nat \ {0} /\ n \in Nat
      /\ DOMAIN editorTabs = 1..n /\ i \in 1..n /\ activeIndex \in 1..n
      /\ \A k, l \in 1..n : editorTabs[k].path = editorTabs[l].path => k = l
  BY DEF TabsInv, Ed!OneTabPerFile
<1>2. CASE Ed!closeOthers(i)
  <2>1. editorTabs' = <<editorTabs[i]>> /\ activeIndex' = 1
    BY <1>2 DEF Ed!closeOthers
  <2>2. editorTabs' \in Seq(EdTab) /\ DOMAIN editorTabs' = 1..1
    BY <1>1, <2>1
  <2>. QED
    BY <2>1, <2>2 DEF TabsInv, Ed!OneTabPerFile
<1>3. CASE Ed!closeToRight(i)
  <2>1. editorTabs' = [k \in 1..i |-> editorTabs[k]]
    BY <1>1, <1>3 DEF Ed!closeToRight
  <2>2. activeIndex' = IF activeIndex < i THEN activeIndex ELSE i
    BY <1>3 DEF Ed!closeToRight
  <2>3. editorTabs' \in Seq(EdTab) /\ DOMAIN editorTabs' = 1..i /\ \A k \in 1..i : editorTabs'[k] = editorTabs[k] /\ k \in 1..n
    BY <1>1, <2>1
  <2>4. activeIndex' \in 1..i /\ activeIndex' \in Nat \ {0}
    BY <1>1, <2>2
  <2>. HIDE DEF n
  <2>. QED
    BY <1>1, <2>3, <2>4 DEF TabsInv, Ed!OneTabPerFile
<1>. QED
  BY <1>2, <1>3

\* Moving a tab.
LEMMA ATabMoves ==
  ASSUME TabsInv, NEW i \in DOMAIN editorTabs, NEW j \in DOMAIN editorTabs, Ed!moveTab(i, j)
  PROVE  TabsInv'
<1>. DEFINE n == Len(editorTabs)
            t == Ed!RemoveAt(editorTabs, i)
            e == editorTabs[i]
<1>. HIDE DEF t, e
<1>1. /\ editorTabs \in Seq(EdTab) /\ activeIndex \in Nat \ {0} /\ n \in Nat
      /\ DOMAIN editorTabs = 1..n /\ i \in 1..n /\ j \in 1..n /\ activeIndex \in 1..n
      /\ \A k, l \in 1..n : editorTabs[k].path = editorTabs[l].path => k = l
  BY DEF TabsInv, Ed!OneTabPerFile
<1>2. /\ t \in Seq(EdTab) /\ Len(t) = n - 1
      /\ \A k \in 1..(n - 1) : t[k] = IF k < i THEN editorTabs[k] ELSE editorTabs[k + 1]
  <2>1. /\ Ed!RemoveAt(editorTabs, i) \in Seq(EdTab) /\ Len(Ed!RemoveAt(editorTabs, i)) = Len(editorTabs) - 1
        /\ \A k \in 1..(Len(editorTabs) - 1) :
             Ed!RemoveAt(editorTabs, i)[k] = IF k < i THEN editorTabs[k] ELSE editorTabs[k + 1]
    <3>1. editorTabs \in Seq(EdTab) /\ i \in DOMAIN editorTabs
      BY <1>1
    <3>. QED
      BY <3>1, WithoutElement, Zenon
  <2>. QED
    BY <2>1 DEF t
<1>3. editorTabs' = Ed!InsertAt(t, j, e)
  BY DEF Ed!moveTab, t, e
<1>4. activeIndex' = CASE i = activeIndex -> j
                       [] i < activeIndex /\ j >= activeIndex -> activeIndex - 1
                       [] i > activeIndex /\ j <= activeIndex -> activeIndex + 1
                       [] OTHER -> activeIndex
  BY DEF Ed!moveTab
<1>. HIDE DEF n, t, e
<1>5. j \in 1..(Len(t) + 1) /\ Len(t) + 1 = n /\ e \in EdTab
  BY <1>1, <1>2 DEF e
<1>6. /\ editorTabs' \in Seq(EdTab) /\ Len(editorTabs') = n
      /\ \A k \in 1..n : editorTabs'[k] = IF k < j THEN t[k] ELSE IF k = j THEN e ELSE t[k - 1]
  <2>1. /\ Ed!InsertAt(t, j, e) \in Seq(EdTab) /\ Len(Ed!InsertAt(t, j, e)) = Len(t) + 1
        /\ \A k \in 1..(Len(t) + 1) :
             Ed!InsertAt(t, j, e)[k] = IF k < j THEN t[k] ELSE IF k = j THEN e ELSE t[k - 1]
    <3>1. t \in Seq(EdTab) /\ j \in 1..(Len(t) + 1) /\ e \in EdTab
      BY <1>2, <1>5
    <3>2. Ed!InsertAt(t, j, e) \in Seq(EdTab)
      BY <3>1, WithElement
    <3>3. Len(Ed!InsertAt(t, j, e)) = Len(t) + 1
      BY <3>1, WithElement
    <3>4. \A k \in 1..(Len(t) + 1) :
            Ed!InsertAt(t, j, e)[k] = IF k < j THEN t[k] ELSE IF k = j THEN e ELSE t[k - 1]
      <4>1. ASSUME NEW k \in 1..(Len(t) + 1)
            PROVE  Ed!InsertAt(t, j, e)[k] = IF k < j THEN t[k] ELSE IF k = j THEN e ELSE t[k - 1]
        BY <3>1, WithElement, SMTT(60)
      <4>. QED
        BY <4>1
    <3>. QED
      BY <3>2, <3>3, <3>4
  <2>. QED
    BY <1>3, <1>5, <2>1
<1>7. DOMAIN editorTabs' = 1..n
  BY <1>6
<1>8. activeIndex' \in 1..n /\ activeIndex' \in Nat \ {0}
  BY <1>1, <1>4
<1>. DEFINE from(k) == IF k = j THEN i
                       ELSE LET m == IF k < j THEN k ELSE k - 1
                            IN  IF m < i THEN m ELSE m + 1
<1>9. ASSUME NEW k \in 1..n PROVE from(k) \in 1..n /\ editorTabs'[k] = editorTabs[from(k)]
  <2>1. CASE k < j
    <3>1. k \in 1..(n - 1) /\ k # j
      BY <1>1, <2>1
    <3>2. editorTabs'[k] = t[k] /\ from(k) = IF k < i THEN k ELSE k + 1
      BY <1>6, <2>1, <3>1
    <3>. QED
      BY <1>1, <1>2, <3>1, <3>2
  <2>2. CASE k = j
    BY <1>1, <1>6, <2>2 DEF e
  <2>3. CASE k > j
    <3>1. k - 1 \in 1..(n - 1) /\ k # j /\ ~(k < j) /\ k - 1 + 1 = k
      BY <1>1, <2>3
    <3>2. editorTabs'[k] = t[k - 1] /\ from(k) = IF k - 1 < i THEN k - 1 ELSE k
      BY <1>6, <3>1
    <3>. QED
      BY <1>1, <1>2, <3>1, <3>2
  <2>. QED
    BY <1>1, <2>1, <2>2, <2>3
<1>10. ASSUME NEW k \in 1..n, NEW l \in 1..n, from(k) = from(l) PROVE k = l
  BY <1>1, <1>10
<1>. HIDE DEF from
<1>11. ASSUME NEW k \in 1..n, NEW l \in 1..n, editorTabs'[k].path = editorTabs'[l].path
       PROVE  k = l
  BY <1>1, <1>9, <1>10, <1>11
<1>. QED
  BY <1>6, <1>7, <1>8, <1>11 DEF TabsInv, Ed!OneTabPerFile

\* A file that has been read gets a tab, unless it has one.
LEMMA ATabOpens ==
  ASSUME TabsInv, NEW r, r.path \in File, r.text \in EdText, Ed!openTab(r)
  PROVE  TabsInv'
<1>. DEFINE n == Len(editorTabs)
            e == [path |-> r.path, content |-> r.text, originalContent |-> r.text]
<1>1. /\ editorTabs \in Seq(EdTab) /\ activeIndex \in Nat \ {0} /\ n \in Nat /\ DOMAIN editorTabs = 1..n
      /\ \A k, l \in 1..n : editorTabs[k].path = editorTabs[l].path => k = l
  BY DEF TabsInv, Ed!OneTabPerFile
<1>2. CASE Ed!Index(r.path) # 0
  <2>1. activeIndex' \in DOMAIN editorTabs /\ editorTabs' = editorTabs
    BY <1>2, PlaceOfAFile DEF Ed!openTab
  <2>. QED
    BY <1>1, <2>1 DEF TabsInv, Ed!OneTabPerFile
<1>3. CASE Ed!Index(r.path) = 0
  <2>1. editorTabs' = Append(editorTabs, e) /\ activeIndex' = Len(editorTabs')
    BY <1>3 DEF Ed!openTab, Ed!openTabUnchecked
  <2>2. \A k \in 1..n : editorTabs[k].path # r.path
    BY <1>1, <1>3, PlaceOfAFile
  <2>3. e \in EdTab /\ e.path = r.path
    BY DEF EdTab
  <2>. HIDE DEF e
  <2>4. /\ editorTabs' \in Seq(EdTab) /\ Len(editorTabs') = n + 1 /\ editorTabs'[n + 1] = e
        /\ \A k \in 1..n : editorTabs'[k] = editorTabs[k]
    BY <1>1, <2>1, <2>3
  <2>. HIDE DEF n
  <2>5. DOMAIN editorTabs' = 1..(n + 1) /\ activeIndex' \in Nat \ {0} /\ activeIndex' \in 1..(n + 1)
    BY <1>1, <2>1, <2>4
  <2>6. ASSUME NEW k \in 1..(n + 1), NEW l \in 1..(n + 1), editorTabs'[k].path = editorTabs'[l].path
        PROVE  k = l
    BY <1>1, <2>2, <2>3, <2>4, <2>6
  <2>. QED
    BY <2>4, <2>5, <2>6 DEF TabsInv, Ed!OneTabPerFile
<1>. QED
  BY <1>2, <1>3

\* A tab is given texts.
LEMMA TextsAreSet ==
  ASSUME TabsInv, NEW i \in DOMAIN editorTabs, NEW x \in EdText,
         UNCHANGED activeIndex,
         \/ editorTabs' = [editorTabs EXCEPT ![i].content = x]
         \/ editorTabs' = [editorTabs EXCEPT ![i].originalContent = x]
         \/ editorTabs' = [editorTabs EXCEPT ![i].content = x, ![i].originalContent = x]
  PROVE  TabsInv'
<1>1. editorTabs \in Seq(EdTab) /\ editorTabs[i] \in EdTab
  BY DEF TabsInv
<1>2. ASSUME NEW t \in EdTab
      PROVE  /\ [t EXCEPT !.content = x] \in EdTab /\ [t EXCEPT !.content = x].path = t.path
             /\ [t EXCEPT !.originalContent = x] \in EdTab
             /\ [t EXCEPT !.originalContent = x].path = t.path
  BY DEF EdTab
<1>3. ASSUME NEW s \in Seq(EdTab), i \in DOMAIN s
      PROVE  /\ [s EXCEPT ![i].content = x] = [s EXCEPT ![i] = [s[i] EXCEPT !.content = x]]
             /\ [s EXCEPT ![i].originalContent = x] = [s EXCEPT ![i] = [s[i] EXCEPT !.originalContent = x]]
             /\ s[i] \in EdTab
  BY <1>3
<1>4. ASSUME NEW s \in Seq(EdTab), i \in DOMAIN s, NEW t \in EdTab
      PROVE  /\ [s EXCEPT ![i] = t] \in Seq(EdTab) /\ DOMAIN [s EXCEPT ![i] = t] = DOMAIN s
             /\ [s EXCEPT ![i] = t][i] = t
             /\ \A k \in DOMAIN s : k # i => [s EXCEPT ![i] = t][k] = s[k]
  BY <1>4
<1>5. ASSUME NEW s \in Seq(EdTab), i \in DOMAIN s, NEW t \in EdTab, t.path = s[i].path
      PROVE  \A k \in DOMAIN s : [s EXCEPT ![i] = t][k].path = s[k].path
  BY <1>4, <1>5
<1>. DEFINE WithContent(s) == [s EXCEPT ![i].content = x]
            WithOriginal(s) == [s EXCEPT ![i].originalContent = x]
            SamePaths(s, u) == /\ u \in Seq(EdTab) /\ DOMAIN u = DOMAIN s
                               /\ \A k \in DOMAIN s : u[k].path = s[k].path
<1>6. ASSUME NEW s \in Seq(EdTab), i \in DOMAIN s
      PROVE  SamePaths(s, WithContent(s)) /\ SamePaths(s, WithOriginal(s))
  <2>. DEFINE a == [s[i] EXCEPT !.content = x]
              b == [s[i] EXCEPT !.originalContent = x]
  <2>1. s[i] \in EdTab
    BY <1>6
  <2>2. a \in EdTab /\ a.path = s[i].path /\ b \in EdTab /\ b.path = s[i].path
    BY <1>2, <2>1
  <2>3. WithContent(s) = [s EXCEPT ![i] = a] /\ WithOriginal(s) = [s EXCEPT ![i] = b]
    BY <1>3, <1>6
  <2>. HIDE DEF a, b, WithContent, WithOriginal
  <2>. QED
    BY <1>4, <1>5, <1>6, <2>2, <2>3
<1>7. SamePaths(editorTabs, editorTabs')
  <2>1. \/ editorTabs' = WithContent(editorTabs) \/ editorTabs' = WithOriginal(editorTabs)
        \/ editorTabs' = WithOriginal(WithContent(editorTabs))
    BY Zenon
  <2>. DEFINE q == WithContent(editorTabs)
  <2>. HIDE DEF WithContent, WithOriginal
  <2>2. SamePaths(editorTabs, q) /\ SamePaths(editorTabs, WithOriginal(editorTabs))
    BY <1>1, <1>6
  <2>3. q \in Seq(EdTab) /\ i \in DOMAIN q
    BY <2>2
  <2>4. editorTabs' = q \/ editorTabs' = WithOriginal(editorTabs) \/ editorTabs' = WithOriginal(q)
    BY <2>1
  <2>. HIDE DEF q
  <2>5. SamePaths(q, WithOriginal(q))
    BY <1>6, <2>3
  <2>. QED
    BY <2>2, <2>4, <2>5
<1>8. editorTabs' # <<>> => editorTabs # <<>>
  BY <1>1, <1>7
<1>. QED
  BY <1>7, <1>8 DEF TabsInv, Ed!OneTabPerFile

\* The inductive invariant of the editor.
EditorInv == TabsInv /\ IoTypes

\* Every step of the editor leaves a file one tab.
LEMMA EditorStep ==
  ASSUME EditorInv, EditorNext
  PROVE  EditorInv'
<1>1. TabsInv /\ IoTypes
  BY DEF EditorInv
<1>2. /\ editorTabs \in Seq(EdTab) /\ activeIndex \in Nat \ {0}
      /\ \A i \in DOMAIN editorTabs : i \in Nat \ {0} /\ editorTabs[i] \in EdTab
  BY <1>1 DEF TabsInv
<1>3. \A i \in DOMAIN editorTabs : editorTabs[i].path \in File /\ editorTabs[i].content \in EdText
  BY <1>2 DEF EdTab
<1>4. /\ texts \in Nat /\ editorDisk \in [File -> EdText]
      /\ \A r \in reads : r.path \in File /\ r.text \in EdText
      /\ \A w \in writes : w.text \in EdText
  BY <1>1 DEF IoTypes
<1>5. ASSUME UNCHANGED <<texts, editorDisk, writes>>, NEW N, reads' = reads \cup N,
             \A r \in N : r.path \in File /\ r.text = editorDisk[r.path]
      PROVE  IoTypes'
  BY <1>4, <1>5 DEF IoTypes
<1>6. ASSUME NEW f \in File, NEW i
      PROVE  Ed!Reading(f, i).path = f /\ Ed!Reading(f, i).text = editorDisk[f]
  BY DEF Ed!Reading
<1>7. ASSUME UNCHANGED <<texts, editorDisk, reads, writes>>
      PROVE  IoTypes'
  BY <1>4, <1>7 DEF IoTypes
<1>8. ASSUME UNCHANGED editorTabs, activeIndex' = activeIndex \/ activeIndex' \in DOMAIN editorTabs
      PROVE  TabsInv'
  BY <1>1, <1>2, <1>8 DEF TabsInv, Ed!OneTabPerFile
<1>9. ASSUME NEW f \in File, Ed!Open(f)
      PROVE  EditorInv'
  <2>. DEFINE i == Ed!Index(f)
  <2>1. /\ UNCHANGED <<editorTabs, editorDisk, texts, writes>>
        /\ \/ i = 0 /\ reads' = reads \cup {Ed!Reading(f, 0)} /\ UNCHANGED activeIndex
           \/ i # 0 /\ activeIndex' = i /\ (reads' = reads \cup {Ed!Reading(f, i)} \/ reads' = reads)
    BY <1>9 DEF Ed!Open
  <2>2. i # 0 => i \in DOMAIN editorTabs
    BY <1>1, PlaceOfAFile
  <2>. HIDE DEF i
  <2>3. TabsInv'
    BY <1>8, <2>1, <2>2
  <2>4. CASE reads' = reads
    BY <1>7, <2>1, <2>3, <2>4 DEF EditorInv
  <2>5. ASSUME NEW k, reads' = reads \cup {Ed!Reading(f, k)}
        PROVE  IoTypes'
    <3>. DEFINE N == {Ed!Reading(f, k)}
    <3>1. \A r \in N : r.path \in File /\ r.text = editorDisk[r.path]
      BY <1>6
    <3>2. reads' = reads \cup N
      BY <2>5
    <3>. HIDE DEF N
    <3>. QED
      BY <1>5, <2>1, <3>1, <3>2
  <2>. QED
    BY <2>1, <2>3, <2>4, <2>5 DEF EditorInv
<1>10. CASE Ed!Focus
  <2>. DEFINE N == {Ed!Reading(editorTabs[i].path, i) : i \in {i \in DOMAIN editorTabs : ~Ed!isDirty(editorTabs[i])}}
  <2>1. UNCHANGED <<editorTabs, activeIndex, editorDisk, texts, writes>> /\ reads' = reads \cup N
    BY <1>10 DEF Ed!Focus
  <2>2. \A r \in N : r.path \in File /\ r.text = editorDisk[r.path]
    BY <1>3, <1>6
  <2>. HIDE DEF N
  <2>. QED
    BY <1>5, <1>8, <2>1, <2>2 DEF EditorInv
<1>11. ASSUME NEW i \in DOMAIN editorTabs, Ed!Show(i)
       PROVE  EditorInv'
  <2>1. UNCHANGED <<editorTabs, editorDisk, texts, writes>> /\ activeIndex' = i
    BY <1>11 DEF Ed!Show
  <2>2. reads' = reads \/ reads' = reads \cup {Ed!Reading(editorTabs[i].path, i)}
    BY <1>11 DEF Ed!Show
  <2>3. TabsInv'
    BY <1>8, <2>1
  <2>4. IoTypes'
    <3>. DEFINE N == {Ed!Reading(editorTabs[i].path, i)}
    <3>1. \A r \in N : r.path \in File /\ r.text = editorDisk[r.path]
      BY <1>3, <1>6
    <3>2. reads' = reads \/ reads' = reads \cup N
      BY <2>2
    <3>. HIDE DEF N
    <3>. QED
      BY <1>5, <1>7, <2>1, <3>1, <3>2
  <2>. QED
    BY <2>3, <2>4 DEF EditorInv
<1>12. ASSUME NEW r \in reads, Ed!ReadEnds(r)
       PROVE  EditorInv'
  <2>1. reads' = reads \ {r} /\ UNCHANGED <<texts, editorDisk, writes>>
    BY <1>12 DEF Ed!ReadEnds
  <2>2. IoTypes'
    BY <1>4, <2>1 DEF IoTypes
  <2>3. CASE Ed!openTab(r)
    BY <1>1, <1>4, <2>2, <2>3, ATabOpens DEF EditorInv
  <2>4. CASE Ed!Reload(r)
    <3>1. CASE r.at \in DOMAIN editorTabs
      <4>1. /\ editorTabs' = [editorTabs EXCEPT ![r.at].content = r.text, ![r.at].originalContent = r.text]
            /\ UNCHANGED activeIndex
        BY <2>4, <3>1 DEF Ed!Reload
      <4>2. r.text \in EdText
        BY <1>4
      <4>. QED
        BY <1>1, <2>2, <3>1, <4>1, <4>2, TextsAreSet DEF EditorInv
    <3>2. CASE r.at \notin DOMAIN editorTabs
      BY <1>8, <2>2, <2>4, <3>2 DEF Ed!Reload, EditorInv
    <3>. QED
      BY <3>1, <3>2
  <2>5. CASE UNCHANGED <<editorTabs, activeIndex>>
    BY <1>8, <2>2, <2>5 DEF EditorInv
  <2>. QED
    BY <1>12, <2>3, <2>4, <2>5 DEF Ed!ReadEnds
<1>13. CASE Ed!FromMenu
  <2>1. UNCHANGED <<texts, editorDisk, reads, writes>>
    BY <1>13 DEF Ed!FromMenu, Ed!ioVars
  <2>2. CASE menu \in DOMAIN editorTabs /\ (Ed!closeTab(menu) \/ Ed!closeOthers(menu) \/ Ed!closeToRight(menu))
    BY <1>1, <1>7, <2>1, <2>2, ATabCloses, OtherTabsClose DEF EditorInv
  <2>3. CASE UNCHANGED <<editorTabs, activeIndex>>
    BY <1>7, <1>8, <2>1, <2>3 DEF EditorInv
  <2>. QED
    BY <1>13, <2>2, <2>3 DEF Ed!FromMenu
<1>14. ASSUME NEW i \in DOMAIN editorTabs, Ed!Close(i)
       PROVE  EditorInv'
  <2>1. Ed!closeTab(i) /\ UNCHANGED <<texts, editorDisk, reads, writes>>
    BY <1>14 DEF Ed!Close, Ed!ioVars
  <2>. QED
    BY <1>1, <1>7, <2>1, ATabCloses DEF EditorInv
<1>15. CASE Ed!CloseAll
  <2>1. editorTabs' = <<>> /\ activeIndex' = 1 /\ UNCHANGED <<texts, editorDisk, reads, writes>>
    BY <1>15 DEF Ed!CloseAll, Ed!ioVars
  <2>2. editorTabs' \in Seq(EdTab) /\ DOMAIN editorTabs' = {}
    BY <2>1
  <2>. QED
    BY <1>7, <2>1, <2>2 DEF EditorInv, TabsInv, Ed!OneTabPerFile
<1>16. ASSUME NEW i \in DOMAIN editorTabs, NEW j \in DOMAIN editorTabs, Ed!Drop(i, j)
       PROVE  EditorInv'
  <2>1. Ed!moveTab(i, j) /\ UNCHANGED <<texts, editorDisk, reads, writes>>
    BY <1>16 DEF Ed!Drop, Ed!ioVars
  <2>. QED
    BY <1>1, <1>7, <2>1, ATabMoves DEF EditorInv
<1>17. CASE Ed!Change
  <2>. DEFINE x == <<editorTabs[activeIndex].path, texts'>>
  <2>1. /\ activeIndex \in DOMAIN editorTabs /\ texts' = texts + 1
        /\ editorTabs' = [editorTabs EXCEPT ![activeIndex].content = x]
        /\ UNCHANGED <<activeIndex, editorDisk, reads, writes>>
    BY <1>17 DEF Ed!Change, Ed!ioVars
  <2>2. x \in EdText /\ texts' \in Nat
    BY <1>3, <1>4, <2>1 DEF EdText
  <2>. HIDE DEF x
  <2>3. TabsInv'
    BY <1>1, <2>1, <2>2, TextsAreSet
  <2>4. IoTypes'
    BY <1>4, <2>1, <2>2 DEF IoTypes
  <2>. QED
    BY <2>3, <2>4 DEF EditorInv
<1>18. ASSUME NEW w \in writes, Ed!WriteEnds(w)
       PROVE  EditorInv'
  <2>1. UNCHANGED <<activeIndex, reads, texts>>
    BY <1>18 DEF Ed!WriteEnds
  <2>2. TabsInv'
    <3>1. CASE Ed!markSaved(w.at) /\ w.at \in DOMAIN editorTabs
      <4>. DEFINE x == editorTabs[w.at].content
      <4>1. editorTabs' = [editorTabs EXCEPT ![w.at].originalContent = x]
        BY <3>1 DEF Ed!markSaved
      <4>2. x \in EdText
        BY <1>3, <3>1
      <4>. HIDE DEF x
      <4>. QED
        BY <1>1, <2>1, <3>1, <4>1, <4>2, TextsAreSet
    <3>2. CASE UNCHANGED editorTabs
      BY <1>8, <2>1, <3>2
    <3>. QED
      BY <1>18, <3>1, <3>2 DEF Ed!WriteEnds, Ed!markSaved
  <2>3. editorDisk' \in [File -> EdText] /\ writes' = writes \ {w}
    BY <1>4, <1>18 DEF Ed!WriteEnds
  <2>. QED
    BY <1>4, <2>1, <2>2, <2>3 DEF EditorInv, IoTypes
<1>19. ASSUME NEW f \in File, Ed!Outside(f)
       PROVE  EditorInv'
  <2>1. /\ UNCHANGED <<editorTabs, activeIndex, reads, writes>> /\ texts' = texts + 1
        /\ editorDisk' = [editorDisk EXCEPT ![f] = <<f, texts'>>]
    BY <1>19 DEF Ed!Outside
  <2>2. texts' \in Nat /\ <<f, texts'>> \in EdText
    BY <1>4, <2>1 DEF EdText
  <2>3. IoTypes'
    BY <1>4, <2>1, <2>2 DEF IoTypes
  <2>. QED
    BY <1>8, <2>1, <2>3 DEF EditorInv
<1>20. ASSUME NEW i \in DOMAIN editorTabs, Ed!Write(i), UNCHANGED <<editorTabs, activeIndex, texts, editorDisk, reads>>
       PROVE  EditorInv'
  <2>. DEFINE w == [path |-> editorTabs[i].path, at |-> i, text |-> editorTabs[i].content]
  <2>1. writes' = writes \cup {w}
    BY <1>20 DEF Ed!Write
  <2>2. w.text \in EdText
    BY <1>3
  <2>. HIDE DEF w
  <2>3. IoTypes'
    BY <1>4, <1>20, <2>1, <2>2 DEF IoTypes
  <2>. QED
    BY <1>8, <1>20, <2>3 DEF EditorInv
<1>21. CASE Ed!AutoSave \/ Ed!Save \/ (\E i \in DOMAIN editorTabs : Ed!OpenMenu(i)) \/ UNCHANGED edVars
  <2>1. UNCHANGED <<editorTabs, activeIndex, texts, editorDisk, reads>>
    BY <1>21 DEF Ed!AutoSave, Ed!Save, Ed!OpenMenu, Ed!ioVars, edVars
  <2>2. UNCHANGED writes \/ \E i \in DOMAIN editorTabs : Ed!Write(i)
    BY <1>21 DEF Ed!AutoSave, Ed!Save, Ed!OpenMenu, Ed!ioVars, edVars
  <2>. QED
    BY <1>7, <1>8, <1>20, <2>1, <2>2 DEF EditorInv
<1>. QED
  BY <1>9, <1>10, <1>11, <1>12, <1>13, <1>14, <1>15, <1>16, <1>17, <1>18, <1>19, <1>21
     DEF EditorNext, Ed!Next, Ed!Steps


-----------------------------------------------------------------------------
\* A search that was started.
SearchRecord ==
  [wanted : [query : Nat, root : Nat, case : BOOLEAN], phase : {"registers", "runs"},
   batches : [Fs!Walk -> Nat], done : [Fs!Walk -> BOOLEAN]]

\* The variables of the search panel have their types.
SearchTypes ==
  /\ inputs \in Nat /\ query \in Nat /\ cwd \in Nat /\ searchRoot \in Nat /\ caseSensitive \in BOOLEAN
  /\ searches \in Seq(SearchRecord) /\ currentChannel \in 0..Len(searches)
  /\ searchTimer \in BOOLEAN
  /\ found \in [Fs!Walk -> SUBSET (Nat \X Nat)]
  /\ isSearching \in [Fs!Walk -> BOOLEAN] /\ firstBatch \in [Fs!Walk -> BOOLEAN]

\* A blank query has no search, and none that is about to start.
BlankIsQuiet == query = 0 => currentChannel = 0 /\ ~searchTimer

\* The first batch is the one before which the current search has sent none.
FirstIsFirst ==
  currentChannel # 0 =>
    \A w \in Fs!Walk : firstBatch[w] <=> searches[currentChannel].batches[w] = 0

\* The inductive invariant of the search panel.
SearchInv == SearchTypes /\ BlankIsQuiet /\ FirstIsFirst /\ Fs!ShowsTheSearch

\* A search starts, for what the panel asks.
LEMMA ASearchStarts ==
  ASSUME SearchInv, Fs!RunSearch, query' # 0,
         inputs' \in Nat, query' \in Nat, cwd' \in Nat, searchRoot' \in Nat, caseSensitive' \in BOOLEAN
  PROVE  SearchInv'
<1>. DEFINE n == Len(searches)
            x == [wanted |-> Fs!Wanted', phase |-> "registers", batches |-> Fs!Every(0), done |-> Fs!Every(FALSE)]
<1>1. SearchTypes
  BY DEF SearchInv
<1>2. /\ ~searchTimer' /\ searches' = Append(searches, x) /\ currentChannel' = Len(searches')
      /\ found' = Fs!Every({}) /\ isSearching' = Fs!Every(TRUE) /\ firstBatch' = Fs!Every(TRUE)
      /\ searchTimer' = FALSE
  BY DEF Fs!RunSearch
<1>3. Fs!Wanted' \in [query : Nat, root : Nat, case : BOOLEAN]
  BY DEF Fs!Wanted
<1>4. /\ Fs!Every(0) \in [Fs!Walk -> Nat] /\ Fs!Every(FALSE) \in [Fs!Walk -> BOOLEAN]
      /\ Fs!Every(TRUE) \in [Fs!Walk -> BOOLEAN] /\ Fs!Every({}) \in [Fs!Walk -> SUBSET (Nat \X Nat)]
  BY DEF Fs!Every
<1>5. \A w \in Fs!Walk : /\ Fs!Every(0)[w] = 0 /\ ~Fs!Every(FALSE)[w]
                         /\ Fs!Every(TRUE)[w] /\ Fs!Every({})[w] = {}
  BY DEF Fs!Every
<1>6. /\ x \in SearchRecord /\ x.wanted = Fs!Wanted'
      /\ x.batches = Fs!Every(0) /\ x.done = Fs!Every(FALSE)
  BY <1>3, <1>4 DEF SearchRecord
<1>. HIDE DEF x
<1>7. searches \in Seq(SearchRecord) /\ n \in Nat
  BY <1>1 DEF SearchTypes
<1>8. searches' \in Seq(SearchRecord) /\ Len(searches') = n + 1 /\ searches'[n + 1] = x
  BY <1>2, <1>6, <1>7
<1>. HIDE DEF n
<1>9. currentChannel' = n + 1 /\ currentChannel' # 0 /\ currentChannel' \in 0..Len(searches')
  BY <1>2, <1>7, <1>8
<1>10. SearchTypes'
  BY <1>2, <1>4, <1>8, <1>9 DEF SearchTypes
<1>11. FirstIsFirst'
  BY <1>2, <1>5, <1>6, <1>8, <1>9 DEF FirstIsFirst
<1>12. Fs!ShowsTheSearch'
  <2>1. searches'[currentChannel'].wanted = Fs!Wanted'
    BY <1>6, <1>8, <1>9
  <2>2. ASSUME NEW w \in Fs!Walk
        PROVE  found'[w] = {<<currentChannel', b>> : b \in 1..searches'[currentChannel'].batches[w]}
    <3>1. searches'[currentChannel'].batches[w] = 0
      BY <1>5, <1>6, <1>8, <1>9
    <3>2. found'[w] = {}
      BY <1>2, <1>5
    <3>. QED
      BY <3>1, <3>2
  <2>3. \A w \in Fs!Walk : ~searches'[currentChannel'].done[w]
    BY <1>5, <1>6, <1>8, <1>9
  <2>. QED
    BY <1>9, <2>1, <2>2, <2>3 DEF Fs!ShowsTheSearch
<1>. QED
  BY <1>10, <1>11, <1>12 DEF SearchInv, BlankIsQuiet

\* Nothing but inputs that no search is for changes; and the results go, if there is no query.
LEMMA InputsChange ==
  ASSUME SearchInv, inputs' \in Nat, cwd' \in Nat, searchRoot' \in Nat, caseSensitive' \in BOOLEAN,
         UNCHANGED <<query, searchTimer, currentChannel, isSearching, firstBatch, searches>>,
         \/ query = 0 /\ found' \in {found, Fs!Every({})}
         \/ UNCHANGED <<found, searchRoot, caseSensitive>>
  PROVE  SearchInv'
<1>1. SearchTypes /\ BlankIsQuiet /\ FirstIsFirst /\ Fs!ShowsTheSearch
  BY DEF SearchInv
<1>2. Fs!Every({}) \in [Fs!Walk -> SUBSET (Nat \X Nat)]
  BY DEF Fs!Every
<1>3. SearchTypes' /\ BlankIsQuiet' /\ FirstIsFirst'
  BY <1>1, <1>2 DEF SearchTypes, BlankIsQuiet, FirstIsFirst
<1>4. CASE query = 0
  <2>1. currentChannel = 0 /\ ~searchTimer /\ found = Fs!Every({})
    BY <1>1, <1>4 DEF BlankIsQuiet, Fs!ShowsTheSearch
  <2>2. found' = Fs!Every({}) /\ currentChannel' = 0 /\ searchTimer' = searchTimer
    BY <2>1
  <2>3. \A w \in Fs!Walk : ~isSearching[w]
    BY <1>1, <2>1 DEF Fs!ShowsTheSearch
  <2>4. \A w \in Fs!Walk : ~isSearching'[w]
    BY <2>3
  <2>5. Fs!Every({})' = Fs!Every({})
    BY DEF Fs!Every
  <2>. QED
    BY <1>3, <2>2, <2>4, <2>5 DEF SearchInv, Fs!ShowsTheSearch
<1>5. CASE UNCHANGED <<found, searchRoot, caseSensitive>>
  <2>1. Fs!Wanted' = Fs!Wanted /\ Fs!Every({})' = Fs!Every({})
    BY <1>5 DEF Fs!Wanted, Fs!Every
  <2>. QED
    BY <1>1, <1>3, <1>5, <2>1 DEF SearchInv, Fs!ShowsTheSearch
<1>. QED
  BY <1>4, <1>5

\* A walk's step changes the record of its search.
LEMMA AWalkSteps ==
  ASSUME SearchInv, NEW s \in DOMAIN searches, NEW x \in SearchRecord,
         searches' = [searches EXCEPT ![s] = x], x.wanted = searches[s].wanted,
         UNCHANGED <<query, cwd, searchRoot, caseSensitive, searchTimer, currentChannel, inputs>>,
         found' \in [Fs!Walk -> SUBSET (Nat \X Nat)],
         isSearching' \in [Fs!Walk -> BOOLEAN], firstBatch' \in [Fs!Walk -> BOOLEAN],
         currentChannel # s => UNCHANGED <<found, isSearching, firstBatch>>,
         currentChannel = s => \A w \in Fs!Walk :
           /\ firstBatch'[w] <=> x.batches[w] = 0
           /\ found'[w] = {<<s, b>> : b \in 1..x.batches[w]}
           /\ isSearching'[w] => isSearching[w] /\ (~searches[s].done[w] => ~x.done[w])
  PROVE  SearchInv'
<1>1. SearchTypes /\ BlankIsQuiet /\ FirstIsFirst /\ Fs!ShowsTheSearch
  BY DEF SearchInv
<1>2. searches \in Seq(SearchRecord)
  BY <1>1 DEF SearchTypes
<1>3. /\ searches' \in Seq(SearchRecord) /\ Len(searches') = Len(searches) /\ searches'[s] = x
      /\ \A i \in DOMAIN searches : i # s => searches'[i] = searches[i]
  BY <1>2
<1>4. currentChannel # 0 => currentChannel \in DOMAIN searches
  BY <1>1, <1>2 DEF SearchTypes
<1>5. SearchTypes'
  BY <1>1, <1>3 DEF SearchTypes
<1>6. BlankIsQuiet'
  BY <1>1 DEF BlankIsQuiet
<1>7. FirstIsFirst'
  BY <1>1, <1>3, <1>4 DEF FirstIsFirst
<1>8. Fs!Wanted' = Fs!Wanted /\ Fs!Every({})' = Fs!Every({}) /\ s # 0
  BY <1>2 DEF Fs!Wanted, Fs!Every
<1>9. Fs!ShowsTheSearch'
  <2>1. CASE currentChannel # s
    <3>1. /\ UNCHANGED <<found, isSearching, firstBatch>>
          /\ currentChannel # 0 => searches'[currentChannel] = searches[currentChannel]
      BY <1>3, <1>4, <2>1
    <3>. QED
      BY <1>1, <1>8, <3>1 DEF Fs!ShowsTheSearch
  <2>2. CASE currentChannel = s
    <3>1. searches'[currentChannel'].wanted = Fs!Wanted'
      BY <1>1, <1>3, <1>8, <2>2 DEF Fs!ShowsTheSearch
    <3>2. \A w \in Fs!Walk : found'[w] = {<<currentChannel', b>> : b \in 1..searches'[currentChannel'].batches[w]}
      BY <1>3, <2>2
    <3>3. ASSUME NEW w \in Fs!Walk, isSearching'[w]
          PROVE  searchTimer' \/ (currentChannel' # 0 /\ ~searches'[currentChannel'].done[w])
      BY <1>1, <1>3, <1>8, <2>2, <3>3 DEF Fs!ShowsTheSearch
    <3>. QED
      BY <1>8, <2>2, <3>1, <3>2, <3>3 DEF Fs!ShowsTheSearch
  <2>. QED
    BY <2>1, <2>2
<1>. QED
  BY <1>5, <1>6, <1>7, <1>9 DEF SearchInv

\* Every step of the search panel shows the current search and no other.
LEMMA SearchStep ==
  ASSUME SearchInv, SearchNext
  PROVE  SearchInv'
<1>1. SearchTypes /\ BlankIsQuiet /\ FirstIsFirst /\ Fs!ShowsTheSearch
  BY DEF SearchInv
<1>2. /\ inputs \in Nat /\ query \in Nat /\ cwd \in Nat /\ searchRoot \in Nat /\ caseSensitive \in BOOLEAN
      /\ searches \in Seq(SearchRecord) /\ searchTimer \in BOOLEAN /\ currentChannel \in 0..Len(searches)
      /\ found \in [Fs!Walk -> SUBSET (Nat \X Nat)]
      /\ isSearching \in [Fs!Walk -> BOOLEAN] /\ firstBatch \in [Fs!Walk -> BOOLEAN]
  BY <1>1 DEF SearchTypes
<1>3. ASSUME Fs!Input
      PROVE  inputs' \in Nat /\ inputs' # 0
  BY <1>2, <1>3 DEF Fs!Input
<1>4. CASE Fs!SetQuery
  <2>1. PICK q \in {0, inputs'} :
          /\ query' = q /\ currentChannel' = 0 /\ searchTimer' = (q # 0) /\ isSearching' = Fs!Every(q # 0)
          /\ found' = IF q = 0 THEN Fs!Every({}) ELSE found
    BY <1>4 DEF Fs!SetQuery
  <2>2. /\ inputs' \in Nat /\ UNCHANGED <<cwd, searchRoot, caseSensitive, firstBatch, searches>>
    BY <1>3, <1>4 DEF Fs!SetQuery
  <2>3. /\ Fs!Every(q # 0) \in [Fs!Walk -> BOOLEAN] /\ Fs!Every({}) \in [Fs!Walk -> SUBSET (Nat \X Nat)]
        /\ \A w \in Fs!Walk : Fs!Every(q # 0)[w] = (q # 0)
    BY DEF Fs!Every
  <2>4. SearchTypes'
    BY <1>2, <2>1, <2>2, <2>3 DEF SearchTypes
  <2>5. BlankIsQuiet' /\ FirstIsFirst'
    BY <2>1 DEF BlankIsQuiet, FirstIsFirst
  <2>6. currentChannel' = 0 /\ (\A w \in Fs!Walk : isSearching'[w] => searchTimer')
    BY <2>1, <2>3
  <2>7. ~searchTimer' => found' = Fs!Every({})'
    BY <2>1 DEF Fs!Every
  <2>. QED
    BY <2>4, <2>5, <2>6, <2>7 DEF SearchInv, Fs!ShowsTheSearch
<1>5. CASE Fs!TimerFires
  <2>1. searchTimer /\ Fs!RunSearch /\ UNCHANGED <<query, cwd, searchRoot, caseSensitive, inputs>>
    BY <1>5 DEF Fs!TimerFires
  <2>2. query' # 0
    BY <1>1, <2>1 DEF BlankIsQuiet
  <2>. QED
    BY <1>2, <2>1, <2>2, ASearchStarts
<1>6. CASE Fs!SetCaseSensitive \/ Fs!SetSearchRoot \/ Fs!InitCwd
  <2>1. /\ inputs' \in Nat /\ cwd' \in Nat /\ searchRoot' \in Nat /\ caseSensitive' \in BOOLEAN /\ query' = query
        /\ Fs!SearchAgain /\ (query = 0 => found' \in {found, Fs!Every({})})
    BY <1>2, <1>3, <1>6 DEF Fs!SetCaseSensitive, Fs!SetSearchRoot, Fs!InitCwd, Fs!CommittedFolders
  <2>2. CASE query = 0
    BY <2>1, <2>2, InputsChange DEF Fs!SearchAgain
  <2>3. CASE query # 0
    BY <1>2, <2>1, <2>3, ASearchStarts DEF Fs!SearchAgain
  <2>. QED
    BY <2>2, <2>3
<1>7. CASE Fs!Arrow \/ UNCHANGED fsVars
  <2>1. /\ UNCHANGED <<query, cwd, searchRoot, caseSensitive, searchTimer, currentChannel, found, isSearching,
                       firstBatch, searches>>
        /\ inputs' \in Nat
    BY <1>2, <1>3, <1>7 DEF Fs!Arrow, Fs!shown, fsVars
  <2>. QED
    BY <1>2, <2>1, InputsChange
<1>8. ASSUME NEW r \in SearchRecord, NEW w \in Fs!Walk, NEW n \in Nat
      PROVE  /\ [r EXCEPT !.phase = "runs"] \in SearchRecord
             /\ [r EXCEPT !.batches[w] = n] \in SearchRecord
             /\ [r EXCEPT !.done[w] = TRUE] \in SearchRecord
  BY DEF SearchRecord
<1>9. ASSUME NEW r \in SearchRecord, NEW w \in Fs!Walk, NEW n \in Nat
      PROVE  /\ [r EXCEPT !.phase = "runs"].wanted = r.wanted /\ [r EXCEPT !.phase = "runs"].batches = r.batches
             /\ [r EXCEPT !.phase = "runs"].done = r.done
             /\ [r EXCEPT !.batches[w] = n].wanted = r.wanted /\ [r EXCEPT !.batches[w] = n].done = r.done
             /\ [r EXCEPT !.done[w] = TRUE].wanted = r.wanted /\ [r EXCEPT !.done[w] = TRUE].batches = r.batches
  BY DEF SearchRecord
<1>10. ASSUME NEW r \in SearchRecord, NEW w \in Fs!Walk, NEW n \in Nat
       PROVE  /\ [r EXCEPT !.batches[w] = n].batches = [r.batches EXCEPT ![w] = n]
              /\ [r EXCEPT !.done[w] = TRUE].done = [r.done EXCEPT ![w] = TRUE]
  BY DEF SearchRecord
<1>11. ASSUME NEW r \in SearchRecord
       PROVE  r.batches \in [Fs!Walk -> Nat] /\ r.done \in [Fs!Walk -> BOOLEAN]
  BY DEF SearchRecord
<1>12. ASSUME currentChannel # 0, NEW w \in Fs!Walk
       PROVE  /\ firstBatch[w] <=> searches[currentChannel].batches[w] = 0
              /\ found[w] = {<<currentChannel, b>> : b \in 1..searches[currentChannel].batches[w]}
  BY <1>1, <1>12 DEF FirstIsFirst, Fs!ShowsTheSearch
<1>13. ASSUME NEW s, Fs!Registered(s)
       PROVE  SearchInv'
  <2>. DEFINE x == [searches[s] EXCEPT !.phase = "runs"]
  <2>1. /\ s \in DOMAIN searches /\ searches' = [searches EXCEPT ![s] = x]
        /\ UNCHANGED <<query, cwd, searchRoot, caseSensitive, searchTimer, currentChannel, found, isSearching,
                       firstBatch, inputs>>
    BY <1>13 DEF Fs!Registered, Fs!shown
  <2>2. searches[s] \in SearchRecord /\ s # 0
    BY <1>2, <2>1
  <2>3. x \in SearchRecord /\ x.wanted = searches[s].wanted /\ x.batches = searches[s].batches /\ x.done = searches[s].done
    <3>1. "files" \in Fs!Walk /\ 0 \in Nat
      BY DEF Fs!Walk
    <3>. QED
      BY <1>8, <1>9, <2>2, <3>1
  <2>. HIDE DEF x
  <2>4. currentChannel = s => \A w \in Fs!Walk :
           /\ firstBatch'[w] <=> x.batches[w] = 0
           /\ found'[w] = {<<s, b>> : b \in 1..x.batches[w]}
           /\ isSearching'[w] => isSearching[w] /\ (~searches[s].done[w] => ~x.done[w])
    BY <1>12, <2>1, <2>2, <2>3
  <2>. QED
    BY <1>2, <2>1, <2>2, <2>3, <2>4, AWalkSteps
<1>14. ASSUME NEW s, NEW w \in Fs!Walk, Fs!Batch(s, w)
       PROVE  SearchInv'
  <2>. DEFINE n == searches[s].batches[w]
              x == [searches[s] EXCEPT !.batches[w] = n + 1]
  <2>1. /\ s \in DOMAIN searches /\ searches' = [searches EXCEPT ![s] = x]
        /\ UNCHANGED <<query, cwd, searchRoot, caseSensitive, searchTimer, currentChannel, isSearching, inputs>>
    BY <1>14 DEF Fs!Batch
  <2>2. searches[s] \in SearchRecord /\ s # 0 /\ s \in Nat
    BY <1>2, <2>1
  <2>3. n \in Nat /\ n + 1 \in Nat
    BY <1>11, <2>2
  <2>4. /\ x \in SearchRecord /\ x.wanted = searches[s].wanted /\ x.done = searches[s].done
        /\ x.batches = [searches[s].batches EXCEPT ![w] = n + 1]
    <3>. HIDE DEF n
    <3>1. x \in SearchRecord
      BY <1>8, <2>2, <2>3
    <3>2. x.wanted = searches[s].wanted /\ x.done = searches[s].done
      BY <1>9, <2>2, <2>3
    <3>3. x.batches = [searches[s].batches EXCEPT ![w] = n + 1]
      BY <1>10, <2>2, <2>3
    <3>. QED
      BY <3>1, <3>2, <3>3
  <2>5. x.batches[w] = n + 1 /\ \A v \in Fs!Walk : v # w => x.batches[v] = searches[s].batches[v]
    BY <1>11, <2>2, <2>4
  <2>6. searches'[s].batches[w] = n + 1
    BY <1>2, <2>1, <2>5
  <2>7. CASE currentChannel # s
    <3>1. UNCHANGED <<found, firstBatch>>
      BY <1>14, <2>7 DEF Fs!Batch, Fs!IsCurrent
    <3>. HIDE DEF x, n
    <3>. QED
      BY <1>2, <2>1, <2>2, <2>4, <2>7, <3>1, AWalkSteps
  <2>8. CASE currentChannel = s
    <3>1. /\ found' = [found EXCEPT ![w] = (IF firstBatch[w] THEN {} ELSE found[w]) \cup {<<s, n + 1>>}]
          /\ firstBatch' = [firstBatch EXCEPT ![w] = FALSE]
      BY <1>14, <2>6, <2>8 DEF Fs!Batch, Fs!IsCurrent
    <3>. HIDE DEF x, n
    <3>2. <<s, n + 1>> \in Nat \X Nat /\ found[w] \in SUBSET (Nat \X Nat)
      BY <1>2, <2>2, <2>3
    <3>3. found' \in [Fs!Walk -> SUBSET (Nat \X Nat)] /\ firstBatch' \in [Fs!Walk -> BOOLEAN]
      BY <1>2, <3>1, <3>2
    <3>4. found[w] = {<<s, b>> : b \in 1..n} /\ (firstBatch[w] => n = 0)
      BY <1>12, <2>2, <2>8 DEF n
    <3>5. found'[w] = (IF firstBatch[w] THEN {} ELSE found[w]) \cup {<<s, n + 1>>}
      BY <1>2, <3>1
    <3>6. found'[w] = {<<s, b>> : b \in 1..n} \cup {<<s, n + 1>>}
      BY <2>3, <3>4, <3>5
    <3>7. 1..(n + 1) = (1..n) \cup {n + 1}
      BY <2>3
    <3>8. found'[w] = {<<s, b>> : b \in 1..x.batches[w]}
      BY <2>5, <3>6, <3>7
    <3>9. ASSUME NEW v \in Fs!Walk
          PROVE  /\ firstBatch'[v] <=> x.batches[v] = 0
                 /\ found'[v] = {<<s, b>> : b \in 1..x.batches[v]}
      <4>1. CASE v = w
        BY <1>2, <2>3, <2>5, <3>1, <3>8, <4>1
      <4>2. CASE v # w
        <5>1. found'[v] = found[v] /\ firstBatch'[v] = firstBatch[v] /\ x.batches[v] = searches[s].batches[v]
          BY <1>2, <2>5, <3>1, <4>2
        <5>. QED
          BY <1>12, <2>2, <2>8, <5>1
      <4>. QED
        BY <4>1, <4>2
    <3>. QED
      BY <1>2, <2>1, <2>2, <2>4, <2>8, <3>3, <3>9, AWalkSteps
  <2>. QED
    BY <2>7, <2>8
<1>15. ASSUME NEW s, NEW w \in Fs!Walk, Fs!Done(s, w)
       PROVE  SearchInv'
  <2>. DEFINE x == [searches[s] EXCEPT !.done[w] = TRUE]
  <2>1. /\ s \in DOMAIN searches /\ searches' = [searches EXCEPT ![s] = x]
        /\ UNCHANGED <<query, cwd, searchRoot, caseSensitive, searchTimer, currentChannel, firstBatch, inputs>>
    BY <1>15 DEF Fs!Done
  <2>2. searches[s] \in SearchRecord /\ s # 0
    BY <1>2, <2>1
  <2>3. /\ x \in SearchRecord /\ x.wanted = searches[s].wanted /\ x.batches = searches[s].batches
        /\ x.done = [searches[s].done EXCEPT ![w] = TRUE]
    <3>1. 0 \in Nat
      OBVIOUS
    <3>. QED
      BY <1>8, <1>9, <1>10, <2>2, <3>1
  <2>4. \A v \in Fs!Walk : v # w => x.done[v] = searches[s].done[v]
    BY <1>11, <2>2, <2>3
  <2>. HIDE DEF x
  <2>5. CASE currentChannel # s
    <3>1. UNCHANGED <<found, isSearching>>
      BY <1>15, <2>5 DEF Fs!Done, Fs!IsCurrent
    <3>. QED
      BY <1>2, <2>1, <2>2, <2>3, <2>5, <3>1, AWalkSteps
  <2>6. CASE currentChannel = s
    <3>1. /\ found' = IF firstBatch[w] THEN [found EXCEPT ![w] = {}] ELSE found
          /\ isSearching' = [isSearching EXCEPT ![w] = FALSE]
      BY <1>15, <2>6 DEF Fs!Done, Fs!IsCurrent
    <3>2. found' \in [Fs!Walk -> SUBSET (Nat \X Nat)] /\ isSearching' \in [Fs!Walk -> BOOLEAN]
      BY <1>2, <3>1
    <3>3. ASSUME firstBatch[w] PROVE found[w] = {}
      <4>1. found[w] = {<<s, b>> : b \in 1..0}
        BY <1>12, <2>2, <2>6, <3>3
      <4>2. 1..0 = {}
        OBVIOUS
      <4>. QED
        BY <4>1, <4>2
    <3>4. \A v \in Fs!Walk : found'[v] = found[v]
      BY <1>2, <3>1, <3>3
    <3>5. \A v \in Fs!Walk : isSearching'[v] => isSearching[v] /\ v # w
      BY <1>2, <3>1
    <3>6. ASSUME NEW v \in Fs!Walk
          PROVE  /\ firstBatch'[v] <=> x.batches[v] = 0
                 /\ found'[v] = {<<s, b>> : b \in 1..x.batches[v]}
                 /\ isSearching'[v] => isSearching[v] /\ (~searches[s].done[v] => ~x.done[v])
      BY <1>12, <2>1, <2>2, <2>3, <2>4, <2>6, <3>4, <3>5
    <3>. QED
      BY <1>2, <2>1, <2>2, <2>3, <2>6, <3>2, <3>6, AWalkSteps
  <2>. QED
    BY <2>5, <2>6
<1>. QED
  BY <1>4, <1>5, <1>6, <1>7, <1>13, <1>14, <1>15 DEF SearchNext, Fs!Next

\* The search panel begins without a query.
LEMMA SearchBegins ==
  ASSUME Fs!Init
  PROVE  SearchInv
<1>1. /\ Fs!Every({}) \in [Fs!Walk -> SUBSET (Nat \X Nat)] /\ Fs!Every(TRUE) \in [Fs!Walk -> BOOLEAN]
      /\ Fs!Every(FALSE) \in [Fs!Walk -> BOOLEAN] /\ \A w \in Fs!Walk : ~Fs!Every(FALSE)[w]
  BY DEF Fs!Every
<1>2. searches \in Seq(SearchRecord) /\ Len(searches) = 0
  BY DEF Fs!Init
<1>3. SearchTypes
  <2>1. /\ inputs = 0 /\ query = 0 /\ cwd = 0 /\ searchRoot = 0 /\ caseSensitive = FALSE
        /\ currentChannel = 0 /\ searchTimer = FALSE
    BY DEF Fs!Init
  <2>2. found = Fs!Every({}) /\ isSearching = Fs!Every(FALSE) /\ firstBatch = Fs!Every(TRUE)
    BY DEF Fs!Init
  <2>3. currentChannel \in 0..Len(searches)
    BY <1>2, <2>1
  <2>. QED
    BY <1>1, <1>2, <2>1, <2>2, <2>3 DEF SearchTypes
<1>4. currentChannel = 0 /\ ~searchTimer /\ found = Fs!Every({}) /\ isSearching = Fs!Every(FALSE)
  BY DEF Fs!Init
<1>5. BlankIsQuiet /\ FirstIsFirst
  BY <1>4 DEF BlankIsQuiet, FirstIsFirst
<1>6. Fs!ShowsTheSearch
  BY <1>1, <1>4 DEF Fs!ShowsTheSearch
<1>. QED
  BY <1>3, <1>5, <1>6 DEF SearchInv


-----------------------------------------------------------------------------
\* No directory is not a directory (ExplorerView.tsx: a pin or a row of null).
ASSUME DirAssumption == NoDir \notin ExDir

\* A listing of the root on its way.
TreeListing == [dir : ExDir, read : Nat \cup {Ex!Unread}, stale : BOOLEAN]

\* The variables that the root's listing depends on have their types.
TreeTypes ==
  /\ exPaneCwd \in ExDir /\ exPinned \in ExDir \cup {NoDir}
  /\ exDisk \in [ExDir -> Nat] /\ exAsked \in Nat
  /\ exListings \subseteq TreeListing

\* The root has been asked for in a state it has been in; and what is on its way and
\* will be shown is of the root, read no earlier than that.
FreshListings ==
  /\ exAsked <= exDisk[Ex!Root]
  /\ ~exDue => \A l \in exListings : ~l.stale =>
       l.dir = Ex!Root /\ (l.read = Ex!Unread \/ l.read >= exAsked)

\* The inductive invariant of the tree.
TreeInv == TreeTypes /\ FreshListings /\ Ex!TreeIsCurrent

\* What chooses the root: the pane's directory and the pin.
treeRoot == <<exPaneCwd, exPinned>>

\* What decides the rows: listings due, on their way and shown.
treeShow == <<exDue, exTimer, exListings, exShown, exAsked>>

\* A change on the disk, with or without a refresh that follows it.
LEMMA TheDiskChanges ==
  ASSUME TreeInv, UNCHANGED <<treeRoot, exTimer, exListings, exShown>>, exDisk' \in [ExDir -> Nat],
         \A d \in ExDir : exDisk[d] <= exDisk'[d],
         UNCHANGED <<exDue, exAsked>> \/ (exDue' = TRUE /\ exAsked' = exDisk'[Ex!Root])
  PROVE  TreeInv'
<1>1. TreeTypes /\ FreshListings /\ Ex!TreeIsCurrent
  BY DEF TreeInv
<1>2. Ex!Root' = Ex!Root
  BY DEF treeRoot, Ex!Root
<1>3. Ex!Root \in ExDir /\ exDisk[Ex!Root] \in Nat /\ exDisk'[Ex!Root] \in Nat /\ exAsked \in Nat
  BY <1>1 DEF TreeTypes, Ex!Root
<1>4. exAsked' \in Nat /\ exAsked' <= exDisk'[Ex!Root]
  BY <1>1, <1>3 DEF FreshListings
<1>5. TreeTypes'
  BY <1>1, <1>4 DEF TreeTypes, treeRoot
<1>6. FreshListings' /\ Ex!TreeIsCurrent'
  <2>1. CASE UNCHANGED <<exDue, exAsked>>
    BY <1>1, <1>2, <1>4, <2>1 DEF FreshListings, Ex!TreeIsCurrent, Ex!Unread, Ex!Failed
  <2>2. CASE exDue' = TRUE
    BY <1>2, <1>4, <2>2 DEF FreshListings, Ex!TreeIsCurrent
  <2>. QED
    BY <2>1, <2>2
<1>. QED
  BY <1>5, <1>6 DEF TreeInv

\* The root may become another, which is then listed.
LEMMA TheRootMoves ==
  ASSUME TreeInv, exPaneCwd' \in ExDir, exPinned' \in ExDir \cup {NoDir}, Ex!Moved,
         UNCHANGED <<exDisk, exTimer, exListings, exShown>>
  PROVE  TreeInv'
<1>1. TreeTypes /\ FreshListings /\ Ex!TreeIsCurrent
  BY DEF TreeInv
<1>2. Ex!Root \in ExDir /\ Ex!Root' \in ExDir
  BY <1>1 DEF TreeTypes, Ex!Root
<1>3. exDisk[Ex!Root'] \in Nat
  BY <1>1, <1>2 DEF TreeTypes
<1>4. CASE Ex!Root' = Ex!Root
  <2>1. (exDue' <=> exDue) /\ exAsked' = exAsked
    BY <1>4 DEF Ex!Moved
  <2>2. TreeTypes'
    BY <1>1, <2>1 DEF TreeTypes
  <2>3. FreshListings' /\ Ex!TreeIsCurrent'
    BY <1>1, <1>4, <2>1 DEF FreshListings, Ex!TreeIsCurrent, Ex!Unread, Ex!Failed
  <2>. QED
    BY <2>2, <2>3 DEF TreeInv
<1>5. CASE Ex!Root' # Ex!Root
  <2>1. exDue' /\ exAsked' = exDisk[Ex!Root']
    BY <1>5 DEF Ex!Moved
  <2>2. TreeTypes'
    BY <1>1, <1>3, <2>1 DEF TreeTypes
  <2>3. FreshListings' /\ Ex!TreeIsCurrent'
    BY <1>3, <2>1 DEF FreshListings, Ex!TreeIsCurrent
  <2>. QED
    BY <2>2, <2>3 DEF TreeInv
<1>. QED
  BY <1>4, <1>5

\* The root is listed: earlier listings are stale.
LEMMA TheRootIsListed ==
  ASSUME TreeInv, Ex!ListEffect \/ Ex!TimerLists
  PROVE  TreeInv'
<1>. DEFINE x == [dir |-> Ex!Root, read |-> Ex!Unread, stale |-> FALSE]
<1>1. TreeTypes /\ FreshListings /\ Ex!TreeIsCurrent
  BY DEF TreeInv
<1>2. UNCHANGED <<exPaneCwd, exPinned, exDisk, exAsked>>
  BY DEF Ex!ListEffect, Ex!TimerLists, Ex!world
<1>3. Ex!Root' = Ex!Root /\ Ex!Root \in ExDir
  BY <1>1, <1>2 DEF Ex!Root, TreeTypes
<1>4. x \in TreeListing /\ ~x.stale /\ x.dir = Ex!Root /\ x.read = Ex!Unread
  BY <1>3 DEF TreeListing
<1>5. ASSUME NEW l \in TreeListing
      PROVE  [l EXCEPT !.stale = TRUE] \in TreeListing /\ [l EXCEPT !.stale = TRUE].stale
  BY DEF TreeListing
<1>6. Ex!Outdated \subseteq TreeListing /\ \A l \in Ex!Outdated : l.stale
  <2>1. exListings \subseteq TreeListing
    BY <1>1 DEF TreeTypes
  <2>. QED
    BY <1>5, <2>1 DEF Ex!Outdated
<1>7. \/ /\ exDue' = FALSE /\ exTimer' = TRUE /\ exListings' = Ex!Outdated
      \/ /\ exDue' = FALSE /\ exTimer' = FALSE /\ exListings' = Ex!Outdated \cup {x}
      \/ /\ ~exDue /\ exDue' = exDue /\ exListings' = exListings \cup {x}
  BY DEF Ex!ListEffect, Ex!TimerLists
<1>. HIDE DEF x
<1>8. TreeTypes'
  BY <1>1, <1>2, <1>4, <1>6, <1>7 DEF TreeTypes
<1>9. FreshListings'
  BY <1>1, <1>2, <1>3, <1>4, <1>6, <1>7 DEF FreshListings
<1>10. Ex!TreeIsCurrent'
  BY <1>4, <1>7 DEF Ex!TreeIsCurrent
<1>. QED
  BY <1>8, <1>9, <1>10 DEF TreeInv

\* A listing is read, arrives or fails.
LEMMA AListingArrives ==
  ASSUME TreeInv, NEW l \in exListings, Ex!Serve(l) \/ Ex!Listed(l) \/ Ex!ListingFails(l)
  PROVE  TreeInv'
<1>1. TreeTypes /\ FreshListings /\ Ex!TreeIsCurrent
  BY DEF TreeInv
<1>2. UNCHANGED <<exPaneCwd, exPinned, exDisk, exAsked, exDue, exTimer>>
  BY DEF Ex!Serve, Ex!Listed, Ex!ListingFails, Ex!world
<1>3. Ex!Root' = Ex!Root /\ Ex!Root \in ExDir
  BY <1>1, <1>2 DEF Ex!Root, TreeTypes
<1>4. l \in TreeListing /\ l.dir \in ExDir /\ exDisk[l.dir] \in Nat
  BY <1>1 DEF TreeTypes, TreeListing
<1>5. CASE Ex!Serve(l)
  <2>. DEFINE x == [l EXCEPT !.read = exDisk[l.dir]]
  <2>1. exListings' = (exListings \ {l}) \cup {x} /\ UNCHANGED exShown
    BY <1>5 DEF Ex!Serve
  <2>2. /\ x \in TreeListing /\ x.dir = l.dir /\ x.stale = l.stale /\ x.read = exDisk[l.dir]
    <3>1. ASSUME NEW y \in TreeListing, NEW n \in Nat
          PROVE  /\ [y EXCEPT !.read = n] \in TreeListing /\ [y EXCEPT !.read = n].dir = y.dir
                 /\ [y EXCEPT !.read = n].stale = y.stale /\ [y EXCEPT !.read = n].read = n
      BY DEF TreeListing
    <3>. QED
      BY <1>4, <3>1
  <2>. HIDE DEF x
  <2>3. TreeTypes'
    BY <1>1, <1>2, <2>1, <2>2 DEF TreeTypes
  <2>4. FreshListings'
    <3>1. ASSUME ~exDue, ~x.stale
          PROVE  x.dir = Ex!Root /\ x.read >= exAsked
      BY <1>1, <2>2, <3>1 DEF FreshListings
    <3>. QED
      BY <1>1, <1>2, <1>3, <2>1, <3>1 DEF FreshListings
  <2>5. (\A y \in exListings' : y.stale) => \A y \in exListings : y.stale
    BY <2>1, <2>2
  <2>6. Ex!TreeIsCurrent'
    BY <1>1, <1>2, <1>3, <2>1, <2>5 DEF Ex!TreeIsCurrent, Ex!Failed
  <2>. QED
    BY <2>3, <2>4, <2>6 DEF TreeInv
<1>6. CASE Ex!Listed(l) \/ Ex!ListingFails(l)
  <2>1. exListings' = exListings \ {l}
    BY <1>6 DEF Ex!Listed, Ex!ListingFails
  <2>2. PICK n : exShown' = (IF l.stale THEN exShown ELSE [of |-> l.dir, read |-> n])
                 /\ (n = Ex!Failed \/ (n = l.read /\ l.read # Ex!Unread))
    BY <1>6 DEF Ex!Listed, Ex!ListingFails, Ex!ShownIfFresh
  <2>3. TreeTypes'
    BY <1>1, <1>2, <2>1 DEF TreeTypes
  <2>4. FreshListings'
    BY <1>1, <1>2, <1>3, <2>1 DEF FreshListings
  <2>5. Ex!TreeIsCurrent'
    <3>1. CASE l.stale
      <4>1. ((\A y \in exListings' : y.stale) => \A y \in exListings : y.stale) /\ exShown' = exShown
        BY <2>1, <2>2, <3>1
      <4>. QED
        BY <1>1, <1>2, <1>3, <4>1 DEF Ex!TreeIsCurrent, Ex!Failed
    <3>2. CASE ~l.stale
      <4>1. exShown'.of = l.dir /\ exShown'.read = n
        BY <2>2, <3>2
      <4>2. ~exDue => l.dir = Ex!Root /\ (n = Ex!Failed \/ n >= exAsked)
        BY <1>1, <2>2, <3>2 DEF FreshListings
      <4>. QED
        BY <1>2, <1>3, <4>1, <4>2 DEF Ex!TreeIsCurrent
    <3>. QED
      BY <3>1, <3>2
  <2>. QED
    BY <2>3, <2>4, <2>5 DEF TreeInv
<1>. QED
  BY <1>5, <1>6

\* Every step of the explorer keeps the tree current.
LEMMA TreeStep ==
  ASSUME TreeInv, TreeNext
  PROVE  TreeInv'
<1>1. exPaneCwd \in ExDir /\ exPinned \in ExDir \cup {NoDir} /\ exDisk \in [ExDir -> Nat]
  BY DEF TreeInv, TreeTypes
<1>2. \A d \in ExDir : exDisk[d] \in Nat /\ exDisk[d] <= exDisk[d] /\ exDisk[d] <= exDisk[d] + 1
  BY <1>1
<1>3. CASE UNCHANGED <<treeRoot, treeShow, exDisk>>
  BY <1>1, <1>2, <1>3, TheDiskChanges DEF treeShow
<1>4. ASSUME NEW invalid, Ex!RefreshNow(invalid)
      PROVE  TreeInv'
  <2>1. /\ UNCHANGED <<exPaneCwd, exPinned, exTimer, exListings, exShown, exDisk>>
        /\ exDue' = TRUE /\ exAsked' = exDisk'[Ex!Root]
    BY <1>4 DEF Ex!RefreshNow, Ex!Refresh
  <2>. QED
    BY <1>1, <1>2, <2>1, TheDiskChanges DEF treeRoot
<1>5. CASE Ex!FsChange
  <2>1. /\ UNCHANGED <<exPaneCwd, exPinned, exTimer, exListings, exShown, exDisk>>
        /\ exDue' = TRUE /\ exAsked' = exDisk'[Ex!Root]
    BY <1>5 DEF Ex!FsChange, Ex!Refresh
  <2>. QED
    BY <1>1, <1>2, <2>1, TheDiskChanges DEF treeRoot
<1>6. ASSUME NEW o \in exOps, Ex!Carried(o)
      PROVE  TreeInv'
  <2>1. /\ UNCHANGED <<exPaneCwd, exPinned, exTimer, exListings, exShown>>
        /\ exDisk' = [d \in ExDir |-> IF d \in o THEN exDisk[d] + 1 ELSE exDisk[d]]
        /\ exDue' = TRUE /\ exAsked' = exDisk'[Ex!Root]
    BY <1>6 DEF Ex!Carried, Ex!Refresh
  <2>2. exDisk' \in [ExDir -> Nat] /\ (\A d \in ExDir : exDisk[d] <= exDisk'[d])
    BY <1>1, <1>2, <2>1
  <2>. QED
    BY <2>1, <2>2, TheDiskChanges DEF treeRoot
<1>7. ASSUME NEW d \in ExDir, Ex!Edit(d)
      PROVE  TreeInv'
  <2>1. /\ UNCHANGED <<exPaneCwd, exPinned, exTimer, exListings, exShown, exDue, exAsked>>
        /\ exDisk' = [exDisk EXCEPT ![d] = @ + 1]
    BY <1>7 DEF Ex!Edit, Ex!listing
  <2>2. exDisk' \in [ExDir -> Nat] /\ (\A c \in ExDir : exDisk[c] <= exDisk'[c])
    BY <1>1, <1>2, <2>1
  <2>. QED
    BY <2>1, <2>2, TheDiskChanges DEF treeRoot
<1>8. ASSUME NEW d \in ExDir, Ex!Chdir(d)
      PROVE  TreeInv'
  BY <1>1, <1>8, TheRootMoves DEF Ex!Chdir
<1>9. CASE Ex!TogglePin
  BY <1>1, <1>9, TheRootMoves DEF Ex!TogglePin
<1>10. CASE \/ Ex!RefetchOpen
            \/ \E l \in exRowListings : Ex!ServeRow(l) \/ Ex!RowListed(l)
  BY <1>3, <1>10 DEF Ex!RefetchOpen, Ex!ServeRow, Ex!RowListed, Ex!world, treeRoot, treeShow
<1>11. CASE \/ \E d \in ExDir : Ex!ClickRow(d) \/ Ex!ArrowRow(d) \/ Ex!OpenMenu(d) \/ Ex!DragRow(d)
            \/ \E key \in {"enter", "right", "left"} : Ex!KeyRow(key)
  BY <1>3, <1>11 DEF Ex!ClickRow, Ex!ArrowRow, Ex!OpenMenu, Ex!DragRow, Ex!KeyRow, Ex!world, Ex!listing,
                     treeRoot, treeShow
<1>12. CASE Ex!CloseMenu \/ Ex!MenuElsewhere \/ Ex!NewHere \/ Ex!RenameHere \/ Ex!CancelInput \/ Ex!TrashHere
  BY <1>3, <1>12 DEF Ex!CloseMenu, Ex!MenuElsewhere, Ex!NewHere, Ex!RenameHere, Ex!CancelInput, Ex!TrashHere,
                     Ex!world, Ex!listing, treeRoot, treeShow
<1>13. CASE \/ Ex!CommitInput \/ (\E yes \in BOOLEAN : Ex!AnswerTrash(yes))
            \/ (\E d \in ExDir \cup {NoDir} : Ex!Drop(d)) \/ (\E o \in exOps : Ex!OpFails(o))
            \/ UNCHANGED exVars
  BY <1>3, <1>13 DEF Ex!CommitInput, Ex!AnswerTrash, Ex!Drop, Ex!OpFails, exVars, Ex!listing, treeRoot, treeShow
<1>. QED
  BY <1>4, <1>5, <1>6, <1>7, <1>8, <1>9, <1>10, <1>11, <1>12, <1>13, TheRootIsListed, AListingArrives
     DEF TreeNext, Ex!ExNext

\* The explorer begins with a listing to be asked for.
LEMMA TreeBegins ==
  ASSUME Ex!ExInit
  PROVE  TreeInv
<1>1. exDisk = [d \in ExDir |-> 0] /\ exPaneCwd \in ExDir /\ exPinned = NoDir
  BY DEF Ex!ExInit
<1>2. Ex!Root \in ExDir /\ exDisk[Ex!Root] = 0
  BY <1>1 DEF Ex!Root
<1>3. exDue /\ exAsked = 0 /\ exListings = {}
  BY DEF Ex!ExInit
<1>. QED
  BY <1>1, <1>2, <1>3 DEF TreeInv, TreeTypes, FreshListings, Ex!TreeIsCurrent

-----------------------------------------------------------------------------
\* The editor begins without a tab.
LEMMA EditorBegins ==
  ASSUME Ed!Init
  PROVE  EditorInv
<1>1. editorTabs = <<>> /\ activeIndex = 1 /\ reads = {} /\ writes = {} /\ texts = 0
  BY DEF Ed!Init
<1>2. editorTabs \in Seq(EdTab) /\ DOMAIN editorTabs = {}
  BY <1>1
<1>3. editorDisk = [f \in File |-> <<f, 0>>]
  BY DEF Ed!Init
<1>4. editorDisk \in [File -> EdText]
  BY <1>3 DEF EdText
<1>. QED
  BY <1>1, <1>2, <1>4 DEF EditorInv, TabsInv, IoTypes, Ed!OneTabPerFile

\* The tree, the tabs and the results are current in every reachable state
\* (ExplorerView.tsx, tabUtils.ts, fileSearchStore.ts).
THEOREM FilesAreAlwaysCurrent == Spec => []FilesAreCurrent
<1>. DEFINE I == /\ part = "tree" => TreeInv
                 /\ part = "editor" => EditorInv
                 /\ part = "search" => SearchInv
<1>1. Init => I
  BY TreeBegins, EditorBegins, SearchBegins DEF Init
<1>2. I /\ [Next]_vars => I'
  BY PartsStep, TreeStep, EditorStep, SearchStep
<1>3. I => FilesAreCurrent
  BY DEF TreeInv, EditorInv, TabsInv, SearchInv, FilesAreCurrent
<1>. HIDE DEF I
<1>. QED
  BY <1>1, <1>2, <1>3, PTL DEF Spec

-----------------------------------------------------------------------------
\* The graph is of commits that have a number, and there is a colour.
ASSUME GraphAssumption == GraphSize \in Nat /\ GraphColors \in Nat \ {0} /\ MaxParents \in Nat

\* What a lane waits for, a parent, a colour, and a line of a row.
GraphLane == 0 .. GraphSize + 1
GraphParent == 1 .. GraphSize + 1
GraphHue == 0 .. GraphColors - 1
GraphLine == [kind : {"pass", "merge-down", "branch-up"}, from : Nat \ {0}, to : Nat \ {0}]

\* What the loop over the other parents carries along.
GraphAcc == [lanes : Seq(GraphLane), hues : Seq(GraphHue), next : GraphHue, lines : SUBSET GraphLine,
             col : Nat \ {0}]
GraphSound == {a \in GraphAcc : Len(a.hues) = Len(a.lanes)}

\* The first of some lanes.
LEMMA FirstIsLeast ==
  ASSUME NEW S \in SUBSET Nat, S # {}
  PROVE  Gg!First(S) \in S /\ \A i \in S : Gg!First(S) <= i
<1>1. PICK n \in S : \A i \in S : n <= i
  BY LeastNumber
<1>. QED
  BY <1>1 DEF Gg!First

\* A lane is set or pushed; the others stay as they are.
LEMMA PutInto ==
  ASSUME NEW T, NEW s \in Seq(T), NEW i \in 1 .. Len(s) + 1, NEW x \in T
  PROVE  /\ Gg!Put(s, i, x) \in Seq(T)
         /\ Len(Gg!Put(s, i, x)) = IF i > Len(s) THEN Len(s) + 1 ELSE Len(s)
         /\ i \in DOMAIN Gg!Put(s, i, x) /\ Gg!Put(s, i, x)[i] = x
         /\ \A j \in DOMAIN s : j # i => j \in DOMAIN Gg!Put(s, i, x) /\ Gg!Put(s, i, x)[j] = s[j]
<1>1. CASE i > Len(s)
  <2>1. Gg!Put(s, i, x) = Append(s, x) /\ i = Len(s) + 1
    BY <1>1 DEF Gg!Put
  <2>. QED
    BY <1>1, <2>1
<1>2. CASE ~(i > Len(s))
  <2>1. Gg!Put(s, i, x) = [s EXCEPT ![i] = x] /\ i \in DOMAIN s
    BY <1>2 DEF Gg!Put
  <2>. QED
    BY <1>2, <2>1
<1>. QED
  BY <1>1, <1>2

\* A free lane is empty, or the next one on the right.
LEMMA FreeIsEmpty ==
  ASSUME NEW s \in Seq(GraphLane)
  PROVE  /\ Gg!Free(s) \in 1 .. Len(s) + 1
         /\ Gg!Free(s) \in DOMAIN s => s[Gg!Free(s)] = 0
<1>. DEFINE E == {i \in DOMAIN s : s[i] = 0}
<1>1. Gg!LaneOf(s, Gg!EmptyLane) = E
  BY DEF Gg!LaneOf, Gg!EmptyLane
<1>2. CASE E = {}
  BY <1>1, <1>2 DEF Gg!Free
<1>3. CASE E # {}
  <2>1. E \in SUBSET Nat
    OBVIOUS
  <2>2. Gg!First(E) \in E
    BY <1>3, <2>1, FirstIsLeast
  <2>3. Gg!Free(s) = Gg!First(E)
    BY <1>1, <1>3 DEF Gg!Free
  <2>. QED
    BY <2>2, <2>3
<1>. QED
  BY <1>2, <1>3

\* A commit's column is one that waits for it, or else a free one.
LEMMA ClaimedWaits ==
  ASSUME NEW s \in Seq(GraphLane), NEW c \in Nat
  PROVE  /\ Gg!Claimed(s, c) \in 1 .. Len(s) + 1
         /\ Gg!Claimed(s, c) \in DOMAIN s => s[Gg!Claimed(s, c)] \in {0, c}
         /\ \A i \in DOMAIN s : s[i] = c => Gg!Claimed(s, c) \in DOMAIN s
<1>. DEFINE E == {i \in DOMAIN s : s[i] = c}
<1>1. Gg!LaneOf(s, c) = E
  BY DEF Gg!LaneOf
<1>2. CASE E = {}
  BY <1>1, <1>2, FreeIsEmpty DEF Gg!Claimed
<1>3. CASE E # {}
  <2>1. E \in SUBSET Nat
    OBVIOUS
  <2>2. Gg!First(E) \in E
    BY <1>3, <2>1, FirstIsLeast
  <2>3. Gg!Claimed(s, c) = Gg!First(E)
    BY <1>1, <1>3 DEF Gg!Claimed
  <2>4. Gg!Claimed(s, c) \in DOMAIN s /\ s[Gg!Claimed(s, c)] = c
    BY <2>2, <2>3
  <2>. QED
    BY <2>4
<1>. QED
  BY <1>2, <1>3

\* What one more parent adds: a line to a lane that waits for it.
BranchesTo(a, b, p) ==
  /\ b.col = a.col
  /\ \A i \in DOMAIN a.lanes : a.lanes[i] # 0 => i \in DOMAIN b.lanes /\ b.lanes[i] = a.lanes[i]
  /\ \E i \in DOMAIN b.lanes : b.lanes[i] = p /\ b.lines = a.lines \cup {Gg!Line("branch-up", a.col, i)}

\* The next colour is a colour.
LEMMA NextHue ==
  ASSUME NEW h \in GraphHue
  PROVE  (h + 1) % GraphColors \in GraphHue
  BY GraphAssumption DEF GraphHue

\* A parent is branched to: in the lane that waits for it or in a free one.
LEMMA OneBranch ==
  ASSUME NEW a \in GraphSound, NEW p \in GraphParent
  PROVE  Gg!Branch(a, p) \in GraphSound /\ BranchesTo(a, Gg!Branch(a, p), p)
<1>. DEFINE b == Gg!Branch(a, p)
            l == a.lanes
            E == {i \in DOMAIN l : l[i] = p}
<1>1. a \in GraphAcc /\ l \in Seq(GraphLane) /\ a.hues \in Seq(GraphHue) /\ Len(a.hues) = Len(l)
      /\ a.next \in GraphHue /\ a.lines \subseteq GraphLine /\ a.col \in Nat \ {0}
  BY DEF GraphSound, GraphAcc
<1>2. Gg!LaneOf(l, p) = E
  BY DEF Gg!LaneOf
<1>3. p \in GraphLane
  BY GraphAssumption DEF GraphLane, GraphParent
<1>4. \A i \in Nat \ {0} : Gg!Line("branch-up", a.col, i) \in GraphLine
  BY <1>1 DEF Gg!Line, GraphLine
<1>5. CASE E # {}
  <2>. DEFINE i == Gg!First(E)
  <2>1. E \in SUBSET Nat
    BY <1>1
  <2>2. i \in E
    <3>. HIDE DEF E
    <3>. QED
      BY <1>5, <2>1, FirstIsLeast
  <2>2a. i \in DOMAIN l /\ l[i] = p /\ i \in Nat \ {0}
    BY <1>1, <2>2
  <2>3. b = [lanes |-> l, hues |-> a.hues, next |-> a.next,
             lines |-> a.lines \cup {Gg!Line("branch-up", a.col, i)}, col |-> a.col]
    BY <1>2, <1>5 DEF Gg!Branch
  <2>. HIDE DEF i, l, E, b
  <2>. QED
    BY <1>1, <1>4, <2>2a, <2>3 DEF BranchesTo, GraphSound, GraphAcc, b, l
<1>6. CASE E = {}
  <2>. DEFINE i == Gg!Free(l)
              m == Gg!Put(l, i, p)
              h == Gg!Put(a.hues, i, a.next)
  <2>1. i \in 1 .. Len(l) + 1 /\ i \in Nat \ {0} /\ (i \in DOMAIN l => l[i] = 0)
    BY <1>1, FreeIsEmpty
  <2>. HIDE DEF i, l
  <2>2. /\ m \in Seq(GraphLane) /\ i \in DOMAIN m /\ m[i] = p
        /\ Len(m) = IF i > Len(l) THEN Len(l) + 1 ELSE Len(l)
        /\ \A j \in DOMAIN l : j # i => j \in DOMAIN m /\ m[j] = l[j]
    BY <1>1, <1>3, <2>1, PutInto
  <2>3. h \in Seq(GraphHue) /\ Len(h) = IF i > Len(l) THEN Len(l) + 1 ELSE Len(l)
    <3>1. a.hues \in Seq(GraphHue) /\ i \in 1 .. Len(a.hues) + 1 /\ a.next \in GraphHue
      BY <1>1, <2>1
    <3>2. h \in Seq(GraphHue) /\ Len(h) = IF i > Len(a.hues) THEN Len(a.hues) + 1 ELSE Len(a.hues)
      <4>1. ASSUME NEW q \in Seq(GraphHue), NEW x \in GraphHue, i \in 1 .. Len(q) + 1
            PROVE  /\ Gg!Put(q, i, x) \in Seq(GraphHue)
                   /\ Len(Gg!Put(q, i, x)) = IF i > Len(q) THEN Len(q) + 1 ELSE Len(q)
        BY <4>1, PutInto
      <4>. QED
        BY <3>1, <4>1
    <3>. QED
      BY <1>1, <3>2
  <2>4. b = [lanes |-> m, hues |-> h, next |-> (a.next + 1) % GraphColors,
             lines |-> a.lines \cup {Gg!Line("branch-up", a.col, i)}, col |-> a.col]
    BY <1>2, <1>6 DEF Gg!Branch, i, l
  <2>5. (a.next + 1) % GraphColors \in GraphHue
    BY <1>1, NextHue
  <2>. HIDE DEF m, h, E, b
  <2>6. b \in GraphSound
    BY <1>1, <1>4, <2>1, <2>2, <2>3, <2>4, <2>5 DEF GraphSound, GraphAcc
  <2>7. \A j \in DOMAIN l : l[j] # 0 => j \in DOMAIN m /\ m[j] = l[j]
    BY <2>1, <2>2
  <2>8. BranchesTo(a, b, p)
    BY <2>2, <2>4, <2>7 DEF BranchesTo, l
  <2>. QED
    BY <2>6, <2>8 DEF b
<1>. QED
  BY <1>5, <1>6

\* s holds what the loop carries along after each of the first k parents.
AreBranches(s, own, ps, k) ==
  /\ s \in [0 .. k -> GraphSound]
  /\ \A i \in 0 .. k : s[i] = IF i <= 1 THEN own ELSE Gg!Branch(s[i - 1], ps[i])

\* The loop ends, and carries along what the recursive definition says.
LEMMA BranchesExist ==
  ASSUME NEW own \in GraphSound, NEW ps \in Seq(GraphParent)
  PROVE  \E s : AreBranches(s, own, ps, Len(ps))
<1>. DEFINE Bad == {k \in 0 .. Len(ps) : ~ \E s : AreBranches(s, own, ps, k)}
<1>. SUFFICES ASSUME Bad # {} PROVE FALSE
  <2>. SUFFICES ASSUME ~ \E s : AreBranches(s, own, ps, Len(ps)) PROVE Bad # {}
    OBVIOUS
  <2>1. Len(ps) \in Bad
    OBVIOUS
  <2>. QED
    BY <2>1, Zenon
<1>0. Bad \in SUBSET Nat
  OBVIOUS
<1>1. PICK k \in Bad : \A m \in Bad : k <= m
  <2>. HIDE DEF Bad
  <2>. QED
    BY <1>0, LeastNumber
<1>2. k # 0
  <2>1. AreBranches([i \in 0 .. 0 |-> own], own, ps, 0)
    BY DEF AreBranches
  <2>. QED
    BY <2>1
<1>3. PICK s : AreBranches(s, own, ps, k - 1)
  BY <1>1, <1>2
<1>. DEFINE x == IF k <= 1 THEN own ELSE Gg!Branch(s[k - 1], ps[k])
<1>4. x \in GraphSound
  <2>1. s[k - 1] \in GraphSound /\ ps[k] \in GraphParent
    BY <1>1, <1>2, <1>3 DEF AreBranches
  <2>. QED
    BY <2>1, OneBranch
<1>. HIDE DEF x
<1>5. AreBranches([i \in 0 .. k |-> IF i = k THEN x ELSE s[i]], own, ps, k)
  BY <1>1, <1>2, <1>3, <1>4 DEF AreBranches, x
<1>. QED
  BY <1>1, <1>5


\* What the recursive definition defines is that.
LEMMA BranchesAre ==
  ASSUME NEW own \in GraphSound, NEW ps \in Seq(GraphParent)
  PROVE  AreBranches(Gg!Branches(own, ps), own, ps, Len(ps))
<1>1. PICK s : AreBranches(s, own, ps, Len(ps))
  BY BranchesExist
<1>2. s = [k \in 0 .. Len(ps) |-> IF k <= 1 THEN own ELSE Gg!Branch(s[k - 1], ps[k])]
  BY <1>1 DEF AreBranches
<1>. DEFINE S == Gg!Branches(own, ps)
<1>3. S = [k \in 0 .. Len(ps) |-> IF k <= 1 THEN own ELSE Gg!Branch(S[k - 1], ps[k])]
  BY <1>2, Zenon DEF Gg!Branches
<1>. HIDE DEF S
<1>4. \A k \in 0 .. Len(ps) : S[k] = IF k <= 1 THEN own ELSE Gg!Branch(S[k - 1], ps[k])
  BY <1>3
<1>5. \A k \in 0 .. Len(ps) : S[k] \in GraphSound
  <2>. DEFINE Bad == {k \in 0 .. Len(ps) : S[k] \notin GraphSound}
  <2>. SUFFICES ASSUME Bad # {} PROVE FALSE
    OBVIOUS
  <2>0. Bad \in SUBSET Nat
    OBVIOUS
  <2>1. PICK k \in Bad : \A m \in Bad : k <= m
    <3>. HIDE DEF Bad
    <3>. QED
      BY <2>0, LeastNumber
  <2>2. ~(k <= 1) /\ k - 1 \in 0 .. Len(ps)
    BY <1>4, <2>1
  <2>3. S[k - 1] \in GraphSound /\ ps[k] \in GraphParent
    <3>1. k - 1 \notin Bad
      BY <2>1
    <3>2. k \in 1 .. Len(ps)
      BY <2>1, <2>2
    <3>. QED
      BY <2>2, <3>1, <3>2
  <2>4. Gg!Branch(S[k - 1], ps[k]) \in GraphSound
    BY <2>3, OneBranch
  <2>. QED
    BY <1>4, <2>1, <2>2, <2>4
<1>6. S \in [0 .. Len(ps) -> GraphSound]
  BY <1>3, <1>5
<1>. QED
  BY <1>4, <1>6 DEF AreBranches, S

\* What the loop has drawn and reserved for the first k parents.
Branched(own, ps, k, b) ==
  /\ b.col = own.col /\ own.lines \subseteq b.lines
  /\ \A i \in DOMAIN own.lanes : own.lanes[i] # 0 => i \in DOMAIN b.lanes /\ b.lanes[i] = own.lanes[i]
  /\ \A m \in 2 .. k : \E i \in DOMAIN b.lanes :
       b.lanes[i] = ps[m] /\ Gg!Line("branch-up", own.col, i) \in b.lines
  /\ \A x \in b.lines \ own.lines : k > 1 /\ \E i \in DOMAIN b.lanes :
       b.lanes[i] # 0 /\ x = Gg!Line("branch-up", own.col, i)

\* After the loop every other parent has a lane, and a line to it.
LEMMA EveryParentIsBranched ==
  ASSUME NEW own \in GraphSound, NEW ps \in Seq(GraphParent)
  PROVE  /\ Gg!Branches(own, ps)[Len(ps)] \in GraphSound
         /\ Branched(own, ps, Len(ps), Gg!Branches(own, ps)[Len(ps)])
<1>. DEFINE S == Gg!Branches(own, ps)
<1>1. AreBranches(S, own, ps, Len(ps))
  BY BranchesAre
<1>. HIDE DEF S
<1>2. \A k \in 0 .. Len(ps) : Branched(own, ps, k, S[k])
  <2>. DEFINE Bad == {k \in 0 .. Len(ps) : ~Branched(own, ps, k, S[k])}
  <2>. SUFFICES ASSUME Bad # {} PROVE FALSE
    OBVIOUS
  <2>0. Bad \in SUBSET Nat
    OBVIOUS
  <2>1. PICK k \in Bad : \A m \in Bad : k <= m
    <3>. HIDE DEF Bad
    <3>. QED
      BY <2>0, LeastNumber
  <2>2. ~(k <= 1)
    <3>. SUFFICES ASSUME k <= 1 PROVE FALSE
      OBVIOUS
    <3>1. S[k] = own /\ 2 .. k = {}
      BY <1>1, <2>1 DEF AreBranches
    <3>. QED
      BY <2>1, <3>1 DEF Branched
  <2>3. /\ Branched(own, ps, k - 1, S[k - 1]) /\ S[k - 1] \in GraphSound
        /\ ps[k] \in GraphParent /\ S[k] = Gg!Branch(S[k - 1], ps[k])
    <3>1. k - 1 \notin Bad /\ k - 1 \in 0 .. Len(ps)
      BY <2>1, <2>2
    <3>2. k \in 1 .. Len(ps)
      BY <2>1, <2>2
    <3>3. S[k - 1] \in GraphSound /\ S[k] = Gg!Branch(S[k - 1], ps[k])
      BY <1>1, <2>1, <2>2, <3>1 DEF AreBranches
    <3>4. ps[k] \in GraphParent
      BY <3>2
    <3>. QED
      BY <3>1, <3>3, <3>4
  <2>4. BranchesTo(S[k - 1], S[k], ps[k])
    BY <2>3, OneBranch
  <2>. DEFINE a == S[k - 1]
              b == S[k]
  <2>5. Branched(own, ps, k - 1, a) /\ BranchesTo(a, b, ps[k])
    BY <2>3, <2>4
  <2>6. k \in Nat /\ k > 1 /\ ps[k] # 0
    BY <2>1, <2>2, <2>3, GraphAssumption DEF GraphParent
  <2>. HIDE DEF a, b
  <2>7. PICK j \in DOMAIN b.lanes :
          b.lanes[j] = ps[k] /\ b.lines = a.lines \cup {Gg!Line("branch-up", a.col, j)}
    BY <2>5 DEF BranchesTo
  <2>8. b.col = own.col /\ a.col = own.col /\ own.lines \subseteq b.lines /\ own.lines \subseteq a.lines
    BY <2>5, <2>7 DEF Branched, BranchesTo
  <2>9. \A i \in DOMAIN a.lanes : a.lanes[i] # 0 => i \in DOMAIN b.lanes /\ b.lanes[i] = a.lanes[i]
    BY <2>5 DEF BranchesTo
  <2>10. \A i \in DOMAIN own.lanes : own.lanes[i] # 0 => i \in DOMAIN b.lanes /\ b.lanes[i] = own.lanes[i]
    BY <2>5, <2>9 DEF Branched
  <2>11. ASSUME NEW m \in 2 .. k
         PROVE  \E i \in DOMAIN b.lanes : b.lanes[i] = ps[m] /\ Gg!Line("branch-up", own.col, i) \in b.lines
    <3>1. CASE m = k
      BY <2>7, <2>8, <3>1
    <3>2. CASE m # k
      <4>1. m \in 2 .. k - 1
        BY <2>6, <3>2
      <4>2. PICK i \in DOMAIN a.lanes : a.lanes[i] = ps[m] /\ Gg!Line("branch-up", own.col, i) \in a.lines
        BY <2>5, <4>1 DEF Branched
      <4>3. ps[m] # 0
        <5>1. m \in 1 .. Len(ps)
          BY <2>1, <2>6, <4>1
        <5>2. ps[m] \in GraphParent
          BY <5>1
        <5>. QED
          BY <5>2, GraphAssumption DEF GraphParent
      <4>. QED
        BY <2>7, <2>9, <4>2, <4>3
    <3>. QED
      BY <3>1, <3>2
  <2>12. ASSUME NEW x \in b.lines \ own.lines
         PROVE  \E i \in DOMAIN b.lanes : b.lanes[i] # 0 /\ x = Gg!Line("branch-up", own.col, i)
    <3>1. CASE x \in a.lines
      <4>1. PICK i \in DOMAIN a.lanes : a.lanes[i] # 0 /\ x = Gg!Line("branch-up", own.col, i)
        BY <2>5, <3>1 DEF Branched
      <4>. QED
        BY <2>9, <4>1
    <3>2. CASE x \notin a.lines
      BY <2>6, <2>7, <2>8, <3>2
    <3>. QED
      BY <3>1, <3>2
  <2>13. Branched(own, ps, k, b)
    BY <2>6, <2>8, <2>10, <2>11, <2>12 DEF Branched
  <2>. QED
    BY <2>1, <2>13 DEF b
<1>. QED
  BY <1>1, <1>2 DEF AreBranches, S


\* A bounded set of numbers has a greatest element.
LEMMA GreatestNumber ==
  ASSUME NEW S \in SUBSET Nat, S # {}, NEW b \in Nat, \A i \in S : i <= b
  PROVE  \E n \in S : \A i \in S : i <= n
<1>. DEFINE R == {b - i : i \in S}
<1>1. R \in SUBSET Nat /\ R # {}
  <2>1. \A i \in S : b - i \in Nat
    OBVIOUS
  <2>. QED
    BY <2>1
<1>2. PICK r \in R : \A q \in R : r <= q
  <2>. HIDE DEF R
  <2>. QED
    BY <1>1, LeastNumber
<1>3. PICK n \in S : r = b - n
  BY <1>2
<1>4. \A i \in S : b - n <= b - i
  BY <1>2, <1>3
<1>. QED
  BY <1>3, <1>4

\* Trimming drops empty lanes only.
LEMMA TrimmedKeeps ==
  ASSUME NEW s \in Seq(GraphLane)
  PROVE  /\ Gg!TrimmedTo(s) \in 0 .. Len(s)
         /\ \A i \in DOMAIN s : s[i] # 0 => i <= Gg!TrimmedTo(s)
<1>. DEFINE U == {0} \cup {i \in DOMAIN s : s[i] # 0}
<1>1. Gg!Used(s) = U
  BY DEF Gg!Used, Gg!EmptyLane
<1>2. U \in SUBSET Nat /\ U # {} /\ (\A i \in U : i <= Len(s)) /\ U \subseteq 0 .. Len(s)
      /\ Len(s) \in Nat
  OBVIOUS
<1>3. \E n \in U : \A i \in U : i <= n
  <2>. DEFINE b == Len(s)
  <2>1. b \in Nat /\ \A i \in U : i <= b
    BY <1>2
  <2>. HIDE DEF U, b
  <2>. QED
    BY <1>2, <2>1, GreatestNumber
<1>4. Gg!TrimmedTo(s) \in U /\ \A i \in U : i <= Gg!TrimmedTo(s)
  BY <1>1, <1>3 DEF Gg!TrimmedTo
<1>. QED
  BY <1>2, <1>4

\* What the commit itself does to the lanes, before its other parents.
GraphOwn(l, h, n, c, ps) ==
  LET col == Gg!Claimed(l, c)
      isNew == Gg!LaneOf(l, c) = {}
  IN [lanes |-> Gg!OwnLane(Gg!Closed(l, c), col, ps),
      hues  |-> Gg!Put(h, col, IF isNew THEN n ELSE h[col]),
      next  |-> IF isNew THEN (n + 1) % GraphColors ELSE n,
      lines |-> Gg!MergeLines(l, c) \cup Gg!PassLines(l, c) \cup Gg!OwnLines(col, ps),
      col   |-> col]

\* A lane that waits for another commit passes by, the commit's lane goes on to its
\* first parent, and the lanes that waited for it end in it; no line is outside them.
OwnGoesOn(l, c, ps, own) ==
  /\ own.col = Gg!Claimed(l, c)
  /\ \A i \in DOMAIN l : l[i] \notin {0, c} =>
       i # own.col /\ i \in DOMAIN own.lanes /\ own.lanes[i] = l[i] /\ Gg!Line("pass", i, i) \in own.lines
  /\ ps # <<>> => /\ own.col \in DOMAIN own.lanes /\ own.lanes[own.col] = ps[1]
                  /\ Gg!Line("pass", own.col, own.col) \in own.lines
  /\ \A i \in DOMAIN l : l[i] = c => i = own.col \/ Gg!Line("merge-down", i, own.col) \in own.lines
  /\ \A x \in own.lines : /\ x.from \in DOMAIN l \/ (ps # <<>> /\ x.from = own.col)
                          /\ x.to \in DOMAIN l \/ (ps # <<>> /\ x.to = own.col)

\* The lines of the row before the other parents.
LEMMA OwnLinesAreLines ==
  ASSUME NEW l \in Seq(GraphLane), NEW c \in Nat \ {0}, NEW ps \in Seq(GraphParent),
         NEW own, own.col = Gg!Claimed(l, c),
         own.lines = Gg!MergeLines(l, c) \cup Gg!PassLines(l, c) \cup Gg!OwnLines(own.col, ps)
  PROVE  /\ own.lines \subseteq GraphLine
         /\ \A i \in DOMAIN l : l[i] \notin {0, c} => i # own.col /\ Gg!Line("pass", i, i) \in own.lines
         /\ ps # <<>> => Gg!Line("pass", own.col, own.col) \in own.lines
         /\ \A i \in DOMAIN l : l[i] = c => i = own.col \/ Gg!Line("merge-down", i, own.col) \in own.lines
         /\ \A x \in own.lines : /\ x.from \in DOMAIN l \/ (ps # <<>> /\ x.from = own.col)
                                 /\ x.to \in DOMAIN l \/ (ps # <<>> /\ x.to = own.col)
<1>. DEFINE col == own.col
            E == {i \in DOMAIN l : l[i] = c}
            M == {Gg!Line("merge-down", i, col) : i \in E \ {col}}
            P == {Gg!Line("pass", i, i) : i \in {j \in DOMAIN l : l[j] # 0} \ (E \cup {col})}
            O == IF ps = <<>> THEN {} ELSE {Gg!Line("pass", col, col)}
<1>1. Gg!LaneOf(l, c) = E
  BY DEF Gg!LaneOf
<1>2. own.lines = M \cup P \cup O
  BY <1>1 DEF Gg!MergeLines, Gg!PassLines, Gg!OwnLines, Gg!EmptyLane
<1>3. /\ col \in Nat \ {0} /\ (col \in DOMAIN l => l[col] \in {0, c})
      /\ \A i \in E : col \in DOMAIN l
  <2>1. c \in Nat
    OBVIOUS
  <2>2. /\ Gg!Claimed(l, c) \in 1 .. Len(l) + 1
        /\ Gg!Claimed(l, c) \in DOMAIN l => l[Gg!Claimed(l, c)] \in {0, c}
        /\ \A i \in DOMAIN l : l[i] = c => Gg!Claimed(l, c) \in DOMAIN l
    BY <2>1, ClaimedWaits
  <2>3. \A i \in 1 .. Len(l) + 1 : i \in Nat \ {0}
    OBVIOUS
  <2>. QED
    BY <2>2, <2>3
<1>4. \A i \in DOMAIN l : i \in Nat \ {0}
  OBVIOUS
<1>5. \A k \in {"pass", "merge-down"}, i, j \in Nat \ {0} :
        Gg!Line(k, i, j) \in GraphLine /\ Gg!Line(k, i, j).from = i /\ Gg!Line(k, i, j).to = j
  BY DEF Gg!Line, GraphLine
<1>6. \A x \in M : x \in GraphLine /\ x.from \in DOMAIN l /\ x.to \in DOMAIN l
  BY <1>3, <1>4, <1>5
<1>7. \A x \in P : x \in GraphLine /\ x.from \in DOMAIN l /\ x.to \in DOMAIN l
  BY <1>4, <1>5
<1>8. \A x \in O : x \in GraphLine /\ ps # <<>> /\ x.from = col /\ x.to = col
  BY <1>3, <1>5
<1>9. \A i \in DOMAIN l : l[i] \notin {0, c} => i # col /\ Gg!Line("pass", i, i) \in P
  BY <1>3
<1>10. \A i \in DOMAIN l : l[i] = c => i = col \/ Gg!Line("merge-down", i, col) \in M
  OBVIOUS
<1>11. ps # <<>> => Gg!Line("pass", col, col) \in O
  OBVIOUS
<1>. HIDE DEF M, P, O
<1>. QED
  BY <1>2, <1>6, <1>7, <1>8, <1>9, <1>10, <1>11

\* The commit's own lane.
LEMMA OwnIsSound ==
  ASSUME NEW l \in Seq(GraphLane), NEW h \in Seq(GraphHue), Len(h) = Len(l), NEW n \in GraphHue,
         NEW c \in Nat \ {0}, NEW ps \in Seq(GraphParent)
  PROVE  /\ GraphOwn(l, h, n, c, ps) \in GraphSound
         /\ OwnGoesOn(l, c, ps, GraphOwn(l, h, n, c, ps))
         /\ (IF Gg!LaneOf(l, c) = {} THEN n ELSE h[Gg!Claimed(l, c)]) \in GraphHue
<1>. DEFINE own == GraphOwn(l, h, n, c, ps)
            col == Gg!Claimed(l, c)
            new == Gg!LaneOf(l, c) = {}
            hue == IF new THEN n ELSE h[col]
            d == Gg!Closed(l, c)
            x == IF ps = <<>> THEN 0 ELSE ps[1]
            m == Gg!Put(d, col, x)
            g == Gg!Put(h, col, hue)
            lines == Gg!MergeLines(l, c) \cup Gg!PassLines(l, c) \cup Gg!OwnLines(col, ps)
<1>1. own = [lanes |-> m, hues |-> g, next |-> IF new THEN (n + 1) % GraphColors ELSE n,
             lines |-> lines, col |-> col]
  BY DEF GraphOwn, Gg!OwnLane, Gg!EmptyLane
<1>2. /\ col \in 1 .. Len(l) + 1 /\ col \in Nat \ {0} /\ (col \in DOMAIN l => l[col] \in {0, c})
      /\ \A i \in DOMAIN l : l[i] = c => col \in DOMAIN l
  <2>1. c \in Nat
    OBVIOUS
  <2>2. \A i \in 1 .. Len(l) + 1 : i \in Nat \ {0}
    OBVIOUS
  <2>3. /\ Gg!Claimed(l, c) \in 1 .. Len(l) + 1
        /\ Gg!Claimed(l, c) \in DOMAIN l => l[Gg!Claimed(l, c)] \in {0, c}
        /\ \A i \in DOMAIN l : l[i] = c => Gg!Claimed(l, c) \in DOMAIN l
    BY <2>1, ClaimedWaits
  <2>. QED
    BY <2>2, <2>3
<1>3. hue \in GraphHue
  <2>1. CASE new
    BY <2>1
  <2>2. CASE ~new
    <3>1. col \in DOMAIN l
      BY <1>2, <2>2 DEF Gg!LaneOf
    <3>2. col \in DOMAIN h
      BY <3>1
    <3>3. h[col] \in GraphHue
      BY <3>2
    <3>. QED
      BY <2>2, <3>3
  <2>. QED
    BY <2>1, <2>2
<1>4. d \in Seq(GraphLane) /\ Len(d) = Len(l) /\ (\A i \in DOMAIN l : l[i] # c => d[i] = l[i])
  <2>1. 0 \in GraphLane
    BY GraphAssumption DEF GraphLane
  <2>2. d = [i \in 1 .. Len(l) |-> IF l[i] = c /\ i # col THEN 0 ELSE l[i]]
    BY DEF Gg!Closed, Gg!EmptyLane
  <2>. HIDE DEF d
  <2>. QED
    BY <2>1, <2>2
<1>5. x \in GraphLane
  <2>1. ps # <<>> => ps[1] \in GraphParent
    OBVIOUS
  <2>. QED
    BY <2>1, GraphAssumption DEF GraphLane, GraphParent
<1>. HIDE DEF d, x, hue, col
<1>6. /\ m \in Seq(GraphLane) /\ col \in DOMAIN m /\ m[col] = x
      /\ Len(m) = IF col > Len(d) THEN Len(d) + 1 ELSE Len(d)
      /\ \A j \in DOMAIN d : j # col => j \in DOMAIN m /\ m[j] = d[j]
  BY <1>2, <1>4, <1>5, PutInto
<1>7. g \in Seq(GraphHue) /\ Len(g) = IF col > Len(h) THEN Len(h) + 1 ELSE Len(h)
  <2>1. h \in Seq(GraphHue) /\ col \in 1 .. Len(h) + 1 /\ hue \in GraphHue
    BY <1>2, <1>3
  <2>. QED
    BY <2>1, PutInto
<1>8. (n + 1) % GraphColors \in GraphHue
  BY NextHue
<1>. HIDE DEF m, g, lines, new, own
<1>9. own.col = col /\ own.lines = lines /\ own.lanes = m
  BY <1>1
<1>10. /\ lines \subseteq GraphLine
       /\ \A i \in DOMAIN l : l[i] \notin {0, c} => i # col /\ Gg!Line("pass", i, i) \in lines
       /\ ps # <<>> => Gg!Line("pass", col, col) \in lines
       /\ \A i \in DOMAIN l : l[i] = c => i = col \/ Gg!Line("merge-down", i, col) \in lines
       /\ \A y \in lines : /\ y.from \in DOMAIN l \/ (ps # <<>> /\ y.from = col)
                           /\ y.to \in DOMAIN l \/ (ps # <<>> /\ y.to = col)
  <2>1. own.col = Gg!Claimed(l, c)
    BY <1>9 DEF col
  <2>2. own.lines = Gg!MergeLines(l, c) \cup Gg!PassLines(l, c) \cup Gg!OwnLines(own.col, ps)
    BY <1>9 DEF lines
  <2>. QED
    BY <1>9, <2>1, <2>2, OwnLinesAreLines
<1>11. own \in GraphSound
  BY <1>1, <1>2, <1>4, <1>6, <1>7, <1>8, <1>10 DEF GraphSound, GraphAcc
<1>12. \A i \in DOMAIN l : l[i] \notin {0, c} => i \in DOMAIN m /\ m[i] = l[i]
  BY <1>4, <1>6, <1>10
<1>13. ps # <<>> => x = ps[1]
  BY DEF x
<1>14. OwnGoesOn(l, c, ps, own)
  BY <1>6, <1>9, <1>10, <1>12, <1>13 DEF OwnGoesOn, col
<1>. QED
  BY <1>3, <1>11, <1>14 DEF own, hue, col, new


-----------------------------------------------------------------------------
\* A row of the graph.
GraphRow == [col : Nat \ {0}, hue : GraphHue, laneCount : Nat, lines : SUBSET GraphLine, isMerge : BOOLEAN]

\* The rows, one for each commit placed, whose parents are later; lanes and colours.
GraphTypes ==
  /\ ggRows \in Seq(GraphRow) /\ ggParents \in Seq(Seq(GraphParent)) /\ Len(ggParents) = Len(ggRows)
  /\ \A c \in DOMAIN ggParents : \A k \in DOMAIN ggParents[c] : ggParents[c][k] > c
  /\ ggLanes \in Seq(GraphLane) /\ ggHues \in Seq(GraphHue) /\ Len(ggHues) = Len(ggLanes)
  /\ ggNext \in GraphHue

\* What a row does with lanes l, of which m are left: lanes for other commits pass by,
\* each parent has a lane that the row draws into, those for this commit arrive.
RowPlaced(l, c, ps, row, m) ==
  /\ \A i \in DOMAIN l : l[i] \notin {0, c} => i \in DOMAIN m /\ m[i] = l[i] /\ Gg!Crosses(row, i)
  /\ \A k \in DOMAIN ps : \E i \in DOMAIN m : m[i] = ps[k] /\ Gg!Leaves(row, i)
  /\ ps # <<>> => \A i \in DOMAIN l : l[i] = c => Gg!Arrives(row, i)
  /\ row.laneCount = Len(m)
  /\ \A x \in row.lines : /\ x.from <= Len(l) \/ x.from <= Len(m)
                          /\ x.to <= Len(l) \/ x.to <= Len(m)

\* Parents come later, on the list or beyond it.
LEMMA ParentsAreLater ==
  ASSUME NEW c \in Nat \ {0}, NEW ps \in Gg!ParentsOf(c)
  PROVE  ps \in Seq(GraphParent) /\ \A k \in DOMAIN ps : ps[k] > c
<1>1. PICK n \in 0 .. MaxParents : ps \in [1 .. n -> (c + 1) .. GraphSize + 1]
  BY DEF Gg!ParentsOf, Gg!Beyond
<1>2. n \in Nat
  BY <1>1, GraphAssumption
<1>3. \A k \in 1 .. n : ps[k] \in GraphParent /\ ps[k] > c
  BY <1>1, GraphAssumption DEF GraphParent
<1>4. ps \in [1 .. n -> GraphParent]
  BY <1>1, <1>3
<1>. QED
  BY <1>2, <1>3, <1>4

\* Trimmed lanes keep those that are not empty.
LEMMA TrimmedLanes ==
  ASSUME NEW a \in GraphSound
  PROVE  LET n == Gg!TrimmedTo(a.lanes) IN
         /\ SubSeq(a.lanes, 1, n) \in Seq(GraphLane) /\ SubSeq(a.hues, 1, n) \in Seq(GraphHue)
         /\ n \in Nat /\ Len(SubSeq(a.lanes, 1, n)) = n /\ Len(SubSeq(a.hues, 1, n)) = n
         /\ \A i \in DOMAIN a.lanes : a.lanes[i] # 0 =>
              i \in DOMAIN SubSeq(a.lanes, 1, n) /\ SubSeq(a.lanes, 1, n)[i] = a.lanes[i] /\ i <= n
<1>. DEFINE l == a.lanes
            h == a.hues
            n == Gg!TrimmedTo(l)
<1>1. l \in Seq(GraphLane) /\ h \in Seq(GraphHue) /\ Len(h) = Len(l)
  BY DEF GraphSound, GraphAcc
<1>2. n \in 0 .. Len(l) /\ \A i \in DOMAIN l : l[i] # 0 => i <= n
  BY <1>1, TrimmedKeeps
<1>. HIDE DEF l, h, n
<1>3. /\ SubSeq(l, 1, n) \in Seq(GraphLane) /\ SubSeq(h, 1, n) \in Seq(GraphHue)
      /\ n \in Nat /\ Len(SubSeq(l, 1, n)) = n /\ Len(SubSeq(h, 1, n)) = n
      /\ \A i \in 1 .. n : SubSeq(l, 1, n)[i] = l[i]
  BY <1>1, <1>2
<1>4. \A i \in DOMAIN l : l[i] # 0 => i \in 1 .. n /\ i <= n
  BY <1>1, <1>2
<1>5. DOMAIN SubSeq(l, 1, n) = 1 .. n
  BY <1>3
<1>. QED
  BY <1>3, <1>4, <1>5 DEF l, h, n

\* One turn of the loop places a commit.
LEMMA PlacesARow ==
  ASSUME GraphTypes, NEW ps \in Gg!ParentsOf(Len(ggRows) + 1), Gg!Place(ps)
  PROVE  /\ GraphTypes' /\ ggParents' = Append(ggParents, ps)
         /\ \E row \in GraphRow : /\ ggRows' = Append(ggRows, row)
                                  /\ RowPlaced(ggLanes, Len(ggRows) + 1, ps, row, ggLanes')
<1>. DEFINE c == Len(ggRows) + 1
            l == ggLanes
            own == GraphOwn(l, ggHues, ggNext, c, ps)
            all == Gg!Branches(own, ps)[Len(ps)]
            n == Gg!TrimmedTo(all.lanes)
            hue == IF Gg!LaneOf(l, c) = {} THEN ggNext ELSE ggHues[Gg!Claimed(l, c)]
            row == [col |-> Gg!Claimed(l, c), hue |-> hue, laneCount |-> n, lines |-> all.lines,
                    isMerge |-> Len(ps) > 1]
<1>1. /\ ggLanes' = SubSeq(all.lanes, 1, n) /\ ggHues' = SubSeq(all.hues, 1, n) /\ ggNext' = all.next
      /\ ggRows' = Append(ggRows, row) /\ ggParents' = Append(ggParents, ps)
  BY DEF Gg!Place, GraphOwn
<1>2. c \in Nat \ {0} /\ l \in Seq(GraphLane) /\ ggHues \in Seq(GraphHue) /\ Len(ggHues) = Len(l)
      /\ ggNext \in GraphHue
  BY DEF GraphTypes
<1>3. ps \in Seq(GraphParent) /\ \A k \in DOMAIN ps : ps[k] > c
  BY <1>2, ParentsAreLater
<1>4. own \in GraphSound /\ OwnGoesOn(l, c, ps, own) /\ hue \in GraphHue
  BY <1>2, <1>3, OwnIsSound
<1>. HIDE DEF c, own, hue, l
<1>5. all \in GraphSound /\ Branched(own, ps, Len(ps), all)
  BY <1>3, <1>4, EveryParentIsBranched
<1>. HIDE DEF all
<1>6. /\ ggLanes' \in Seq(GraphLane) /\ ggHues' \in Seq(GraphHue) /\ n \in Nat
      /\ Len(ggLanes') = n /\ Len(ggHues') = n
      /\ \A i \in DOMAIN all.lanes : all.lanes[i] # 0 =>
           i \in DOMAIN ggLanes' /\ ggLanes'[i] = all.lanes[i] /\ i <= n
  BY <1>1, <1>5, TrimmedLanes
<1>7. all.next \in GraphHue /\ all.lines \subseteq GraphLine /\ own.col \in Nat \ {0}
  BY <1>4, <1>5 DEF GraphSound, GraphAcc
<1>. HIDE DEF n
<1>8. own.col = Gg!Claimed(l, c)
  BY <1>4 DEF OwnGoesOn
<1>9. row \in GraphRow /\ row.col = own.col /\ row.lines = all.lines /\ row.laneCount = n
  BY <1>4, <1>6, <1>7, <1>8 DEF GraphRow
<1>. HIDE DEF row
<1>10. ASSUME NEW i \in DOMAIN l, l[i] \notin {0, c}
       PROVE  i \in DOMAIN ggLanes' /\ ggLanes'[i] = l[i] /\ Gg!Crosses(row, i)
  <2>1. i # own.col /\ i \in DOMAIN own.lanes /\ own.lanes[i] = l[i] /\ Gg!Line("pass", i, i) \in own.lines
    BY <1>4, <1>10 DEF OwnGoesOn
  <2>2. i \in DOMAIN all.lanes /\ all.lanes[i] = l[i] /\ Gg!Line("pass", i, i) \in all.lines
    BY <1>5, <1>10, <2>1 DEF Branched
  <2>. QED
    BY <1>6, <1>9, <1>10, <2>1, <2>2 DEF Gg!Crosses
<1>11. \A k \in DOMAIN ps : ps[k] # 0
  BY <1>2, <1>3
<1>12. ASSUME ps # <<>>
       PROVE  /\ own.col \in DOMAIN ggLanes' /\ ggLanes'[own.col] = ps[1] /\ own.col <= n
              /\ Gg!Line("pass", own.col, own.col) \in row.lines
  <2>1. own.col \in DOMAIN own.lanes /\ own.lanes[own.col] = ps[1] /\ Gg!Line("pass", own.col, own.col) \in own.lines
    BY <1>4, <1>12 DEF OwnGoesOn
  <2>2. ps[1] # 0
    BY <1>3, <1>11, <1>12
  <2>3. own.col \in DOMAIN all.lanes /\ all.lanes[own.col] = ps[1] /\ Gg!Line("pass", own.col, own.col) \in all.lines
    BY <1>5, <2>1, <2>2 DEF Branched
  <2>. QED
    BY <1>6, <1>9, <2>2, <2>3
<1>13. ASSUME NEW k \in DOMAIN ps
       PROVE  \E i \in DOMAIN ggLanes' : ggLanes'[i] = ps[k] /\ Gg!Leaves(row, i)
  <2>1. CASE k = 1
    <3>1. ps # <<>>
      BY <1>3
    <3>. QED
      BY <1>9, <1>12, <2>1, <3>1 DEF Gg!Leaves
  <2>2. CASE k # 1
    <3>1. k \in 2 .. Len(ps)
      BY <1>3, <2>2
    <3>2. PICK i \in DOMAIN all.lanes : all.lanes[i] = ps[k] /\ Gg!Line("branch-up", own.col, i) \in all.lines
      BY <1>5, <3>1 DEF Branched
    <3>. QED
      BY <1>6, <1>9, <1>11, <3>2 DEF Gg!Leaves
  <2>. QED
    BY <2>1, <2>2
<1>14. ASSUME ps # <<>>, NEW i \in DOMAIN l, l[i] = c
       PROVE  Gg!Arrives(row, i)
  <2>1. i = own.col \/ Gg!Line("merge-down", i, own.col) \in own.lines
    BY <1>4, <1>14 DEF OwnGoesOn
  <2>2. own.lines \subseteq all.lines
    BY <1>5 DEF Branched
  <2>. QED
    BY <1>9, <1>12, <1>14, <2>1, <2>2 DEF Gg!Arrives
<1>15. ASSUME NEW x \in row.lines
       PROVE  /\ x.from <= Len(l) \/ x.from <= Len(ggLanes')
              /\ x.to <= Len(l) \/ x.to <= Len(ggLanes')
  <2>1. CASE x \in own.lines
    <3>1. /\ x.from \in DOMAIN l \/ (ps # <<>> /\ x.from = own.col)
          /\ x.to \in DOMAIN l \/ (ps # <<>> /\ x.to = own.col)
      BY <1>4, <2>1 DEF OwnGoesOn
    <3>. QED
      BY <1>2, <1>6, <1>12, <3>1
  <2>2. CASE x \notin own.lines
    <3>1. x \in all.lines \ own.lines
      BY <1>9, <2>2
    <3>2. Len(ps) > 1 /\ \E i \in DOMAIN all.lanes : all.lanes[i] # 0 /\ x = Gg!Line("branch-up", own.col, i)
      BY <1>5, <3>1 DEF Branched
    <3>3. PICK i \in DOMAIN all.lanes : all.lanes[i] # 0 /\ x = Gg!Line("branch-up", own.col, i)
      BY <3>2
    <3>4. x.from = own.col /\ x.to = i /\ i <= n
      BY <1>6, <3>3 DEF Gg!Line
    <3>5. ps # <<>>
      BY <1>3, <3>2
    <3>. QED
      BY <1>6, <1>12, <3>4, <3>5
  <2>. QED
    BY <2>1, <2>2
<1>16. RowPlaced(l, c, ps, row, ggLanes')
  BY <1>6, <1>9, <1>10, <1>13, <1>14, <1>15 DEF RowPlaced
<1>17. GraphTypes'
  <2>1. ggRows' \in Seq(GraphRow) /\ ggParents' \in Seq(Seq(GraphParent)) /\ Len(ggParents') = Len(ggRows')
    BY <1>1, <1>3, <1>9 DEF GraphTypes
  <2>2. \A d \in DOMAIN ggParents' : \A k \in DOMAIN ggParents'[d] : ggParents'[d][k] > d
    <3>1. /\ DOMAIN ggParents' = 1 .. c /\ ggParents'[c] = ps
          /\ \A d \in 1 .. Len(ggParents) : ggParents'[d] = ggParents[d]
          /\ Len(ggParents) = c - 1 /\ DOMAIN ggParents = 1 .. Len(ggParents)
      BY <1>1, <1>3 DEF GraphTypes, c
    <3>2. \A d \in 1 .. c : d = c \/ d \in DOMAIN ggParents
      BY <1>2, <3>1
    <3>3. \A d \in DOMAIN ggParents : \A k \in DOMAIN ggParents[d] : ggParents[d][k] > d
      BY DEF GraphTypes
    <3>. QED
      BY <1>3, <3>1, <3>2, <3>3
  <2>. QED
    BY <1>1, <1>6, <1>7, <2>1, <2>2 DEF GraphTypes
<1>. QED
  BY <1>1, <1>9, <1>16, <1>17 DEF c, l


\* A lane left by row i has crossed every row since, and waits for commit j.
LaneAwaits(rows, lanes, i, j) ==
  \E col \in DOMAIN lanes :
    lanes[col] = j /\ Gg!Leaves(rows[i], col) /\ \A k \in i + 1 .. Len(rows) : Gg!Crosses(rows[k], col)

\* A line without a gap from row i to row j.
LineJoins(rows, i, j) ==
  \E col \in Nat \ {0} :
    Gg!Leaves(rows[i], col) /\ (\A k \in i + 1 .. j - 1 : Gg!Crosses(rows[k], col)) /\ Gg!Arrives(rows[j], col)

\* Every parent is joined, or a lane waits for it.
ParentsAreReached ==
  \A i \in DOMAIN ggRows : \A m \in DOMAIN ggParents[i] :
    LET j == ggParents[i][m] IN
      IF j > Len(ggRows) THEN LaneAwaits(ggRows, ggLanes, i, j) ELSE ggParents[j] # <<>> => LineJoins(ggRows, i, j)

\* Every lane and every line is within the lanes of some row, and the rows within a width.
RowsFit ==
  /\ \A i \in DOMAIN ggRows : \A x \in ggRows[i].lines :
       /\ \E k \in DOMAIN ggRows : x.from <= ggRows[k].laneCount
       /\ \E k \in DOMAIN ggRows : x.to <= ggRows[k].laneCount
  /\ ggLanes # <<>> => \E k \in DOMAIN ggRows : Len(ggLanes) <= ggRows[k].laneCount
  /\ \E b \in Nat : \A k \in DOMAIN ggRows : ggRows[k].laneCount <= b

\* The inductive invariant of the graph.
GraphInv == GraphTypes /\ ParentsAreReached /\ RowsFit

\* One more row leaves the parents reached.
LEMMA ARowReaches ==
  ASSUME GraphTypes, ParentsAreReached, GraphTypes', NEW row \in GraphRow, NEW ps \in Seq(GraphParent),
         ggRows' = Append(ggRows, row), ggParents' = Append(ggParents, ps),
         \A k \in DOMAIN ps : ps[k] > Len(ggRows) + 1,
         RowPlaced(ggLanes, Len(ggRows) + 1, ps, row, ggLanes')
  PROVE  ParentsAreReached'
<1>. DEFINE c == Len(ggRows) + 1
<1>1. /\ c \in Nat \ {0} /\ Len(ggRows) = c - 1 /\ Len(ggRows') = c
      /\ DOMAIN ggRows = 1 .. c - 1 /\ DOMAIN ggRows' = 1 .. c /\ ggRows'[c] = row
      /\ \A i \in 1 .. c - 1 : ggRows'[i] = ggRows[i]
  BY DEF GraphTypes
<1>2. /\ DOMAIN ggParents = 1 .. c - 1 /\ ggParents'[c] = ps
      /\ \A i \in 1 .. c - 1 : ggParents'[i] = ggParents[i]
  BY DEF GraphTypes
<1>3. /\ \A i \in DOMAIN ggLanes : ggLanes[i] \notin {0, c} =>
           i \in DOMAIN ggLanes' /\ ggLanes'[i] = ggLanes[i] /\ Gg!Crosses(row, i)
      /\ \A k \in DOMAIN ps : \E i \in DOMAIN ggLanes' : ggLanes'[i] = ps[k] /\ Gg!Leaves(row, i)
      /\ ps # <<>> => \A i \in DOMAIN ggLanes : ggLanes[i] = c => Gg!Arrives(row, i)
  BY DEF RowPlaced
<1>4. \A k \in DOMAIN ps : ps[k] > c
  OBVIOUS
<1>5. \A i \in 1 .. c - 1 : \A m \in DOMAIN ggParents[i] : ggParents[i][m] \in Nat /\ ggParents[i][m] > i
  <2>1. ASSUME NEW i \in 1 .. c - 1, NEW m \in DOMAIN ggParents[i]
        PROVE  ggParents[i][m] \in Nat /\ ggParents[i][m] > i
    <3>1. i \in DOMAIN ggParents /\ ggParents[i] \in Seq(GraphParent)
      BY <1>2 DEF GraphTypes
    <3>2. ggParents[i][m] \in GraphParent
      BY <3>1
    <3>. QED
      BY <3>1, <3>2, GraphAssumption DEF GraphParent, GraphTypes
  <2>. QED
    BY <2>1
<1>6. DOMAIN ggLanes \subseteq Nat \ {0}
  BY DEF GraphTypes
<1>. HIDE DEF c
<1>7. ASSUME NEW m \in DOMAIN ps
      PROVE  ps[m] > Len(ggRows') /\ LaneAwaits(ggRows', ggLanes', c, ps[m])
  <2>1. ps[m] > c
    BY <1>4
  <2>2. PICK i \in DOMAIN ggLanes' : ggLanes'[i] = ps[m] /\ Gg!Leaves(row, i)
    BY <1>3
  <2>3. c + 1 .. Len(ggRows') = {}
    BY <1>1
  <2>. QED
    BY <1>1, <2>1, <2>2, <2>3 DEF LaneAwaits
<1>8. ASSUME NEW i \in 1 .. c - 1, NEW m \in DOMAIN ggParents[i], ggParents[i][m] > c
      PROVE  LaneAwaits(ggRows', ggLanes', i, ggParents[i][m])
  <2>. DEFINE j == ggParents[i][m]
  <2>1. j \in Nat /\ j > c /\ j > Len(ggRows) /\ j \notin {0, c}
    BY <1>1, <1>5, <1>8
  <2>2. LaneAwaits(ggRows, ggLanes, i, j)
    BY <1>1, <2>1 DEF ParentsAreReached
  <2>. HIDE DEF j
  <2>3. PICK col \in DOMAIN ggLanes :
          /\ ggLanes[col] = j /\ Gg!Leaves(ggRows[i], col)
          /\ \A k \in i + 1 .. Len(ggRows) : Gg!Crosses(ggRows[k], col)
    BY <2>2 DEF LaneAwaits
  <2>4. col \in DOMAIN ggLanes' /\ ggLanes'[col] = j /\ Gg!Crosses(row, col)
    BY <1>3, <2>1, <2>3
  <2>5. ASSUME NEW k \in i + 1 .. c
        PROVE  Gg!Crosses(ggRows'[k], col)
    <3>1. k = c \/ (k \in i + 1 .. Len(ggRows) /\ k \in 1 .. c - 1)
      BY <1>1
    <3>. QED
      BY <1>1, <2>3, <2>4, <3>1
  <2>6. Gg!Leaves(ggRows'[i], col)
    BY <1>1, <2>3
  <2>. QED
    BY <1>1, <2>4, <2>5, <2>6 DEF LaneAwaits, j
<1>9. ASSUME NEW i \in 1 .. c - 1, NEW m \in DOMAIN ggParents[i], ggParents[i][m] = c, ps # <<>>
      PROVE  LineJoins(ggRows', i, c)
  <2>1. LaneAwaits(ggRows, ggLanes, i, c)
    BY <1>1, <1>9 DEF ParentsAreReached
  <2>2. PICK col \in DOMAIN ggLanes :
          /\ ggLanes[col] = c /\ Gg!Leaves(ggRows[i], col)
          /\ \A k \in i + 1 .. Len(ggRows) : Gg!Crosses(ggRows[k], col)
    BY <2>1 DEF LaneAwaits
  <2>3. Gg!Arrives(ggRows'[c], col)
    BY <1>1, <1>3, <1>9, <2>2
  <2>4. \A k \in i + 1 .. c - 1 : Gg!Crosses(ggRows'[k], col)
    <3>1. \A k \in i + 1 .. c - 1 : k \in i + 1 .. Len(ggRows) /\ k \in 1 .. c - 1
      BY <1>1
    <3>. QED
      BY <1>1, <2>2, <3>1
  <2>5. Gg!Leaves(ggRows'[i], col) /\ col \in Nat \ {0}
    BY <1>1, <1>6, <2>2
  <2>. QED
    BY <2>3, <2>4, <2>5 DEF LineJoins
<1>10. ASSUME NEW i \in 1 .. c - 1, NEW m \in DOMAIN ggParents[i], ggParents[i][m] < c,
              ggParents[ggParents[i][m]] # <<>>
       PROVE  LineJoins(ggRows', i, ggParents[i][m])
  <2>. DEFINE j == ggParents[i][m]
  <2>1. j \in 1 .. c - 1 /\ ~(j > Len(ggRows)) /\ j > i
    BY <1>1, <1>5, <1>10
  <2>2. LineJoins(ggRows, i, j)
    BY <1>1, <1>10, <2>1 DEF ParentsAreReached
  <2>. HIDE DEF j
  <2>3. PICK col \in Nat \ {0} :
          /\ Gg!Leaves(ggRows[i], col) /\ Gg!Arrives(ggRows[j], col)
          /\ \A k \in i + 1 .. j - 1 : Gg!Crosses(ggRows[k], col)
    BY <2>2 DEF LineJoins
  <2>4. \A k \in i + 1 .. j - 1 : k \in 1 .. c - 1
    BY <1>1, <2>1
  <2>5. \A k \in i + 1 .. j - 1 : Gg!Crosses(ggRows'[k], col)
    BY <1>1, <2>3, <2>4
  <2>6. Gg!Leaves(ggRows'[i], col) /\ Gg!Arrives(ggRows'[j], col)
    BY <1>1, <2>1, <2>3
  <2>. QED
    BY <2>3, <2>5, <2>6 DEF LineJoins, j
<1>11. ASSUME NEW i \in DOMAIN ggRows', NEW m \in DOMAIN ggParents'[i]
       PROVE  IF ggParents'[i][m] > Len(ggRows') THEN LaneAwaits(ggRows', ggLanes', i, ggParents'[i][m])
              ELSE ggParents'[ggParents'[i][m]] # <<>> => LineJoins(ggRows', i, ggParents'[i][m])
  <2>1. CASE i = c
    BY <1>2, <1>7, <2>1
  <2>2. CASE i # c
    <3>1. i \in 1 .. c - 1 /\ ggParents'[i] = ggParents[i] /\ m \in DOMAIN ggParents[i]
      BY <1>1, <1>2, <2>2
    <3>. DEFINE j == ggParents[i][m]
    <3>2. j \in Nat /\ j > i /\ ggParents'[i][m] = j
      BY <1>5, <3>1
    <3>3. CASE j > c
      BY <1>1, <1>8, <3>1, <3>2, <3>3
    <3>4. CASE j = c
      BY <1>1, <1>2, <1>9, <3>1, <3>2, <3>4
    <3>5. CASE j < c
      <4>1. j \in 1 .. c - 1 /\ ~(j > Len(ggRows'))
        BY <1>1, <3>1, <3>2, <3>5
      <4>2. ggParents'[j] = ggParents[j]
        BY <1>2, <4>1
      <4>. QED
        BY <1>10, <3>1, <3>2, <3>5, <4>1, <4>2
    <3>6. j > c \/ j = c \/ j < c
      BY <1>1, <3>2
    <3>. QED
      BY <3>3, <3>4, <3>5, <3>6
  <2>. QED
    BY <2>1, <2>2
<1>. QED
  BY <1>11 DEF ParentsAreReached

\* One more row leaves every line within the rows' lanes.
LEMMA ARowFits ==
  ASSUME GraphTypes, RowsFit, GraphTypes', NEW row \in GraphRow, NEW ps,
         ggRows' = Append(ggRows, row), RowPlaced(ggLanes, Len(ggRows) + 1, ps, row, ggLanes')
  PROVE  RowsFit'
<1>. DEFINE c == Len(ggRows) + 1
<1>1. /\ c \in Nat \ {0} /\ DOMAIN ggRows = 1 .. c - 1 /\ DOMAIN ggRows' = 1 .. c /\ ggRows'[c] = row
      /\ \A i \in 1 .. c - 1 : ggRows'[i] = ggRows[i]
  BY DEF GraphTypes
<1>. HIDE DEF c
<1>2. row.laneCount = Len(ggLanes') /\ row.laneCount \in Nat /\ row.lines \subseteq GraphLine
  BY DEF RowPlaced, GraphRow
<1>3. Len(ggLanes) \in Nat /\ \A k \in DOMAIN ggRows : ggRows[k].laneCount \in Nat
  <2>1. \A k \in DOMAIN ggRows : ggRows[k] \in GraphRow
    BY DEF GraphTypes
  <2>2. Len(ggLanes) \in Nat
    BY DEF GraphTypes
  <2>. QED
    BY <2>1, <2>2 DEF GraphRow
<1>4. ASSUME NEW n \in Nat \ {0}, n <= Len(ggLanes) \/ n <= Len(ggLanes')
      PROVE  \E k \in DOMAIN ggRows' : n <= ggRows'[k].laneCount
  <2>1. CASE n <= Len(ggLanes')
    BY <1>1, <1>2, <2>1
  <2>2. CASE n <= Len(ggLanes)
    <3>1. ggLanes # <<>>
      BY <2>2
    <3>2. PICK k \in DOMAIN ggRows : Len(ggLanes) <= ggRows[k].laneCount
      BY <3>1 DEF RowsFit
    <3>3. n <= ggRows[k].laneCount /\ k \in DOMAIN ggRows' /\ ggRows'[k] = ggRows[k]
      BY <1>1, <1>3, <2>2, <3>2
    <3>. QED
      BY <3>3
  <2>. QED
    BY <1>4, <2>1, <2>2
<1>5. ASSUME NEW i \in DOMAIN ggRows', NEW x \in ggRows'[i].lines
      PROVE  /\ \E k \in DOMAIN ggRows' : x.from <= ggRows'[k].laneCount
             /\ \E k \in DOMAIN ggRows' : x.to <= ggRows'[k].laneCount
  <2>1. CASE i = c
    <3>1. x \in row.lines /\ x.from \in Nat \ {0} /\ x.to \in Nat \ {0}
      BY <1>1, <1>2, <2>1 DEF GraphLine
    <3>2. /\ x.from <= Len(ggLanes) \/ x.from <= Len(ggLanes')
          /\ x.to <= Len(ggLanes) \/ x.to <= Len(ggLanes')
      BY <3>1 DEF RowPlaced
    <3>. QED
      BY <1>4, <3>1, <3>2
  <2>2. CASE i # c
    <3>1. i \in DOMAIN ggRows /\ x \in ggRows[i].lines
      BY <1>1, <2>2
    <3>2. /\ \E k \in DOMAIN ggRows : x.from <= ggRows[k].laneCount
          /\ \E k \in DOMAIN ggRows : x.to <= ggRows[k].laneCount
      BY <3>1 DEF RowsFit
    <3>. QED
      BY <1>1, <3>2
  <2>. QED
    BY <2>1, <2>2
<1>6. \E k \in DOMAIN ggRows' : Len(ggLanes') <= ggRows'[k].laneCount
  BY <1>1, <1>2
<1>7. \E b \in Nat : \A k \in DOMAIN ggRows' : ggRows'[k].laneCount <= b
  <2>1. PICK b \in Nat : \A k \in DOMAIN ggRows : ggRows[k].laneCount <= b
    BY DEF RowsFit
  <2>. DEFINE d == b + row.laneCount
  <2>2. d \in Nat /\ row.laneCount <= d /\ \A n \in Nat : n <= b => n <= d
    BY <1>2, <2>1
  <2>. HIDE DEF d
  <2>3. ASSUME NEW k \in DOMAIN ggRows'
        PROVE  ggRows'[k].laneCount <= d
    <3>1. CASE k = c
      BY <1>1, <2>2, <3>1
    <3>2. CASE k # c
      <4>1. k \in DOMAIN ggRows /\ ggRows'[k] = ggRows[k]
        BY <1>1, <3>2
      <4>. QED
        BY <1>3, <2>1, <2>2, <4>1
    <3>. QED
      BY <3>1, <3>2
  <2>. QED
    BY <2>2, <2>3
<1>. QED
  BY <1>5, <1>6, <1>7 DEF RowsFit

\* Every step of the loop keeps the graph's invariant.
LEMMA GraphStep ==
  ASSUME GraphInv, GraphNext
  PROVE  GraphInv'
<1>1. CASE UNCHANGED ggVars
  BY <1>1 DEF GraphInv, ggVars, GraphTypes, ParentsAreReached, LaneAwaits, LineJoins, RowsFit
<1>2. ASSUME NEW ps \in Gg!ParentsOf(Len(ggRows) + 1), Gg!Place(ps)
      PROVE  GraphInv'
  <2>1. GraphTypes /\ Len(ggRows) + 1 \in Nat \ {0}
    BY DEF GraphInv, GraphTypes
  <2>2. GraphTypes' /\ ggParents' = Append(ggParents, ps)
    BY <1>2, <2>1, PlacesARow
  <2>3. PICK row \in GraphRow : /\ ggRows' = Append(ggRows, row)
                                /\ RowPlaced(ggLanes, Len(ggRows) + 1, ps, row, ggLanes')
    BY <1>2, <2>1, PlacesARow
  <2>4. ps \in Seq(GraphParent) /\ \A k \in DOMAIN ps : ps[k] > Len(ggRows) + 1
    BY <1>2, <2>1, ParentsAreLater
  <2>5. ParentsAreReached'
    BY <2>1, <2>2, <2>3, <2>4, ARowReaches DEF GraphInv
  <2>6. RowsFit'
    BY <2>1, <2>2, <2>3, ARowFits DEF GraphInv
  <2>. QED
    BY <2>2, <2>5, <2>6 DEF GraphInv
<1>. QED
  BY <1>1, <1>2 DEF GraphNext, Gg!GgNext

\* The graph begins without a row.
LEMMA GraphBegins ==
  ASSUME Gg!GgInit
  PROVE  GraphInv
<1>1. ggRows = <<>> /\ ggParents = <<>> /\ ggLanes = <<>> /\ ggHues = <<>> /\ ggNext = 0
  BY DEF Gg!GgInit
<1>2. 0 \in GraphHue
  BY GraphAssumption DEF GraphHue
<1>3. DOMAIN ggRows = {} /\ DOMAIN ggParents = {}
  BY <1>1
<1>4. GraphTypes
  BY <1>1, <1>2, <1>3 DEF GraphTypes
<1>. QED
  BY <1>1, <1>3, <1>4 DEF GraphInv, ParentsAreReached, RowsFit

\* The width of the graph is no less than the lanes of any row.
LEMMA GraphIsWide ==
  ASSUME GraphInv
  PROVE  Gg!MaxLanes(ggRows) \in Nat /\ \A k \in DOMAIN ggRows : ggRows[k].laneCount <= Gg!MaxLanes(ggRows)
<1>. DEFINE C == {1} \cup {ggRows[k].laneCount : k \in DOMAIN ggRows}
<1>1. \A k \in DOMAIN ggRows : ggRows[k].laneCount \in Nat
  <2>1. \A k \in DOMAIN ggRows : ggRows[k] \in GraphRow
    BY DEF GraphInv, GraphTypes
  <2>. QED
    BY <2>1 DEF GraphRow
<1>2. PICK b \in Nat : \A k \in DOMAIN ggRows : ggRows[k].laneCount <= b
  BY DEF GraphInv, RowsFit
<1>3. C \in SUBSET Nat /\ C # {}
  BY <1>1
<1>4. b + 1 \in Nat /\ \A n \in C : n <= b + 1
  BY <1>1, <1>2
<1>5. \E n \in C : \A m \in C : m <= n
  <2>. HIDE DEF C
  <2>. QED
    BY <1>3, <1>4, GreatestNumber
<1>6. Gg!MaxLanes(ggRows) = CHOOSE n \in C : \A m \in C : m <= n
  BY DEF Gg!MaxLanes
<1>7. Gg!MaxLanes(ggRows) \in C /\ \A m \in C : m <= Gg!MaxLanes(ggRows)
  <2>. HIDE DEF C
  <2>. QED
    BY <1>5, <1>6
<1>. QED
  BY <1>3, <1>7

\* What the invariant says of the drawing.
LEMMA GraphIsDrawn ==
  ASSUME GraphInv
  PROVE  Gg!EdgesAreDrawn
<1>. DEFINE w == Gg!MaxLanes(ggRows)
<1>1. w \in Nat /\ \A k \in DOMAIN ggRows : ggRows[k].laneCount <= w
  BY GraphIsWide
<1>2. \A k \in DOMAIN ggRows : ggRows[k] \in GraphRow
  BY DEF GraphInv, GraphTypes
<1>. HIDE DEF w
<1>3. ASSUME NEW i \in DOMAIN ggRows, NEW x \in ggRows[i].lines
      PROVE  x.from <= w /\ x.to <= w
  <2>1. x.from \in Nat /\ x.to \in Nat
    BY <1>2 DEF GraphRow, GraphLine
  <2>2. /\ \E k \in DOMAIN ggRows : x.from <= ggRows[k].laneCount
        /\ \E k \in DOMAIN ggRows : x.to <= ggRows[k].laneCount
    BY DEF GraphInv, RowsFit
  <2>3. \A k \in DOMAIN ggRows : ggRows[k].laneCount \in Nat
    BY <1>2 DEF GraphRow
  <2>. QED
    BY <1>1, <2>1, <2>2, <2>3
<1>4. ASSUME NEW i \in DOMAIN ggRows, NEW j \in DOMAIN ggRows, Gg!Reaches(i, j), ggParents[j] # <<>>
      PROVE  Gg!Joined(i, j)
  <2>1. PICK m \in DOMAIN ggParents[i] : ggParents[i][m] = j
    BY <1>4 DEF Gg!Reaches
  <2>2. ~(j > Len(ggRows))
    BY DEF GraphInv, GraphTypes
  <2>3. LineJoins(ggRows, i, j)
    BY <1>4, <2>1, <2>2 DEF GraphInv, ParentsAreReached
  <2>4. PICK col \in Nat \ {0} :
          /\ Gg!Leaves(ggRows[i], col) /\ Gg!Arrives(ggRows[j], col)
          /\ \A k \in i + 1 .. j - 1 : Gg!Crosses(ggRows[k], col)
    BY <2>3 DEF LineJoins
  <2>5. \E x \in ggRows[i].lines : x.to = col
    BY <2>4 DEF Gg!Leaves, Gg!Line
  <2>6. col <= w
    BY <1>3, <2>5
  <2>7. col \in 1 .. w
    BY <1>1, <2>6
  <2>. QED
    BY <2>4, <2>7 DEF Gg!Joined, w
<1>. QED
  BY <1>3, <1>4 DEF Gg!EdgesAreDrawn, w


-----------------------------------------------------------------------------
\* No commit is none of the commits.
ASSUME CommitAssumption == NoCommit \notin ClRow

\* A request for details, and one for refs.
DetailAsked == [hash : ClRow, open : BOOLEAN]
RefsAsked == [dir : ClDir, open : BOOLEAN]

\* The panel of details, and what was asked for it: last of all the commit selected.
DetailTypes ==
  /\ clSelected \in [hash : ClRow \cup {NoCommit}, detail : ClRow \cup {NoCommit},
                     asked : Seq(DetailAsked), overtaken : BOOLEAN]
  /\ clSelected.hash # NoCommit =>
       clSelected.asked # <<>> /\ clSelected.asked[Len(clSelected.asked)].hash = clSelected.hash

\* Unless overtaken, the details are those of the last request answered.
DetailIsTheLast ==
  ~clSelected.overtaken =>
    \A i \in DOMAIN clSelected.asked :
      (~clSelected.asked[i].open /\ \A j \in i + 1 .. Len(clSelected.asked) : clSelected.asked[j].open)
        => clSelected.detail \in {NoCommit, clSelected.asked[i].hash}

\* The tree of refs, and what was asked for it: last of all the panel's directory.
RefsTypes ==
  /\ clRefs \in [shown : ClDir \cup {NoCommit}, failed : BOOLEAN, overtaken : BOOLEAN, asked : Seq(RefsAsked)]
  /\ clRefs.asked # <<>> /\ clRefs.asked[Len(clRefs.asked)].dir = clCwd /\ clCwd \in ClDir

\* Unless overtaken or failed, the refs are those of the last request answered.
RefsAreTheLast ==
  (~clRefs.overtaken /\ ~clRefs.failed) =>
    \A i \in DOMAIN clRefs.asked :
      (~clRefs.asked[i].open /\ \A j \in i + 1 .. Len(clRefs.asked) : clRefs.asked[j].open)
        => clRefs.shown = clRefs.asked[i].dir


\* The inductive invariant of the history window.
LogInv == DetailTypes /\ DetailIsTheLast /\ RefsTypes /\ RefsAreTheLast

\* The details of a commit are asked for.
LEMMA DetailIsAsked ==
  ASSUME DetailTypes, DetailIsTheLast, NEW hash \in ClRow, Cl!Asking(hash)
  PROVE  DetailTypes' /\ DetailIsTheLast'
<1>. DEFINE q == clSelected.asked
            r == [hash |-> hash, open |-> TRUE]
            n == Len(q)
<1>1. hash # NoCommit
  BY CommitAssumption
<1>2. /\ clSelected.hash \in ClRow \cup {NoCommit} /\ clSelected.detail \in ClRow \cup {NoCommit}
      /\ q \in Seq(DetailAsked) /\ clSelected.overtaken \in BOOLEAN /\ r \in DetailAsked
      /\ clSelected = [hash |-> clSelected.hash, detail |-> clSelected.detail, asked |-> q,
                       overtaken |-> clSelected.overtaken]
  BY DEF DetailTypes, DetailAsked
<1>3. clSelected' = [hash |-> hash, detail |-> clSelected.detail, asked |-> Append(q, r),
                     overtaken |-> clSelected.overtaken]
  BY <1>1, <1>2 DEF Cl!Asking
<1>4. /\ Append(q, r) \in Seq(DetailAsked) /\ Len(Append(q, r)) = n + 1 /\ n \in Nat
      /\ Append(q, r)[n + 1] = r /\ Append(q, r) # <<>>
      /\ \A i \in 1 .. n : Append(q, r)[i] = q[i]
      /\ DOMAIN Append(q, r) = 1 .. n + 1 /\ DOMAIN q = 1 .. n
  BY <1>2
<1>5. DetailTypes'
  BY <1>2, <1>3, <1>4 DEF DetailTypes
<1>6. ASSUME ~clSelected'.overtaken, NEW i \in DOMAIN clSelected'.asked, ~clSelected'.asked[i].open,
             \A j \in i + 1 .. Len(clSelected'.asked) : clSelected'.asked[j].open
      PROVE  clSelected'.detail \in {NoCommit, clSelected'.asked[i].hash}
  <2>1. i \in 1 .. n + 1 /\ i # n + 1
    BY <1>3, <1>4, <1>6
  <2>2. i \in DOMAIN q /\ ~q[i].open /\ Append(q, r)[i] = q[i]
    BY <1>3, <1>4, <1>6, <2>1
  <2>3. \A j \in i + 1 .. n : q[j].open
    <3>1. \A j \in i + 1 .. n : j \in 1 .. n /\ j \in i + 1 .. n + 1
      BY <1>4, <2>1
    <3>. QED
      BY <1>3, <1>4, <1>6, <3>1
  <2>4. clSelected.detail \in {NoCommit, q[i].hash}
    BY <1>3, <1>6, <2>2, <2>3 DEF DetailIsTheLast
  <2>. QED
    BY <1>3, <2>2, <2>4
<1>. QED
  BY <1>5, <1>6 DEF DetailIsTheLast

\* A request for details is answered.
LEMMA DetailIsAnswered ==
  ASSUME DetailTypes, DetailIsTheLast, NEW i \in DOMAIN clSelected.asked, NEW present \in BOOLEAN,
         Cl!DetailAnswer(i, present)
  PROVE  DetailTypes' /\ DetailIsTheLast'
<1>. DEFINE q == clSelected.asked
            n == Len(q)
            s == [q EXCEPT ![i].open = FALSE]
            d == IF present THEN q[i].hash ELSE NoCommit
            o == clSelected.overtaken \/ \E j \in i + 1 .. n : ~q[j].open
<1>1. /\ clSelected.hash \in ClRow \cup {NoCommit} /\ clSelected.overtaken \in BOOLEAN
      /\ q \in Seq(DetailAsked) /\ n \in Nat /\ DOMAIN q = 1 .. n /\ q[i] \in DetailAsked
      /\ clSelected = [hash |-> clSelected.hash, detail |-> clSelected.detail, asked |-> q,
                       overtaken |-> clSelected.overtaken]
  BY DEF DetailTypes
<1>2. clSelected' = [hash |-> clSelected.hash, detail |-> d, asked |-> s, overtaken |-> o]
  BY <1>1 DEF Cl!DetailAnswer, Cl!ShowDetail
<1>3. /\ s \in Seq(DetailAsked) /\ DOMAIN s = 1 .. n /\ Len(s) = n
      /\ \A j \in 1 .. n : s[j].hash = q[j].hash /\ (j # i => s[j].open = q[j].open)
  <2>1. [q[i] EXCEPT !.open = FALSE] \in DetailAsked /\ [q[i] EXCEPT !.open = FALSE].hash = q[i].hash
    BY <1>1 DEF DetailAsked
  <2>2. s = [q EXCEPT ![i] = [q[i] EXCEPT !.open = FALSE]]
    OBVIOUS
  <2>. DEFINE x == [q[i] EXCEPT !.open = FALSE]
  <2>3. s = [q EXCEPT ![i] = x] /\ x \in DetailAsked /\ x.hash = q[i].hash
    BY <2>1, <2>2
  <2>. HIDE DEF x, s
  <2>. QED
    BY <1>1, <2>3
<1>4. d \in ClRow \cup {NoCommit} /\ o \in BOOLEAN
  BY <1>1 DEF DetailAsked
<1>. HIDE DEF s, d, o
<1>5. DetailTypes'
  <2>1. clSelected.hash # NoCommit => s # <<>> /\ s[n].hash = clSelected.hash
    <3>1. clSelected.hash # NoCommit => q # <<>> /\ q[n].hash = clSelected.hash
      BY DEF DetailTypes
    <3>2. q # <<>> => n \in 1 .. n
      BY <1>1
    <3>. QED
      BY <1>1, <1>3, <3>1, <3>2
  <2>. QED
    BY <1>1, <1>2, <1>3, <1>4, <2>1 DEF DetailTypes
<1>6. ASSUME ~o, NEW k \in 1 .. n, ~s[k].open, \A j \in k + 1 .. n : s[j].open
      PROVE  d \in {NoCommit, s[k].hash}
  <2>1. k = i
    <3>1. \A j \in i + 1 .. n : q[j].open
      BY <1>6 DEF o
    <3>2. ~(k > i)
      <4>. SUFFICES ASSUME k > i PROVE FALSE
        OBVIOUS
      <4>1. k \in i + 1 .. n /\ k # i
        BY <1>1
      <4>. QED
        BY <1>3, <1>6, <3>1, <4>1
    <3>3. ~(k < i)
      <4>. SUFFICES ASSUME k < i PROVE FALSE
        OBVIOUS
      <4>1. i \in k + 1 .. n
        BY <1>1
      <4>2. ~s[i].open
        BY <1>1 DEF s, DetailAsked
      <4>. QED
        BY <1>6, <4>1, <4>2
    <3>. QED
      BY <1>1, <3>2, <3>3
  <2>. QED
    BY <1>3, <2>1 DEF d
<1>. QED
  BY <1>2, <1>3, <1>5, <1>6 DEF DetailIsTheLast

\* The refs of a directory are asked for.
LEMMA RefsAreAsked ==
  ASSUME RefsTypes, RefsAreTheLast, NEW d \in ClDir, clCwd' = d, clRefs' = Cl!AskRefs(d)
  PROVE  RefsTypes' /\ RefsAreTheLast'
<1>. DEFINE q == clRefs.asked
            r == [dir |-> d, open |-> TRUE]
            n == Len(q)
<1>1. /\ clRefs.shown \in ClDir \cup {NoCommit} /\ clRefs.failed \in BOOLEAN
      /\ q \in Seq(RefsAsked) /\ clRefs.overtaken \in BOOLEAN /\ r \in RefsAsked
      /\ clRefs = [shown |-> clRefs.shown, failed |-> clRefs.failed, overtaken |-> clRefs.overtaken,
                   asked |-> q]
  BY DEF RefsTypes, RefsAsked
<1>2. clRefs' = [shown |-> clRefs.shown, failed |-> clRefs.failed, overtaken |-> clRefs.overtaken,
                 asked |-> Append(q, r)]
  BY <1>1 DEF Cl!AskRefs
<1>3. /\ Append(q, r) \in Seq(RefsAsked) /\ Len(Append(q, r)) = n + 1 /\ n \in Nat
      /\ Append(q, r)[n + 1] = r /\ Append(q, r) # <<>>
      /\ \A i \in 1 .. n : Append(q, r)[i] = q[i]
      /\ DOMAIN Append(q, r) = 1 .. n + 1 /\ DOMAIN q = 1 .. n
  BY <1>1
<1>4. RefsTypes'
  BY <1>1, <1>2, <1>3 DEF RefsTypes
<1>5. ASSUME ~clRefs'.overtaken, ~clRefs'.failed, NEW i \in DOMAIN clRefs'.asked, ~clRefs'.asked[i].open,
             \A j \in i + 1 .. Len(clRefs'.asked) : clRefs'.asked[j].open
      PROVE  clRefs'.shown = clRefs'.asked[i].dir
  <2>1. i \in 1 .. n + 1 /\ i # n + 1
    BY <1>2, <1>3, <1>5
  <2>2. i \in DOMAIN q /\ ~q[i].open /\ Append(q, r)[i] = q[i]
    BY <1>2, <1>3, <1>5, <2>1
  <2>3. \A j \in i + 1 .. n : q[j].open
    <3>1. \A j \in i + 1 .. n : j \in 1 .. n /\ j \in i + 1 .. n + 1
      BY <1>3, <2>1
    <3>. QED
      BY <1>2, <1>3, <1>5, <3>1
  <2>4. clRefs.shown = q[i].dir
    BY <1>2, <1>5, <2>2, <2>3 DEF RefsAreTheLast
  <2>. QED
    BY <1>2, <2>2, <2>4
<1>. QED
  BY <1>4, <1>5 DEF RefsAreTheLast

\* A request for refs is answered.
LEMMA RefsAreAnswered ==
  ASSUME RefsTypes, RefsAreTheLast, NEW i \in DOMAIN clRefs.asked, NEW ok \in BOOLEAN,
         Cl!RefsAnswer(i, ok)
  PROVE  RefsTypes' /\ RefsAreTheLast'
<1>. DEFINE q == clRefs.asked
            n == Len(q)
            s == [q EXCEPT ![i].open = FALSE]
            d == IF ok THEN q[i].dir ELSE clRefs.shown
            o == clRefs.overtaken \/ \E j \in i + 1 .. n : ~q[j].open
<1>1. /\ clRefs.shown \in ClDir \cup {NoCommit} /\ clRefs.overtaken \in BOOLEAN
      /\ q \in Seq(RefsAsked) /\ n \in Nat /\ DOMAIN q = 1 .. n /\ q[i] \in RefsAsked
      /\ q # <<>> /\ q[n].dir = clCwd /\ clCwd \in ClDir
      /\ clRefs = [shown |-> clRefs.shown, failed |-> clRefs.failed, overtaken |-> clRefs.overtaken,
                   asked |-> q]
  BY DEF RefsTypes
<1>2. clRefs' = [shown |-> d, failed |-> ~ok, overtaken |-> o, asked |-> s] /\ clCwd' = clCwd
  BY <1>1 DEF Cl!RefsAnswer
<1>3. /\ s \in Seq(RefsAsked) /\ DOMAIN s = 1 .. n /\ Len(s) = n
      /\ \A j \in 1 .. n : s[j].dir = q[j].dir /\ (j # i => s[j].open = q[j].open)
  <2>1. [q[i] EXCEPT !.open = FALSE] \in RefsAsked /\ [q[i] EXCEPT !.open = FALSE].dir = q[i].dir
    BY <1>1 DEF RefsAsked
  <2>2. s = [q EXCEPT ![i] = [q[i] EXCEPT !.open = FALSE]]
    OBVIOUS
  <2>. DEFINE x == [q[i] EXCEPT !.open = FALSE]
  <2>3. s = [q EXCEPT ![i] = x] /\ x \in RefsAsked /\ x.dir = q[i].dir
    BY <2>1, <2>2
  <2>. HIDE DEF x, s
  <2>. QED
    BY <1>1, <2>3
<1>4. d \in ClDir \cup {NoCommit} /\ o \in BOOLEAN
  BY <1>1 DEF RefsAsked
<1>. HIDE DEF s, d, o
<1>5. RefsTypes'
  <2>1. n \in 1 .. n
    BY <1>1
  <2>2. s # <<>> /\ s[n].dir = clCwd
    BY <1>1, <1>3, <2>1
  <2>. QED
    BY <1>1, <1>2, <1>3, <1>4, <2>2 DEF RefsTypes
<1>6. ASSUME ~o, ok, NEW k \in 1 .. n, ~s[k].open, \A j \in k + 1 .. n : s[j].open
      PROVE  d = s[k].dir
  <2>1. k = i
    <3>1. \A j \in i + 1 .. n : q[j].open
      BY <1>6 DEF o
    <3>2. ~(k > i)
      <4>. SUFFICES ASSUME k > i PROVE FALSE
        OBVIOUS
      <4>1. k \in i + 1 .. n /\ k # i
        BY <1>1
      <4>. QED
        BY <1>3, <1>6, <3>1, <4>1
    <3>3. ~(k < i)
      <4>. SUFFICES ASSUME k < i PROVE FALSE
        OBVIOUS
      <4>1. i \in k + 1 .. n
        BY <1>1
      <4>2. ~s[i].open
        BY <1>1 DEF s, RefsAsked
      <4>. QED
        BY <1>6, <4>1, <4>2
    <3>. QED
      BY <1>1, <3>2, <3>3
  <2>. QED
    BY <1>3, <1>6, <2>1 DEF d
<1>. QED
  BY <1>2, <1>3, <1>5, <1>6 DEF RefsAreTheLast

\* Every step of the history window keeps its invariant.
LEMMA LogStep ==
  ASSUME LogInv, LogNext
  PROVE  LogInv'
<1>1. ASSUME UNCHANGED <<clSelected, clRefs, clCwd>>
      PROVE  LogInv'
  BY <1>1 DEF LogInv, DetailTypes, DetailIsTheLast, RefsTypes, RefsAreTheLast
<1>2. ASSUME DetailTypes', DetailIsTheLast', UNCHANGED <<clRefs, clCwd>>
      PROVE  LogInv'
  BY <1>2 DEF LogInv, RefsTypes, RefsAreTheLast
<1>3. ASSUME RefsTypes', RefsAreTheLast', UNCHANGED clSelected
      PROVE  LogInv'
  BY <1>3 DEF LogInv, DetailTypes, DetailIsTheLast
<1>4. ASSUME NEW i \in DOMAIN clSelected.asked, NEW present \in BOOLEAN, Cl!DetailAnswer(i, present)
      PROVE  LogInv'
  BY <1>2, <1>4, DetailIsAnswered DEF LogInv, Cl!DetailAnswer, Cl!clPanel
<1>5. ASSUME NEW i \in DOMAIN clRefs.asked, NEW ok \in BOOLEAN, Cl!RefsAnswer(i, ok)
      PROVE  LogInv'
  BY <1>3, <1>5, RefsAreAnswered DEF LogInv, Cl!RefsAnswer
<1>6. ASSUME NEW d \in ClDir, Cl!CwdMoves(d)
      PROVE  LogInv'
  <2>1. clCwd' = d /\ clRefs' = Cl!AskRefs(d)
    BY <1>6 DEF Cl!CwdMoves
  <2>2. RefsTypes' /\ RefsAreTheLast'
    BY <2>1, RefsAreAsked DEF LogInv
  <2>3. CASE clSelected.hash = NoCommit
    BY <1>3, <1>6, <2>2, <2>3 DEF Cl!CwdMoves
  <2>4. CASE clSelected.hash # NoCommit
    <3>1. clSelected.hash \in ClRow /\ Cl!Asking(clSelected.hash)
      BY <1>6, <2>4 DEF Cl!CwdMoves, LogInv, DetailTypes
    <3>2. DetailTypes' /\ DetailIsTheLast'
      BY <3>1, DetailIsAsked DEF LogInv
    <3>. QED
      BY <2>2, <3>2 DEF LogInv
  <2>. QED
    BY <2>3, <2>4
<1>7. ASSUME NEW c \in ClRow, Cl!RowClick(c)
      PROVE  LogInv'
  <2>1. UNCHANGED <<clRefs, clCwd>> /\ (UNCHANGED clSelected \/ Cl!Asking(c))
    BY <1>7 DEF Cl!RowClick, Cl!clPanel
  <2>2. CASE UNCHANGED clSelected
    BY <1>1, <2>1, <2>2
  <2>3. CASE Cl!Asking(c)
    BY <1>2, <2>1, <2>3, DetailIsAsked DEF LogInv
  <2>. QED
    BY <2>1, <2>2, <2>3
<1>8. CASE \/ \E i \in DOMAIN clLoads, ok \in BOOLEAN : Cl!LoadAnswer(i, ok)
           \/ \E c \in ClRow : Cl!EnterRow(c) \/ Cl!ContextMenu(c)
           \/ \E c \in clTips, present \in BOOLEAN : Cl!TipAnswer(c, present)
  BY <1>1, <1>8 DEF Cl!LoadAnswer, Cl!EnterRow, Cl!ContextMenu, Cl!TipAnswer, Cl!clPanel
<1>9. CASE Cl!LeaveRow \/ Cl!HoverTimer \/ Cl!HideTimer \/ Cl!EnterTooltip \/ Cl!LeaveTooltip
  BY <1>1, <1>9 DEF Cl!LeaveRow, Cl!HoverTimer, Cl!HideTimer, Cl!EnterTooltip, Cl!LeaveTooltip, Cl!clPanel
<1>10. CASE \/ Cl!CloseMenu \/ Cl!CompareNow \/ Cl!CompareWith \/ Cl!CancelCompare
            \/ \E op \in Cl!Confirmable : Cl!Ask(op)
            \/ \E op \in Cl!Named : Cl!AskName(op)
  BY <1>1, <1>10 DEF Cl!CloseMenu, Cl!CompareNow, Cl!CompareWith, Cl!CancelCompare, Cl!Ask, Cl!AskName, Cl!clPanel
<1>11. CASE \/ Cl!Confirm \/ Cl!Dismiss \/ Cl!Submit \/ Cl!CancelPrompt
            \/ \E r \in clRuns, ok \in BOOLEAN : Cl!RunEnds(r, ok)
            \/ UNCHANGED clVars
  BY <1>1, <1>11 DEF Cl!Confirm, Cl!Dismiss, Cl!Submit, Cl!CancelPrompt, Cl!RunEnds, clVars, Cl!clPanel
<1>. QED
  BY <1>4, <1>5, <1>6, <1>7, <1>8, <1>9, <1>10, <1>11 DEF LogNext, Cl!ClNext

\* The history window begins with nothing selected and the refs asked for.
LEMMA LogBegins ==
  ASSUME Cl!ClInit
  PROVE  LogInv
<1>1. clSelected = [hash |-> NoCommit, detail |-> NoCommit, asked |-> <<>>, overtaken |-> FALSE]
      /\ clRefs = [shown |-> NoCommit, failed |-> FALSE, overtaken |-> FALSE,
                   asked |-> <<[dir |-> clCwd, open |-> TRUE]>>]
      /\ clCwd \in ClDir
  BY DEF Cl!ClInit
<1>2. <<[dir |-> clCwd, open |-> TRUE]>> \in Seq(RefsAsked)
  BY <1>1 DEF RefsAsked
<1>3. DOMAIN clSelected.asked = {} /\ clSelected.asked \in Seq(DetailAsked)
  BY <1>1
<1>4. DetailTypes /\ DetailIsTheLast
  BY <1>1, <1>3 DEF DetailTypes, DetailIsTheLast
<1>5. RefsTypes
  BY <1>1, <1>2 DEF RefsTypes
<1>6. RefsAreTheLast
  BY <1>1 DEF RefsAreTheLast
<1>. QED
  BY <1>4, <1>5, <1>6 DEF LogInv

\* What the invariant says of the panel and the tree of refs.
LEMMA LogIsTrue ==
  ASSUME LogInv
  PROVE  Cl!DetailOfTheSelected /\ Cl!RefsOfTheDirectory
<1>1. ASSUME ~clSelected.overtaken, \A i \in DOMAIN clSelected.asked : ~clSelected.asked[i].open,
             clSelected.hash # NoCommit, clSelected.detail # NoCommit
      PROVE  clSelected.detail = clSelected.hash
  <2>. DEFINE n == Len(clSelected.asked)
  <2>1. n \in DOMAIN clSelected.asked /\ clSelected.asked[n].hash = clSelected.hash /\ n + 1 .. n = {}
    BY <1>1 DEF LogInv, DetailTypes
  <2>. QED
    BY <1>1, <2>1 DEF LogInv, DetailIsTheLast
<1>2. Cl!DetailOfTheSelected
  BY <1>1 DEF Cl!DetailOfTheSelected, Cl!PanelShows
<1>3. ASSUME ~clRefs.overtaken, ~clRefs.failed, \A i \in DOMAIN clRefs.asked : ~clRefs.asked[i].open
      PROVE  clRefs.shown = clCwd
  <2>. DEFINE n == Len(clRefs.asked)
  <2>1. n \in DOMAIN clRefs.asked /\ clRefs.asked[n].dir = clCwd /\ n + 1 .. n = {}
    BY DEF LogInv, RefsTypes
  <2>. QED
    BY <1>3, <2>1 DEF LogInv, RefsAreTheLast
<1>4. Cl!RefsOfTheDirectory
  BY <1>3 DEF Cl!RefsOfTheDirectory
<1>. QED
  BY <1>2, <1>4

-----------------------------------------------------------------------------
\* The history is drawn as it is in every reachable state: for any number of commits
\* and parents the lanes join them, and the panel and the refs are of what is selected
\* (gitGraph.ts, CommitDetailPanel.tsx, RefsTree.tsx).
THEOREM HistoryAlwaysTrue == Spec => []HistoryIsDrawnTrue
<1>. DEFINE I == /\ part = "graph" => GraphInv
                 /\ part = "log" => LogInv
<1>1. Init => I
  BY GraphBegins, LogBegins DEF Init
<1>2. I /\ [Next]_vars => I'
  BY PartsStep, GraphStep, LogStep
<1>3. I => HistoryIsDrawnTrue
  BY GraphIsDrawn, LogIsTrue DEF HistoryIsDrawnTrue
<1>. HIDE DEF I
<1>. QED
  BY <1>1, <1>2, <1>3, PTL DEF Spec

-----------------------------------------------------------------------------
\* A hard reset is confirmed only by the warning, which the form forgets when it is reset.
ResetInv == confirmHard \in BOOLEAN /\ (confirmHard => asked) /\ ~unasked

\* Every step of the worktree dialogs keeps hard resets confirmed.
LEMMA ResetStep ==
  ASSUME ResetInv, WorktreesNext
  PROVE  ResetInv'
<1>1. CASE UNCHANGED <<confirmHard, asked, unasked>>
  BY <1>1 DEF ResetInv
<1>2. ASSUME NEW m \in Wt!Modes, Wt!OpenAction(m)
      PROVE  ResetInv'
  BY <1>2 DEF ResetInv, Wt!OpenAction, Wt!ResetForm, Wt!Unconfirm
<1>3. ASSUME NEW r, Wt!ChooseReset(r)
      PROVE  ResetInv'
  BY <1>3 DEF ResetInv, Wt!ChooseReset, Wt!Unconfirm
<1>4. CASE Wt!Action
  BY <1>4 DEF ResetInv, Wt!Action
<1>5. CASE Wt!OpenAdd \/ Wt!CloseAdd \/ Wt!CloseAction \/ Wt!ActionEnds \/ Wt!CancelRemove \/ Wt!Remove
           \/ Wt!RemoveEnds
  BY <1>1, <1>5 DEF Wt!OpenAdd, Wt!CloseAdd, Wt!CloseAction, Wt!ActionEnds, Wt!CancelRemove, Wt!Remove,
                    Wt!RemoveEnds, Wt!actVars
<1>6. CASE \E w \in Worktree : Wt!Add(w) \/ Wt!AddEnds(w) \/ Wt!Navigate(w) \/ Wt!LeaveFolder(w) \/ Wt!AskRemove(w)
  BY <1>1, <1>6 DEF Wt!Add, Wt!AddEnds, Wt!Navigate, Wt!LeaveFolder, Wt!AskRemove, Wt!actVars
<1>7. CASE UNCHANGED wtVars
  BY <1>1, <1>7 DEF wtVars
<1>. QED
  BY <1>2, <1>3, <1>4, <1>5, <1>6, <1>7 DEF WorktreesNext, Wt!Next

-----------------------------------------------------------------------------
\* What the editor writes has every conflict resolved, and what it stages was written.
WriteInv ==
  /\ writing \subseteq [awaits : {"write", "stage"}, left : SUBSET Conflict]
  /\ \A x \in writing : x.left = {} /\ (x.awaits = "stage" => fileOpen = {})
  /\ dropped = {} /\ (isStaged => fileOpen = {})

\* Every step of the merge editor keeps it so.
LEMMA WriteStep ==
  ASSUME WriteInv, MergeNext
  PROVE  WriteInv'
<1>1. CASE UNCHANGED <<writing, dropped, fileOpen, isStaged>>
  BY <1>1 DEF WriteInv
<1>2. CASE Me!WriteResolved
  <2>1. UNCHANGED <<dropped, fileOpen, isStaged>>
        /\ (UNCHANGED writing \/ (blocks = {} /\ writing' = writing \cup {[awaits |-> "write", left |-> blocks]}))
    BY <1>2 DEF Me!WriteResolved, Me!AllResolved, Me!file
  <2>2. [awaits |-> "write", left |-> {}] \in [awaits : {"write", "stage"}, left : SUBSET Conflict]
    OBVIOUS
  <2>. QED
    BY <1>1, <2>1, <2>2 DEF WriteInv
<1>3. ASSUME NEW x \in writing, Me!Written(x)
      PROVE  WriteInv'
  <2>. DEFINE y == [x EXCEPT !.awaits = "stage"]
  <2>1. x \in [awaits : {"write", "stage"}, left : SUBSET Conflict] /\ x.left = {}
    BY DEF WriteInv
  <2>2. y \in [awaits : {"write", "stage"}, left : SUBSET Conflict] /\ y.left = {}
    BY <2>1
  <2>. HIDE DEF y
  <2>3. CASE writing' = (writing \ {x}) \cup {y} /\ fileOpen' = {} /\ dropped' = dropped \cup x.left
             /\ UNCHANGED isStaged
    BY <2>1, <2>2, <2>3 DEF WriteInv
  <2>4. CASE writing' = writing \ {x} /\ UNCHANGED <<fileOpen, dropped, isStaged>>
    BY <2>4 DEF WriteInv
  <2>. QED
    BY <1>3, <2>3, <2>4 DEF Me!Written, y
<1>4. ASSUME NEW x \in writing, Me!Stage(x)
      PROVE  WriteInv'
  <2>1. writing' = writing \ {x} /\ UNCHANGED <<fileOpen, dropped>> /\ fileOpen = {} /\ isStaged' \in {TRUE, isStaged}
    BY <1>4 DEF WriteInv, Me!Stage
  <2>. QED
    BY <2>1 DEF WriteInv
<1>5. CASE Me!AcceptedAll
  BY <1>5 DEF WriteInv, Me!AcceptedAll
<1>6. ASSUME NEW c \in Conflict, Me!ToolResolves(c)
      PROVE  WriteInv'
  <2>1. fileOpen' = fileOpen \ {c} /\ fileOpen # {} /\ UNCHANGED <<dropped, isStaged, writing>>
    BY <1>6 DEF Me!ToolResolves, Me!tasks
  <2>. QED
    BY <2>1 DEF WriteInv
<1>7. CASE Me!PollSeesNone
  BY <1>7 DEF WriteInv, Me!PollSeesNone
<1>8. CASE Me!LoadFile \/ Me!Render \/ Me!HandleAcceptAll \/ Me!ToggleToolMenu \/ Me!StartTool
  BY <1>1, <1>8 DEF Me!LoadFile, Me!Render, Me!HandleAcceptAll, Me!ToggleToolMenu, Me!StartTool, Me!file, Me!tasks
<1>9. CASE Me!Poll \/ Me!PollSeesConflicts \/ Me!PollFails \/ Me!Escape \/ UNCHANGED meVars
           \/ \E c \in Conflict : Me!ResolveBlock(c)
  BY <1>1, <1>9 DEF Me!Poll, Me!PollSeesConflicts, Me!PollFails, Me!Escape, Me!ResolveBlock, Me!file, Me!tasks,
                    meVars
<1>. QED
  BY <1>2, <1>3, <1>4, <1>5, <1>6, <1>7, <1>8, <1>9 DEF MergeNext, Me!Next

-----------------------------------------------------------------------------
\* What the file will hold when the saves under way have ended.
LastSaved ==
  IF queue # <<>> THEN queue[Len(queue)] ELSE IF saving # <<>> THEN saving[1] ELSE discardDisk

\* The saves are sequences of lists; nothing was saved while the list was not loaded;
\* and the last save will be of the list on show.
SavesInv ==
  /\ \E T : queue \in Seq(T) /\ saving \in Seq(T)
  /\ intact \in BOOLEAN /\ loading \in BOOLEAN
  /\ intact /\ loading => queue = <<>> /\ saving = <<>> /\ discardedPatches = <<>>
  /\ intact /\ ~loading => LastSaved = discardedPatches

\* A list is shown, and queued to be saved.
LEMMA ListIsShown ==
  ASSUME SavesInv, NEW list, Dd!Shows(list), UNCHANGED <<saving, discardDisk, loading>>
  PROVE  SavesInv'
<1>1. PICK T : queue \in Seq(T) /\ saving \in Seq(T)
  BY DEF SavesInv
<1>2. discardedPatches' = list /\ queue' = Append(queue, list) /\ intact' = (intact /\ ~loading)
  BY DEF Dd!Shows
<1>. DEFINE U == T \cup {list}
<1>3. queue \in Seq(U) /\ saving \in Seq(U) /\ list \in U
  BY <1>1
<1>. HIDE DEF U
<1>4. queue' \in Seq(U) /\ saving' \in Seq(U) /\ queue' # <<>> /\ queue'[Len(queue')] = list
  BY <1>2, <1>3
<1>5. intact' \in BOOLEAN /\ loading' \in BOOLEAN /\ ~(intact' /\ loading')
  BY <1>2 DEF SavesInv
<1>. QED
  BY <1>2, <1>4, <1>5 DEF SavesInv, LastSaved

\* Every step of the diff viewer keeps the last save that of the list on show.
LEMMA SavesStep ==
  ASSUME SavesInv, DiscardNext
  PROVE  SavesInv'
<1>1. PICK T : queue \in Seq(T) /\ saving \in Seq(T)
  BY DEF SavesInv
<1>2. CASE UNCHANGED <<queue, saving, discardDisk, loading, intact, discardedPatches>>
  BY <1>2 DEF SavesInv, LastSaved
<1>3. CASE Dd!Loaded
  <2>1. loading /\ loading' = FALSE /\ UNCHANGED <<queue, saving, discardDisk, intact>>
        /\ discardedPatches' = IF discardDisk = <<>> THEN discardedPatches ELSE discardDisk
    BY <1>3 DEF Dd!Loaded, Dd!diskVars
  <2>. QED
    BY <1>1, <2>1 DEF SavesInv, LastSaved
<1>4. ASSUME NEW o \in ops, Dd!Discarded(o)
      PROVE  SavesInv'
  BY <1>4, ListIsShown DEF Dd!Discarded
<1>5. ASSUME NEW o \in ops, Dd!Undone(o)
      PROVE  SavesInv'
  BY <1>5, ListIsShown DEF Dd!Undone
<1>6. CASE Dd!SaveStarts
  <2>1. saving = <<>> /\ queue # <<>> /\ saving' = <<Head(queue)>> /\ queue' = Tail(queue)
        /\ UNCHANGED <<discardDisk, loading, intact, discardedPatches>>
    BY <1>6 DEF Dd!SaveStarts, Dd!NextSave
  <2>2. queue' \in Seq(T) /\ saving' \in Seq(T) /\ saving' # <<>> /\ saving'[1] = queue[1]
    BY <1>1, <2>1
  <2>3. CASE queue' = <<>>
    <3>1. Len(queue) = 1
      BY <1>1, <2>1, <2>3
    <3>2. LastSaved' = LastSaved
      BY <2>1, <2>2, <2>3, <3>1 DEF LastSaved
    <3>. QED
      BY <2>1, <2>2, <3>2 DEF SavesInv
  <2>4. CASE queue' # <<>>
    <3>1. queue'[Len(queue')] = queue[Len(queue)]
      BY <1>1, <2>1, <2>4
    <3>2. LastSaved' = LastSaved
      BY <2>1, <2>4, <3>1 DEF LastSaved
    <3>. QED
      BY <2>1, <2>2, <3>2 DEF SavesInv
  <2>. QED
    BY <2>3, <2>4
<1>7. CASE Dd!SaveEnds
  <2>1. saving # <<>> /\ saving' = <<>> /\ UNCHANGED <<loading, discardedPatches, queue>>
        /\ \/ discardDisk' = Head(saving) /\ UNCHANGED intact
           \/ UNCHANGED discardDisk /\ intact' = FALSE
    BY <1>7 DEF Dd!SaveEnds
  <2>2. queue' \in Seq(T) /\ saving' \in Seq(T) /\ Head(saving) = saving[1]
    BY <1>1, <2>1
  <2>3. CASE discardDisk' = Head(saving) /\ UNCHANGED intact
    <3>1. LastSaved' = LastSaved
      BY <2>1, <2>2, <2>3 DEF LastSaved
    <3>. QED
      BY <2>1, <2>2, <2>3, <3>1 DEF SavesInv
  <2>4. CASE intact' = FALSE
    BY <2>1, <2>2, <2>4 DEF SavesInv
  <2>. QED
    BY <2>1, <2>3, <2>4
<1>8. CASE Dd!Committed
  BY <1>8 DEF SavesInv, Dd!Committed
<1>9. CASE \/ Dd!Refetched \/ UNCHANGED ddVars
           \/ \E h \in Dd!Hunk : Dd!ClickDiscard(h)
           \/ \E i \in DOMAIN discardedPatches : Dd!ClickUndo(i)
           \/ \E o \in ops : Dd!DiscardFails(o)
  BY <1>2, <1>9 DEF Dd!Refetched, Dd!ClickDiscard, Dd!ClickUndo, Dd!DiscardFails, Dd!diskVars, ddVars
<1>. QED
  BY <1>3, <1>4, <1>5, <1>6, <1>7, <1>8, <1>9 DEF DiscardNext, Dd!Next

-----------------------------------------------------------------------------
\* The lines of a file are texts and markers; a marker is no text.
FileLine == Text \cup Cp!Marker

ASSUME ParserAssumption == MaxSegments \in Nat /\ Text \cap Cp!Marker = {}

\* Where x is among the lines s.
PlacesOf(x, s) == {i \in DOMAIN s : s[i] = x}

\* How often a line occurs is a number.
LEMMA OccursIsCounted ==
  ASSUME NEW T, NEW s \in Seq(T), NEW x
  PROVE  IsFiniteSet(PlacesOf(x, s)) /\ Cp!Occurs(x, s) = Cardinality(PlacesOf(x, s)) /\ Cp!Occurs(x, s) \in Nat
<1>1. IsFiniteSet(1 .. Len(s))
  BY FS_Interval
<1>2. PlacesOf(x, s) \in SUBSET (1 .. Len(s))
  BY DEF PlacesOf
<1>3. IsFiniteSet(PlacesOf(x, s))
  BY <1>1, <1>2, FS_Subset
<1>4. Cp!Occurs(x, s) = Cardinality(PlacesOf(x, s))
  BY DEF Cp!Occurs, PlacesOf, Cp!Cardinality, Cardinality
<1>. QED
  BY <1>3, <1>4, FS_CardinalityType

\* In one list of lines after another it occurs as often as in both.
LEMMA OccursInBoth ==
  ASSUME NEW T, NEW s \in Seq(T), NEW t \in Seq(T), NEW x
  PROVE  Cp!Occurs(x, s \o t) = Cp!Occurs(x, s) + Cp!Occurs(x, t)
<1>. DEFINE n == Len(s)
            A == PlacesOf(x, s)
            B == PlacesOf(x, t)
            C == {i \in n + 1 .. n + Len(t) : t[i - n] = x}
<1>0. s \o t \in Seq(T) /\ n \in Nat /\ Len(t) \in Nat
  OBVIOUS
<1>1. PlacesOf(x, s \o t) = A \cup C
  <2>1. DOMAIN (s \o t) = 1 .. n + Len(t) /\ DOMAIN s = 1 .. n
        /\ \A i \in 1 .. n + Len(t) : (s \o t)[i] = IF i <= n THEN s[i] ELSE t[i - n]
    OBVIOUS
  <2>. QED
    BY <1>0, <2>1 DEF PlacesOf
<1>2. A \cap C = {}
  BY <1>0 DEF PlacesOf
<1>3. ExistsBijection(B, C)
  <2>. DEFINE f == [i \in B |-> i + n]
  <2>1. \A i \in B : i \in 1 .. Len(t) /\ t[i] = x
    BY DEF PlacesOf
  <2>2. f \in [B -> C]
    BY <1>0, <2>1
  <2>3. \A i, j \in B : f[i] = f[j] => i = j
    BY <1>0, <2>1
  <2>4. \A k \in C : \E i \in B : f[i] = k
    <3>1. ASSUME NEW k \in C
          PROVE  k - n \in B /\ f[k - n] = k
      BY <1>0 DEF PlacesOf
    <3>. QED
      BY <3>1
  <2>. QED
    BY <2>2, <2>3, <2>4 DEF ExistsBijection, Bijection, Injection, IsInjective, Surjection
<1>4. /\ IsFiniteSet(A) /\ Cp!Occurs(x, s) = Cardinality(A) /\ Cp!Occurs(x, s) \in Nat
      /\ IsFiniteSet(B) /\ Cp!Occurs(x, t) = Cardinality(B) /\ Cp!Occurs(x, t) \in Nat
      /\ Cp!Occurs(x, s \o t) = Cardinality(A \cup C)
  BY <1>0, <1>1, OccursIsCounted
<1>. HIDE DEF A, B, C
<1>5. IsFiniteSet(C) /\ Cardinality(C) = Cardinality(B)
  BY <1>3, <1>4, FS_Bijection
<1>6. Cardinality(A \cup C) = Cardinality(A) + Cardinality(C) - Cardinality(A \cap C)
  BY <1>4, <1>5, FS_Union
<1>7. Cardinality(A \cap C) = 0
  BY <1>2, FS_EmptySet
<1>. QED
  BY <1>4, <1>5, <1>6, <1>7

\* One more line counts once, if it is that line.
LEMMA OccursOnceMore ==
  ASSUME NEW T, NEW s \in Seq(T), NEW y \in T, NEW x
  PROVE  Cp!Occurs(x, Append(s, y)) = Cp!Occurs(x, s) + IF y = x THEN 1 ELSE 0
<1>1. Append(s, y) = s \o <<y>> /\ <<y>> \in Seq(T)
  OBVIOUS
<1>2. Cp!Occurs(x, <<y>>) = IF y = x THEN 1 ELSE 0
  <2>1. PlacesOf(x, <<y>>) = IF y = x THEN {1} ELSE {}
    BY DEF PlacesOf
  <2>2. Cp!Occurs(x, <<y>>) = Cardinality(PlacesOf(x, <<y>>))
    BY <1>1, OccursIsCounted
  <2>. QED
    BY <2>1, <2>2, FS_EmptySet, FS_Singleton
<1>. QED
  BY <1>1, <1>2, OccursInBoth

\* In no lines it does not occur.
LEMMA OccursNever ==
  ASSUME NEW x
  PROVE  Cp!Occurs(x, <<>>) = 0
<1>1. PlacesOf(x, <<>>) = {} /\ <<>> \in Seq({x})
  BY DEF PlacesOf
<1>. QED
  BY <1>1, FS_EmptySet, OccursIsCounted

-----------------------------------------------------------------------------
\* f holds what the first 1, 2 .. n sequences of ss are one after another: sequences of T.
Flattens(f, ss, n) == \A i \in 1 .. n : f[i] = IF i = 1 THEN ss[i] ELSE f[i - 1] \o ss[i]

AreFlat(T, f, ss, n) == f \in [1 .. n -> Seq(T)] /\ Flattens(f, ss, n)

\* There is such a function.
LEMMA FlatExists ==
  ASSUME NEW T, NEW ss \in Seq(Seq(T))
  PROVE  \E f : AreFlat(T, f, ss, Len(ss))
<1>. DEFINE Bad == {k \in 0 .. Len(ss) : ~ \E f : AreFlat(T, f, ss, k)}
<1>. SUFFICES ASSUME Bad # {} PROVE FALSE
  <2>. SUFFICES ASSUME ~ \E f : AreFlat(T, f, ss, Len(ss)) PROVE Bad # {}
    OBVIOUS
  <2>1. Len(ss) \in Bad
    OBVIOUS
  <2>. QED
    BY <2>1, Zenon
<1>0. Bad \in SUBSET Nat
  OBVIOUS
<1>1. PICK k \in Bad : \A m \in Bad : k <= m
  <2>. HIDE DEF Bad
  <2>. QED
    BY <1>0, LeastNumber
<1>2. k # 0
  <2>1. AreFlat(T, [i \in 1 .. 0 |-> <<>>], ss, 0)
    BY DEF AreFlat, Flattens
  <2>. QED
    BY <2>1
<1>3. PICK f : AreFlat(T, f, ss, k - 1)
  <2>0. k \in 0 .. Len(ss)
    BY <1>1
  <2>1. k - 1 \in 0 .. Len(ss) /\ k - 1 \notin Bad
    <3>. HIDE DEF Bad
    <3>. QED
      BY <1>1, <1>2, <2>0
  <2>. QED
    BY <2>1, Zenon
<1>. DEFINE x == IF k = 1 THEN ss[k] ELSE f[k - 1] \o ss[k]
<1>4. x \in Seq(T)
  <2>1. ss[k] \in Seq(T) /\ (k # 1 => f[k - 1] \in Seq(T))
    BY <1>1, <1>2, <1>3 DEF AreFlat, Flattens
  <2>. QED
    BY <2>1
<1>. HIDE DEF x
<1>. DEFINE h == [i \in 1 .. k |-> IF i = k THEN x ELSE f[i]]
<1>5. AreFlat(T, h, ss, k)
  <2>1. k \in Nat /\ k >= 1
    BY <1>1, <1>2
  <2>2. \A i \in 1 .. k : i # k => i \in 1 .. k - 1
    BY <2>1
  <2>3. \A i \in 1 .. k - 1 : f[i] \in Seq(T) /\ f[i] = IF i = 1 THEN ss[i] ELSE f[i - 1] \o ss[i]
    BY <1>3 DEF AreFlat, Flattens
  <2>4. h \in [1 .. k -> Seq(T)]
    BY <1>4, <2>2, <2>3
  <2>5. h[k] = x /\ \A i \in 1 .. k - 1 : h[i] = f[i]
    BY <2>1
  <2>6. ASSUME NEW i \in 1 .. k
        PROVE  h[i] = IF i = 1 THEN ss[i] ELSE h[i - 1] \o ss[i]
    <3>1. i # 1 => h[i - 1] = f[i - 1]
      BY <2>1, <2>5
    <3>. HIDE DEF h
    <3>2. CASE i = k
      BY <2>5, <3>1, <3>2 DEF x
    <3>3. CASE i # k
      <4>1. i \in 1 .. k - 1
        BY <2>2, <3>3
      <4>2. h[i] = f[i] /\ f[i] = IF i = 1 THEN ss[i] ELSE f[i - 1] \o ss[i]
        BY <2>3, <2>5, <4>1
      <4>. QED
        BY <3>1, <4>2
    <3>. QED
      BY <3>2, <3>3
  <2>. HIDE DEF h
  <2>. QED
    BY <2>4, <2>6 DEF AreFlat, Flattens
<1>. QED
  BY <1>1, <1>5

\* It depends on nothing but the sequences up to there.
LEMMA FlatIsOne ==
  ASSUME NEW n \in Nat, NEW f, NEW g, NEW ss, NEW tt, \A i \in 1 .. n : ss[i] = tt[i],
         Flattens(f, ss, n), Flattens(g, tt, n)
  PROVE  \A i \in 1 .. n : f[i] = g[i]
<1>. DEFINE Bad == {i \in 1 .. n : f[i] # g[i]}
<1>. SUFFICES ASSUME Bad # {} PROVE FALSE
  OBVIOUS
<1>0. Bad \in SUBSET Nat
  OBVIOUS
<1>1. PICK k \in Bad : \A m \in Bad : k <= m
  <2>. HIDE DEF Bad
  <2>. QED
    BY <1>0, LeastNumber
<1>2. k = 1 \/ (k - 1 \in 1 .. n /\ k - 1 \notin Bad)
  BY <1>1
<1>3. k \in 1 .. n /\ f[k] # g[k] /\ (k # 1 => f[k - 1] = g[k - 1])
  BY <1>1, <1>2
<1>4. /\ f[k] = IF k = 1 THEN ss[k] ELSE f[k - 1] \o ss[k]
      /\ g[k] = IF k = 1 THEN tt[k] ELSE g[k - 1] \o tt[k]
  BY <1>3, Zenon DEF Flattens
<1>5. ss[k] = tt[k]
  BY <1>3
<1>. QED
  BY <1>3, <1>4, <1>5

\* Flattened sequences are the last of these.
LEMMA FlatIs ==
  ASSUME NEW T, NEW ss \in Seq(Seq(T)), ss # <<>>
  PROVE  \E f : AreFlat(T, f, ss, Len(ss)) /\ Cp!FlattenSeq(ss) = f[Len(ss)]
<1>1. PICK f : AreFlat(T, f, ss, Len(ss))
  BY FlatExists
<1>2. f = [i \in 1 .. Len(ss) |-> IF i = 1 THEN ss[i] ELSE f[i - 1] \o ss[i]]
  BY <1>1 DEF AreFlat, Flattens
<1>. DEFINE F == CHOOSE g : g = [i \in 1 .. Len(ss) |-> IF i = 1 THEN ss[i] ELSE g[i - 1] \o ss[i]]
<1>3. F = [i \in 1 .. Len(ss) |-> IF i = 1 THEN ss[i] ELSE F[i - 1] \o ss[i]]
  BY <1>2, Zenon
<1>. HIDE DEF F
<1>4. Len(ss) # 0
  OBVIOUS
<1>5. Cp!FlattenSeq(ss) = F[Len(ss)]
  BY <1>4, Zenon DEF Cp!FlattenSeq, F
<1>6. \A i \in 1 .. Len(ss) : F[i] = IF i = 1 THEN ss[i] ELSE F[i - 1] \o ss[i]
  BY <1>3
<1>7. \A i \in 1 .. Len(ss) : F[i] \in Seq(T)
  <2>. DEFINE Bad == {i \in 1 .. Len(ss) : F[i] \notin Seq(T)}
  <2>. SUFFICES ASSUME Bad # {} PROVE FALSE
    OBVIOUS
  <2>0. Bad \in SUBSET Nat
    OBVIOUS
  <2>1. PICK k \in Bad : \A m \in Bad : k <= m
    <3>. HIDE DEF Bad
    <3>. QED
      BY <2>0, LeastNumber
  <2>2. k = 1 \/ (k - 1 \in 1 .. Len(ss) /\ k - 1 \notin Bad)
    BY <2>1
  <2>3. ss[k] \in Seq(T) /\ (k # 1 => F[k - 1] \in Seq(T))
    BY <2>1, <2>2
  <2>4. F[k] = IF k = 1 THEN ss[k] ELSE F[k - 1] \o ss[k]
    BY <1>6, <2>1
  <2>5. F[k] \in Seq(T)
    <3>1. CASE k = 1
      BY <2>3, <2>4, <3>1
    <3>2. CASE k # 1
      <4>1. F[k - 1] \o ss[k] \in Seq(T)
        BY <2>3, <3>2
      <4>. QED
        BY <2>4, <3>2, <4>1
    <3>. QED
      BY <3>1, <3>2
  <2>. QED
    BY <2>1, <2>5
<1>8. AreFlat(T, F, ss, Len(ss))
  BY <1>3, <1>6, <1>7 DEF AreFlat, Flattens
<1>. QED
  BY <1>5, <1>8

\* One more element at the end of a sequence.
LEMMA OneMore ==
  ASSUME NEW U, NEW s \in Seq(U), NEW b \in U
  PROVE  /\ Append(s, b) \in Seq(U) /\ Append(s, b) # <<>> /\ Len(s) \in Nat
         /\ Len(Append(s, b)) = Len(s) + 1 /\ Append(s, b)[Len(s) + 1] = b
         /\ \A i \in 1 .. Len(s) : Append(s, b)[i] = s[i]
  OBVIOUS

\* No sequences are flattened to nothing.
LEMMA FlatBegins == Cp!FlattenSeq(<<>>) = <<>>
  BY DEF Cp!FlattenSeq

\* Sequences flattened are a sequence.
LEMMA FlatSequence ==
  ASSUME NEW T, NEW ss \in Seq(Seq(T))
  PROVE  Cp!FlattenSeq(ss) \in Seq(T)
<1>1. CASE ss = <<>>
  <2>1. <<>> \in Seq(T)
    OBVIOUS
  <2>. QED
    BY <1>1, <2>1, FlatBegins
<1>2. CASE ss # <<>>
  <2>1. PICK f : AreFlat(T, f, ss, Len(ss)) /\ Cp!FlattenSeq(ss) = f[Len(ss)]
    BY <1>2, FlatIs
  <2>2. Len(ss) \in 1 .. Len(ss)
    BY <1>2
  <2>. QED
    BY <2>1, <2>2 DEF AreFlat, Flattens
<1>. QED
  BY <1>1, <1>2

\* One sequence more is put at the end.
LEMMA FlatGrows ==
  ASSUME NEW T, NEW ss \in Seq(Seq(T)), NEW b \in Seq(T)
  PROVE  Cp!FlattenSeq(Append(ss, b)) = Cp!FlattenSeq(ss) \o b
<1>. DEFINE n == Len(ss)
            tt == Append(ss, b)
<1>1. tt \in Seq(Seq(T)) /\ tt # <<>> /\ Len(tt) = n + 1 /\ n \in Nat /\ tt[n + 1] = b
      /\ \A i \in 1 .. n : tt[i] = ss[i]
  BY OneMore
<1>. HIDE DEF tt, n
<1>2. PICK g : AreFlat(T, g, tt, Len(tt)) /\ Cp!FlattenSeq(tt) = g[Len(tt)]
  BY <1>1, FlatIs
<1>3. Cp!FlattenSeq(tt) = IF n = 0 THEN b ELSE g[n] \o b
  <2>1. n + 1 \in 1 .. Len(tt) /\ (n + 1 = 1 <=> n = 0) /\ (n + 1) - 1 = n
    BY <1>1
  <2>2. g[n + 1] = IF n + 1 = 1 THEN tt[n + 1] ELSE g[(n + 1) - 1] \o tt[n + 1]
    BY <1>2, <2>1, Zenon DEF AreFlat, Flattens
  <2>. QED
    BY <1>1, <1>2, <2>1, <2>2
<1>4. CASE n = 0
  <2>1. ss = <<>> /\ <<>> \o b = b
    BY <1>4 DEF n
  <2>. QED
    BY <1>3, <1>4, <2>1, FlatBegins DEF tt
<1>5. CASE n # 0
  <2>1. PICK f : AreFlat(T, f, ss, n) /\ Cp!FlattenSeq(ss) = f[n]
    BY <1>5, FlatIs DEF n
  <2>2. Flattens(f, ss, n)
    BY <2>1 DEF AreFlat
  <2>3. Flattens(g, tt, n)
    <3>1. \A i \in 1 .. n + 1 : g[i] = IF i = 1 THEN tt[i] ELSE g[i - 1] \o tt[i]
      BY <1>1, <1>2, Zenon DEF AreFlat, Flattens
    <3>2. \A i \in 1 .. n : i \in 1 .. n + 1
      BY <1>1
    <3>. QED
      BY <3>1, <3>2, Zenon DEF Flattens
  <2>4. \A i \in 1 .. n : f[i] = g[i]
    <3>1. n \in Nat /\ \A i \in 1 .. n : ss[i] = tt[i]
      BY <1>1
    <3>. QED
      BY <2>2, <2>3, <3>1, FlatIsOne
  <2>. QED
    <3>1. f[n] = g[n]
      BY <1>1, <1>5, <2>4
    <3>. QED
      BY <1>3, <1>5, <2>1, <3>1 DEF tt
<1>. QED
  BY <1>4, <1>5

\* The first k sequences of ss, one after another.
Pre(ss, k) == Cp!FlattenSeq(SubSeq(ss, 1, k))

\* The first elements of a sequence, and one more of them.
LEMMA FirstAndOneMore ==
  ASSUME NEW U, NEW s \in Seq(U), NEW k \in Nat, k < Len(s)
  PROVE  /\ SubSeq(s, 1, k) \in Seq(U) /\ s[k + 1] \in U
         /\ SubSeq(s, 1, k + 1) = Append(SubSeq(s, 1, k), s[k + 1])
  OBVIOUS

\* The first none and the first all elements of a sequence.
LEMMA FirstAndAll ==
  ASSUME NEW U, NEW s \in Seq(U)
  PROVE  SubSeq(s, 1, 0) = <<>> /\ SubSeq(s, 1, Len(s)) = s
  OBVIOUS

\* The first elements of a sequence are a sequence.
LEMMA FirstAreSome ==
  ASSUME NEW U, NEW s \in Seq(U), NEW k \in Nat, k <= Len(s)
  PROVE  SubSeq(s, 1, k) \in Seq(U)
  OBVIOUS

\* One sequence after another, as lists of lines.
LEMMA OneAfterTheOther ==
  ASSUME NEW T, NEW s \in Seq(T), NEW t \in Seq(T)
  PROVE  /\ s \o t \in Seq(T) /\ Len(s \o t) = Len(s) + Len(t)
         /\ \A i \in 1 .. Len(s) : (s \o t)[i] = s[i]
         /\ \A i \in 1 .. Len(t) : (s \o t)[Len(s) + i] = t[i]
  OBVIOUS

\* The first none and the first all sequences.
LEMMA PreBegins ==
  ASSUME NEW T, NEW ss \in Seq(Seq(T))
  PROVE  Pre(ss, 0) = <<>> /\ Pre(ss, Len(ss)) = Cp!FlattenSeq(ss)
  BY FirstAndAll, FlatBegins DEF Pre

\* They are elements one after another.
LEMMA PreIsFlat ==
  ASSUME NEW T, NEW ss \in Seq(Seq(T)), NEW k \in Nat, k <= Len(ss)
  PROVE  Pre(ss, k) \in Seq(T)
  BY FirstAreSome, FlatSequence DEF Pre

\* One sequence more of them.
LEMMA PreGrows ==
  ASSUME NEW T, NEW ss \in Seq(Seq(T)), NEW k \in Nat, k < Len(ss)
  PROVE  Pre(ss, k + 1) = Pre(ss, k) \o ss[k + 1]
<1>1. SubSeq(ss, 1, k) \in Seq(Seq(T)) /\ ss[k + 1] \in Seq(T)
      /\ SubSeq(ss, 1, k + 1) = Append(SubSeq(ss, 1, k), ss[k + 1])
  BY FirstAndOneMore
<1>. QED
  BY <1>1, FlatGrows DEF Pre

\* What begins the sequences up to k begins those up to n.
PreStays(ss, k, n) ==
  Len(Pre(ss, k)) <= Len(Pre(ss, n)) /\ \A i \in 1 .. Len(Pre(ss, k)) : Pre(ss, n)[i] = Pre(ss, k)[i]

\* It always does.
LEMMA PreIsKept ==
  ASSUME NEW T, NEW ss \in Seq(Seq(T)), NEW k \in Nat, NEW n \in Nat, k <= n, n <= Len(ss)
  PROVE  PreStays(ss, k, n)
<1>. DEFINE Bad == {m \in k .. Len(ss) : ~ PreStays(ss, k, m)}
<1>. SUFFICES ASSUME Bad # {} PROVE FALSE
  <2>1. n \in k .. Len(ss)
    BY SMT
  <2>. QED
    BY <2>1, Zenon
<1>0. Bad \in SUBSET Nat /\ Len(ss) \in Nat
  OBVIOUS
<1>1. PICK m \in Bad : \A i \in Bad : m <= i
  <2>. HIDE DEF Bad
  <2>. QED
    BY <1>0, LeastNumber
<1>2. m \in k .. Len(ss) /\ ~ PreStays(ss, k, m)
  BY <1>1
<1>3. m # k
  <2>1. Pre(ss, k) \in Seq(T)
    BY PreIsFlat
  <2>. QED
    BY <1>2, <2>1 DEF PreStays
<1>4. m - 1 \in k .. Len(ss) /\ m - 1 \in Nat /\ m - 1 < Len(ss) /\ (m - 1) + 1 = m
  BY <1>0, <1>2, <1>3
<1>5. PreStays(ss, k, m - 1)
  <2>1. m - 1 \notin Bad
    <3>. HIDE DEF Bad
    <3>. QED
      BY <1>0, <1>1, <1>4
  <2>. QED
    BY <1>4, <2>1, Zenon
<1>6. Pre(ss, m) = Pre(ss, m - 1) \o ss[m] /\ ss[m] \in Seq(T)
  <2>1. Pre(ss, (m - 1) + 1) = Pre(ss, m - 1) \o ss[(m - 1) + 1]
    BY <1>4, PreGrows
  <2>2. ss[(m - 1) + 1] \in Seq(T)
    BY <1>4, FirstAndOneMore
  <2>. QED
    BY <1>4, <2>1, <2>2
<1>7. Pre(ss, m - 1) \in Seq(T) /\ Pre(ss, k) \in Seq(T)
  BY <1>4, PreIsFlat
<1>8. PreStays(ss, k, m)
  <2>. DEFINE p == Pre(ss, m - 1)
              q == ss[m]
  <2>1. Len(p \o q) = Len(p) + Len(q) /\ Len(p) \in Nat /\ Len(q) \in Nat /\ Len(Pre(ss, k)) \in Nat
        /\ \A i \in 1 .. Len(p) : (p \o q)[i] = p[i]
    BY <1>6, <1>7, OneAfterTheOther
  <2>. HIDE DEF p, q
  <2>2. Len(Pre(ss, k)) <= Len(p) /\ \A i \in 1 .. Len(Pre(ss, k)) : p[i] = Pre(ss, k)[i]
    BY <1>5 DEF PreStays, p
  <2>3. Pre(ss, m) = p \o q
    BY <1>6 DEF p, q
  <2>. QED
    BY <2>1, <2>2, <2>3 DEF PreStays
<1>. QED
  BY <1>2, <1>8

\* Where the elements of the sequence after the first k are.
LEMMA PlaceOfElement ==
  ASSUME NEW T, NEW ss \in Seq(Seq(T)), NEW k \in Nat, k < Len(ss)
  PROVE  /\ ss[k + 1] \in Seq(T) /\ Pre(ss, k) \in Seq(T) /\ Cp!FlattenSeq(ss) \in Seq(T)
         /\ Len(Pre(ss, k + 1)) = Len(Pre(ss, k)) + Len(ss[k + 1])
         /\ Len(Pre(ss, k)) + Len(ss[k + 1]) <= Len(Cp!FlattenSeq(ss))
         /\ \A i \in 1 .. Len(ss[k + 1]) : Cp!FlattenSeq(ss)[Len(Pre(ss, k)) + i] = ss[k + 1][i]
<1>. DEFINE p == Pre(ss, k)
            q == ss[k + 1]
            all == Cp!FlattenSeq(ss)
<1>1. q \in Seq(T)
  BY FirstAndOneMore
<1>2. p \in Seq(T) /\ all \in Seq(T)
  BY PreIsFlat, FlatSequence
<1>3. Pre(ss, k + 1) = p \o q
  BY PreGrows
<1>4. Len(ss) \in Nat /\ k + 1 \in Nat /\ k + 1 <= Len(ss)
  OBVIOUS
<1>5. PreStays(ss, k + 1, Len(ss)) /\ Pre(ss, Len(ss)) = all
  BY <1>4, PreIsKept, PreBegins
<1>. HIDE DEF p, q, all
<1>6. /\ Len(p \o q) = Len(p) + Len(q) /\ Len(p) \in Nat /\ Len(q) \in Nat
      /\ \A i \in 1 .. Len(q) : (p \o q)[Len(p) + i] = q[i]
  BY <1>1, <1>2, OneAfterTheOther
<1>7. Len(p \o q) <= Len(all) /\ \A i \in 1 .. Len(p \o q) : all[i] = (p \o q)[i]
  BY <1>3, <1>5 DEF PreStays
<1>8. \A i \in 1 .. Len(q) : all[Len(p) + i] = q[i]
  <2>. DEFINE r == p \o q
  <2>1. Len(r) = Len(p) + Len(q) /\ Len(p) \in Nat /\ Len(q) \in Nat
        /\ \A i \in 1 .. Len(q) : r[Len(p) + i] = q[i]
    BY <1>6
  <2>2. \A i \in 1 .. Len(r) : all[i] = r[i]
    BY <1>7
  <2>. HIDE DEF r
  <2>3. \A i \in 1 .. Len(q) : Len(p) + i \in 1 .. Len(r)
    BY <2>1
  <2>. QED
    BY <2>1, <2>2, <2>3
<1>. QED
  BY <1>1, <1>2, <1>3, <1>6, <1>7, <1>8 DEF p, q, all

-----------------------------------------------------------------------------
\* The blocks a file is parsed into, and what taking a side makes of one.
ParserBlock ==
  [kind : {"text"}, lines : Seq(FileLine)]
    \cup [kind : {"conflict"}, current : Seq(FileLine), incoming : Seq(FileLine)]

Sides == {"current", "incoming"}

Piece(b, side) == IF b.kind = "text" THEN b.lines ELSE b[side]

\* The pieces of all blocks, and the lines of the file piece by piece.
Pieces(bs, side) == [i \in DOMAIN bs |-> Piece(bs[i], side)]

LinesOfAll(ss) == [i \in DOMAIN ss |-> Cp!LinesOf(ss[i])]

\* A side of a block is some lines.
LEMMA PieceIsLines ==
  ASSUME NEW b \in ParserBlock, NEW side \in Sides
  PROVE  Piece(b, side) \in Seq(FileLine)
<1>1. CASE b \in [kind : {"text"}, lines : Seq(FileLine)]
  BY <1>1 DEF Piece
<1>2. CASE b \in [kind : {"conflict"}, current : Seq(FileLine), incoming : Seq(FileLine)]
  <2>1. b.kind = "conflict" /\ b.current \in Seq(FileLine) /\ b.incoming \in Seq(FileLine)
    BY <1>2
  <2>2. CASE side = "current"
    BY <2>1, <2>2 DEF Piece
  <2>3. CASE side = "incoming"
    BY <2>1, <2>3 DEF Piece
  <2>. QED
    BY <2>2, <2>3 DEF Sides
<1>. QED
  BY <1>1, <1>2 DEF ParserBlock

\* The sides of blocks are lists of lines.
LEMMA PiecesAreLines ==
  ASSUME NEW bs \in Seq(ParserBlock), NEW side \in Sides
  PROVE  /\ Pieces(bs, side) \in Seq(Seq(FileLine)) /\ Len(Pieces(bs, side)) = Len(bs)
         /\ \A i \in 1 .. Len(bs) : Pieces(bs, side)[i] = Piece(bs[i], side)
<1>. DEFINE U == Seq(FileLine)
            f == Pieces(bs, side)
<1>1. Len(bs) \in Nat /\ DOMAIN bs = 1 .. Len(bs) /\ \A i \in 1 .. Len(bs) : bs[i] \in ParserBlock
  OBVIOUS
<1>2. f = [i \in 1 .. Len(bs) |-> Piece(bs[i], side)] /\ \A i \in 1 .. Len(bs) : Piece(bs[i], side) \in U
  BY <1>1, PieceIsLines DEF Pieces
<1>. HIDE DEF U, f
<1>3. f \in Seq(U) /\ Len(f) = Len(bs) /\ \A i \in 1 .. Len(bs) : f[i] = Piece(bs[i], side)
  BY <1>1, <1>2
<1>. QED
  BY <1>3 DEF U, f

\* Taking a side: nothing of nothing, and block after block.
LEMMA ChosenBegins ==
  ASSUME NEW side
  PROVE  Cp!Chosen(<<>>, side) = <<>>
<1>1. [i \in DOMAIN <<>> |-> IF <<>>[i].kind = "text" THEN <<>>[i].lines ELSE <<>>[i][side]] = <<>>
  OBVIOUS
<1>. QED
  BY <1>1, FlatBegins DEF Cp!Chosen

\* Taking a side flattens them.
LEMMA ChosenArePieces ==
  ASSUME NEW bs, NEW side
  PROVE  Cp!Chosen(bs, side) = Cp!FlattenSeq(Pieces(bs, side))
  BY DEF Cp!Chosen, Pieces, Piece

\* One block more puts its side at the end.
LEMMA ChosenGrows ==
  ASSUME NEW bs \in Seq(ParserBlock), NEW b \in ParserBlock, NEW side \in Sides
  PROVE  /\ Cp!Chosen(Append(bs, b), side) = Cp!Chosen(bs, side) \o Piece(b, side)
         /\ Cp!Chosen(bs, side) \in Seq(FileLine) /\ Piece(b, side) \in Seq(FileLine)
<1>. DEFINE cs == Append(bs, b)
            p == Pieces(bs, side)
            q == Pieces(cs, side)
            x == Piece(b, side)
            U == Seq(FileLine)
<1>1. cs \in Seq(ParserBlock) /\ Len(cs) = Len(bs) + 1 /\ cs[Len(bs) + 1] = b /\ Len(bs) \in Nat
      /\ \A i \in 1 .. Len(bs) : cs[i] = bs[i]
  BY OneMore
<1>. HIDE DEF cs
<1>2. p \in Seq(U) /\ Len(p) = Len(bs) /\ \A i \in 1 .. Len(bs) : p[i] = Piece(bs[i], side)
  BY PiecesAreLines
<1>3. q \in Seq(U) /\ Len(q) = Len(cs) /\ \A i \in 1 .. Len(cs) : q[i] = Piece(cs[i], side)
  BY <1>1, PiecesAreLines
<1>4. x \in U
  BY PieceIsLines
<1>5. Cp!FlattenSeq(Append(p, x)) = Cp!FlattenSeq(p) \o x /\ Cp!FlattenSeq(p) \in Seq(FileLine)
  BY <1>2, <1>4, FlatGrows, FlatSequence
<1>6. q = Append(p, x)
  <2>. HIDE DEF U, p, q
  <2>1. Append(p, x) \in Seq(U) /\ Len(Append(p, x)) = Len(bs) + 1 /\ Append(p, x)[Len(bs) + 1] = x
        /\ \A i \in 1 .. Len(bs) : Append(p, x)[i] = p[i]
    BY <1>2, <1>4, OneMore
  <2>2. \A i \in 1 .. Len(bs) + 1 : q[i] = Append(p, x)[i]
    <3>1. ASSUME NEW i \in 1 .. Len(bs) + 1
          PROVE  q[i] = Append(p, x)[i]
      <4>1. CASE i = Len(bs) + 1
        BY <1>1, <1>3, <2>1, <4>1
      <4>2. CASE i \in 1 .. Len(bs)
        <5>1. q[i] = Piece(bs[i], side)
          BY <1>1, <1>3, <4>2
        <5>2. Append(p, x)[i] = p[i] /\ p[i] = Piece(bs[i], side)
          BY <1>2, <2>1, <4>2
        <5>. QED
          BY <5>1, <5>2
      <4>3. i = Len(bs) + 1 \/ i \in 1 .. Len(bs)
        BY <1>1
      <4>. QED
        BY <4>1, <4>2, <4>3, Zenon
    <3>. QED
      BY <3>1
  <2>3. ASSUME NEW s \in Seq(U), NEW t \in Seq(U), Len(s) = Len(t), \A i \in 1 .. Len(t) : s[i] = t[i]
        PROVE  s = t
    BY <2>3
  <2>4. Len(q) = Len(Append(p, x)) /\ \A i \in 1 .. Len(Append(p, x)) : q[i] = Append(p, x)[i]
    BY <1>1, <1>3, <2>1, <2>2
  <2>. QED
    BY <1>3, <2>1, <2>3, <2>4
<1>. QED
  BY <1>4, <1>5, <1>6, ChosenArePieces DEF cs

-----------------------------------------------------------------------------
\* A side of a conflict is a text or nothing.
LEMMA SideIsLines ==
  ASSUME NEW t \in Cp!Side
  PROVE  t \in Seq(FileLine) /\ \A i \in 1 .. Len(t) : t[i] \in Text
<1>1. CASE t = <<>>
  BY <1>1
<1>2. ASSUME NEW x \in Text, t = <<x>>
      PROVE  t \in Seq(FileLine) /\ \A i \in 1 .. Len(t) : t[i] \in Text
  BY <1>2 DEF FileLine
<1>. QED
  BY <1>1, <1>2 DEF Cp!Side

\* A piece of the file is a block, and its lines are some.
LEMMA SegmentIsBlock ==
  ASSUME NEW s \in Cp!Segment
  PROVE  s \in ParserBlock /\ Cp!LinesOf(s) \in Seq(FileLine) /\ Len(Cp!LinesOf(s)) >= 1
<1>0. Text \subseteq FileLine /\ {"<<<", "===", ">>>"} \subseteq FileLine
  BY DEF FileLine, Cp!Marker
<1>1. CASE s \in [kind : {"text"}, lines : {<<x>> : x \in Text}]
  <2>1. PICK x \in Text : s.lines = <<x>>
    BY <1>1
  <2>2. <<x>> \in Seq(FileLine) /\ Len(<<x>>) = 1 /\ s.kind = "text"
    BY <1>0, <1>1
  <2>3. s = [kind |-> "text", lines |-> <<x>>]
    BY <1>1, <2>1
  <2>. QED
    BY <2>1, <2>2, <2>3 DEF ParserBlock, Cp!LinesOf
<1>2. CASE s \in [kind : {"conflict"}, current : Cp!Side, incoming : Cp!Side]
  <2>1. \A t \in Cp!Side : t \in Seq(FileLine)
    BY SideIsLines
  <2>2. s.kind = "conflict" /\ s.current \in Seq(FileLine) /\ s.incoming \in Seq(FileLine)
        /\ s = [kind |-> "conflict", current |-> s.current, incoming |-> s.incoming]
    BY <1>2, <2>1
  <2>3. s \in ParserBlock
    BY <2>2 DEF ParserBlock
  <2>4. <<"<<<">> \in Seq(FileLine) /\ <<"===">> \in Seq(FileLine) /\ <<">>>">> \in Seq(FileLine)
    BY <1>0
  <2>5. Cp!LinesOf(s) = <<"<<<">> \o s.current \o <<"===">> \o s.incoming \o <<">>>">>
    BY <2>2 DEF Cp!LinesOf
  <2>6. <<"<<<">> \o s.current \o <<"===">> \o s.incoming \o <<">>>">> \in Seq(FileLine)
        /\ Len(<<"<<<">> \o s.current \o <<"===">> \o s.incoming \o <<">>>">>) >= 1
    <3>1. ASSUME NEW a \in Seq(FileLine), NEW b \in Seq(FileLine), NEW c \in Seq(FileLine),
                 NEW d \in Seq(FileLine), NEW e \in Seq(FileLine), Len(a) = 1
          PROVE  a \o b \o c \o d \o e \in Seq(FileLine) /\ Len(a \o b \o c \o d \o e) >= 1
      BY <3>1
    <3>. QED
      BY <2>2, <2>4, <3>1
  <2>. QED
    BY <2>3, <2>5, <2>6
<1>. QED
  BY <1>1, <1>2 DEF Cp!Segment

\* The lines of a conflict: a marker, one side, a marker, the other side, a marker.
LEMMA LinesOfConflict ==
  ASSUME NEW s \in Cp!Segment, s.kind = "conflict"
  PROVE  LET c == Len(s.current)
             d == Len(s.incoming)
             l == Cp!LinesOf(s)
         IN /\ s.current \in Seq(FileLine) /\ s.incoming \in Seq(FileLine)
            /\ \A i \in 1 .. c : s.current[i] \in Text
            /\ \A i \in 1 .. d : s.incoming[i] \in Text
            /\ Len(l) = c + d + 3
            /\ l[1] = "<<<" /\ l[c + 2] = "===" /\ l[c + d + 3] = ">>>"
            /\ \A i \in 1 .. c : l[1 + i] = s.current[i]
            /\ \A i \in 1 .. d : l[c + 2 + i] = s.incoming[i]
<1>. DEFINE a == s.current
            b == s.incoming
            l == <<"<<<">> \o a \o <<"===">> \o b \o <<">>>">>
<1>1. a \in Cp!Side /\ b \in Cp!Side
  BY DEF Cp!Segment
<1>2. /\ a \in Seq(FileLine) /\ \A i \in 1 .. Len(a) : a[i] \in Text
      /\ b \in Seq(FileLine) /\ \A i \in 1 .. Len(b) : b[i] \in Text
  BY <1>1, SideIsLines
<1>3. Cp!LinesOf(s) = l
  BY DEF Cp!LinesOf
<1>4. /\ Len(l) = Len(a) + Len(b) + 3
      /\ l[1] = "<<<" /\ l[Len(a) + 2] = "===" /\ l[Len(a) + Len(b) + 3] = ">>>"
      /\ \A i \in 1 .. Len(a) : l[1 + i] = a[i]
      /\ \A i \in 1 .. Len(b) : l[Len(a) + 2 + i] = b[i]
  <2>. HIDE DEF a, b
  <2>. QED
    BY <1>2
<1>. HIDE DEF l
<1>. QED
  BY <1>2, <1>3, <1>4

\* The lines of a text.
LEMMA LinesOfText ==
  ASSUME NEW s \in Cp!Segment, s.kind # "conflict"
  PROVE  /\ s.kind = "text" /\ Cp!LinesOf(s) = s.lines /\ s.lines \in Seq(FileLine) /\ Len(s.lines) = 1
         /\ s.lines[1] \in Text /\ s.lines = <<s.lines[1]>>
<1>1. s \in [kind : {"text"}, lines : {<<x>> : x \in Text}]
  BY DEF Cp!Segment
<1>2. PICK x \in Text : s.lines = <<x>>
  BY <1>1
<1>. QED
  BY <1>1, <1>2 DEF Cp!LinesOf, FileLine

\* The pieces of a file are blocks; its lines are theirs.
LEMMA SourceIsLines ==
  ASSUME NEW ss \in Seq(Cp!Segment)
  PROVE  /\ ss \in Seq(ParserBlock)
         /\ LinesOfAll(ss) \in Seq(Seq(FileLine)) /\ Len(LinesOfAll(ss)) = Len(ss)
         /\ \A i \in 1 .. Len(ss) : LinesOfAll(ss)[i] = Cp!LinesOf(ss[i])
<1>. DEFINE U == Seq(FileLine)
            f == LinesOfAll(ss)
<1>1. Len(ss) \in Nat /\ DOMAIN ss = 1 .. Len(ss) /\ \A i \in 1 .. Len(ss) : ss[i] \in Cp!Segment
  OBVIOUS
<1>2. f = [i \in 1 .. Len(ss) |-> Cp!LinesOf(ss[i])] /\ \A i \in 1 .. Len(ss) : Cp!LinesOf(ss[i]) \in U
  BY <1>1, SegmentIsBlock DEF LinesOfAll
<1>. HIDE DEF U, f
<1>3. f \in Seq(U) /\ Len(f) = Len(ss) /\ \A i \in 1 .. Len(ss) : f[i] = Cp!LinesOf(ss[i])
  BY <1>1, <1>2
<1>4. ss \in Seq(ParserBlock)
  BY <1>1, SegmentIsBlock
<1>. QED
  BY <1>3, <1>4 DEF U, f

\* The whole file, and the sides of it, one piece after another.
LEMMA FileGrows ==
  ASSUME NEW ss \in Seq(Cp!Segment), NEW k \in Nat, k < Len(ss)
  PROVE  LET p == Pre(LinesOfAll(ss), k)
             l == Cp!LinesOf(ss[k + 1])
             all == Cp!FlattenSeq(LinesOfAll(ss))
         IN /\ p \in Seq(FileLine) /\ l \in Seq(FileLine) /\ all \in Seq(FileLine) /\ Len(l) >= 1
            /\ Len(Pre(LinesOfAll(ss), k + 1)) = Len(p) + Len(l)
            /\ Len(p) + Len(l) <= Len(all)
            /\ \A i \in 1 .. Len(l) : all[Len(p) + i] = l[i]
<1>. DEFINE q == LinesOfAll(ss)
<1>1. q \in Seq(Seq(FileLine)) /\ Len(q) = Len(ss) /\ \A i \in 1 .. Len(ss) : q[i] = Cp!LinesOf(ss[i])
  BY SourceIsLines
<1>2. k + 1 \in 1 .. Len(ss) /\ ss[k + 1] \in Cp!Segment
  OBVIOUS
<1>3. q[k + 1] = Cp!LinesOf(ss[k + 1]) /\ Len(q[k + 1]) >= 1
  BY <1>1, <1>2, SegmentIsBlock
<1>. HIDE DEF q
<1>4. /\ q[k + 1] \in Seq(FileLine) /\ Pre(q, k) \in Seq(FileLine) /\ Cp!FlattenSeq(q) \in Seq(FileLine)
      /\ Len(Pre(q, k + 1)) = Len(Pre(q, k)) + Len(q[k + 1])
      /\ Len(Pre(q, k)) + Len(q[k + 1]) <= Len(Cp!FlattenSeq(q))
      /\ \A i \in 1 .. Len(q[k + 1]) : Cp!FlattenSeq(q)[Len(Pre(q, k)) + i] = q[k + 1][i]
  BY <1>1, PlaceOfElement
<1>. QED
  BY <1>3, <1>4 DEF q

\* One piece more puts its side at the end.
LEMMA SideGrows ==
  ASSUME NEW ss \in Seq(Cp!Segment), NEW k \in Nat, k < Len(ss), NEW side \in Sides
  PROVE  /\ Pre(Pieces(ss, side), k + 1) = Pre(Pieces(ss, side), k) \o Piece(ss[k + 1], side)
         /\ Pre(Pieces(ss, side), k) \in Seq(FileLine) /\ Piece(ss[k + 1], side) \in Seq(FileLine)
<1>. DEFINE q == Pieces(ss, side)
<1>1. q \in Seq(Seq(FileLine)) /\ Len(q) = Len(ss) /\ \A i \in 1 .. Len(ss) : q[i] = Piece(ss[i], side)
  BY SourceIsLines, PiecesAreLines
<1>2. k + 1 \in 1 .. Len(ss)
  OBVIOUS
<1>3. q[k + 1] = Piece(ss[k + 1], side)
  BY <1>1, <1>2
<1>. HIDE DEF q
<1>4. Pre(q, k + 1) = Pre(q, k) \o q[k + 1] /\ Pre(q, k) \in Seq(FileLine)
  BY <1>1, PreGrows, PreIsFlat
<1>5. q[k + 1] \in Seq(FileLine)
  BY <1>1, FirstAndOneMore
<1>. QED
  BY <1>3, <1>4, <1>5 DEF q

\* What was read outside a conflict becomes a block of text.
LEMMA FlushedIs ==
  ASSUME parsed \in Seq(ParserBlock), textBuf \in Seq(FileLine)
  PROVE  /\ Cp!Flushed \in Seq(ParserBlock)
         /\ \A side \in Sides : /\ Cp!Chosen(Cp!Flushed, side) = Cp!Chosen(parsed, side) \o textBuf
                                /\ Cp!Chosen(parsed, side) \in Seq(FileLine)
<1>. DEFINE b == [kind |-> "text", lines |-> textBuf]
<1>1. b \in ParserBlock /\ \A side : Piece(b, side) = textBuf
  BY DEF ParserBlock, Piece
<1>2. Append(parsed, b) \in Seq(ParserBlock)
  BY <1>1, OneMore
<1>3. \A side \in Sides : /\ Cp!Chosen(Append(parsed, b), side) = Cp!Chosen(parsed, side) \o textBuf
                          /\ Cp!Chosen(parsed, side) \in Seq(FileLine)
  BY <1>1, ChosenGrows
<1>4. CASE textBuf = <<>>
  <2>1. \A side \in Sides : Cp!Chosen(parsed, side) \o <<>> = Cp!Chosen(parsed, side)
    BY <1>3
  <2>. QED
    BY <1>3, <1>4, <2>1 DEF Cp!Flushed
<1>5. CASE textBuf # <<>>
  BY <1>2, <1>3, <1>5 DEF Cp!Flushed
<1>. QED
  BY <1>4, <1>5

-----------------------------------------------------------------------------
\* The types of the parser's variables; text is kept back only outside a conflict.
ParserTypes ==
  /\ segments \in Seq(Cp!Segment) /\ cut \in Nat /\ cut <= Len(Cp!Source) /\ line \in Nat /\ line <= cut
  /\ parserMode \in {"text", "current", "incoming"}
  /\ textBuf \in Seq(FileLine) /\ currentLines \in Seq(FileLine) /\ incomingLines \in Seq(FileLine)
  /\ parsed \in Seq(ParserBlock)
  /\ parserMode # "text" => textBuf = <<>>

\* One list of lines begins another.
StartsAs(s, t) == Len(s) <= Len(t) /\ \A i \in 1 .. Len(s) : s[i] = t[i]

\* The parser has read k pieces of ss, and its blocks are theirs ...
InText(ss, k, at, buf, bs) ==
  /\ at = Len(Pre(LinesOfAll(ss), k))
  /\ \A side \in Sides : Cp!Chosen(bs, side) \o buf = Pre(Pieces(ss, side), k)

\* ... and then it reads a conflict,
InConflict(ss, k, bs) ==
  /\ k < Len(ss) /\ ss[k + 1].kind = "conflict"
  /\ \A side \in Sides : Cp!Chosen(bs, side) = Pre(Pieces(ss, side), k)

\* the current side of it or the incoming one.
InCurrent(ss, k, at, cl, il) ==
  /\ il = <<>> /\ StartsAs(cl, ss[k + 1].current)
  /\ at = Len(Pre(LinesOfAll(ss), k)) + 1 + Len(cl)

InIncoming(ss, k, at, cl, il) ==
  /\ cl = ss[k + 1].current /\ StartsAs(il, ss[k + 1].incoming)
  /\ at = Len(Pre(LinesOfAll(ss), k)) + 2 + Len(cl) + Len(il)

ParsedSoFar(ss, k, at, m, buf, cl, il, bs) ==
  \/ m = "text" /\ InText(ss, k, at, buf, bs)
  \/ m = "current" /\ InConflict(ss, k, bs) /\ InCurrent(ss, k, at, cl, il)
  \/ m = "incoming" /\ InConflict(ss, k, bs) /\ InIncoming(ss, k, at, cl, il)

ParserStands ==
  \E k \in 0 .. Len(segments) :
    ParsedSoFar(segments, k, line, parserMode, textBuf, currentLines, incomingLines, parsed)

\* Every text that was read is still there.
TextsAreKept ==
  \A x \in Text :
    Cp!Occurs(x, SubSeq(Cp!Source, 1, line)) <=
      Cp!Occurs(x, Cp!Chosen(parsed, "current")) + Cp!Occurs(x, Cp!Chosen(parsed, "incoming"))
        + Cp!Occurs(x, textBuf)
        + IF parserMode = "text" THEN 0 ELSE Cp!Occurs(x, currentLines) + Cp!Occurs(x, incomingLines)

\* The inductive invariant of the parser.
ParserInv == ParserTypes /\ ParserStands /\ TextsAreKept

\* The file is what its pieces are.
LEMMA SourceIs ==
  ASSUME ParserTypes
  PROVE  Cp!Source = Cp!FlattenSeq(LinesOfAll(segments)) /\ Cp!Source \in Seq(FileLine)
<1>1. Cp!Source = Cp!FlattenSeq(LinesOfAll(segments))
  BY DEF Cp!Source, LinesOfAll
<1>2. LinesOfAll(segments) \in Seq(Seq(FileLine))
  BY SourceIsLines DEF ParserTypes
<1>. QED
  BY <1>1, <1>2, FlatSequence

\* A step reads one line; it keeps the types.
LEMMA ParserReads ==
  ASSUME ParserTypes, Cp!Parse
  PROVE  LET l == Cp!Source[line + 1] IN
         /\ l \in FileLine /\ line < cut /\ line' = line + 1 /\ UNCHANGED <<segments, cut>>
         /\ Cp!Source' = Cp!Source
         /\ Cp!Opens(l) \/ Cp!Divides(l) \/ Cp!Closes(l) \/ Cp!Keeps(l)
         /\ ParserTypes'
<1>. DEFINE l == Cp!Source[line + 1]
<1>1. line < cut /\ line' = line + 1 /\ UNCHANGED <<segments, cut>>
      /\ (Cp!Opens(l) \/ Cp!Divides(l) \/ Cp!Closes(l) \/ Cp!Keeps(l))
  BY DEF Cp!Parse
<1>2. Cp!Source' = Cp!Source
  BY <1>1 DEF Cp!Source, Cp!LinesOf
<1>3. l \in FileLine
  BY <1>1, SourceIs DEF ParserTypes
<1>. HIDE DEF l
<1>4. line' \in Nat /\ line' <= cut' /\ segments' \in Seq(Cp!Segment) /\ cut' \in Nat /\ cut' <= Len(Cp!Source')
  BY <1>1, <1>2 DEF ParserTypes
<1>5. <<>> \in Seq(FileLine)
  OBVIOUS
<1>6. ParserTypes'
  <2>1. CASE Cp!Opens(l)
    BY <1>4, <1>5, <2>1, FlushedIs DEF ParserTypes, Cp!Opens
  <2>2. CASE Cp!Divides(l)
    BY <1>4, <2>2 DEF ParserTypes, Cp!Divides
  <2>3. CASE Cp!Closes(l)
    <3>1. Cp!Block \in ParserBlock
      BY DEF ParserTypes, ParserBlock, Cp!Block
    <3>2. Append(parsed, Cp!Block) \in Seq(ParserBlock)
      BY <3>1, OneMore DEF ParserTypes
    <3>. QED
      BY <1>4, <2>3, <3>2 DEF ParserTypes, Cp!Closes
  <2>4. CASE Cp!Keeps(l)
    <3>1. \A s \in Seq(FileLine) : Append(s, l) \in Seq(FileLine)
      BY <1>3, OneMore
    <3>2. /\ textBuf' = IF parserMode = "text" THEN Append(textBuf, l) ELSE textBuf
          /\ currentLines' = IF parserMode = "current" THEN Append(currentLines, l) ELSE currentLines
          /\ incomingLines' = IF parserMode = "incoming" THEN Append(incomingLines, l) ELSE incomingLines
          /\ UNCHANGED <<parserMode, parsed>>
      BY <2>4 DEF Cp!Keeps, Cp!Into
    <3>. QED
      BY <1>4, <3>1, <3>2 DEF ParserTypes
  <2>. QED
    BY <1>1, <2>1, <2>2, <2>3, <2>4
<1>. QED
  BY <1>1, <1>2, <1>3, <1>6 DEF l

\* The parser stands in the right place after reading a line of text,
LEMMA ReadsText ==
  ASSUME ParserTypes, NEW k \in 0 .. Len(segments), line < cut, Cp!Parse,
         parserMode = "text", InText(segments, k, line, textBuf, parsed)
  PROVE  ParserStands'
<1>. DEFINE ss == segments
            s == ss[k + 1]
            p == Pre(LinesOfAll(ss), k)
            l == Cp!Source[line + 1]
<1>1. /\ line' = line + 1 /\ ss' = ss /\ Cp!Source = Cp!FlattenSeq(LinesOfAll(ss))
      /\ Cp!Opens(l) \/ Cp!Divides(l) \/ Cp!Closes(l) \/ Cp!Keeps(l)
  BY ParserReads, SourceIs
<1>2. ss \in Seq(Cp!Segment) /\ line = Len(p) /\ line < Len(Cp!Source) /\ k \in Nat /\ Len(ss) \in Nat
      /\ parsed \in Seq(ParserBlock) /\ textBuf \in Seq(FileLine)
  BY DEF ParserTypes, InText
<1>3. k < Len(ss)
  <2>1. k # Len(ss)
    <3>1. LinesOfAll(ss) \in Seq(Seq(FileLine)) /\ Len(LinesOfAll(ss)) = Len(ss)
      BY <1>2, SourceIsLines
    <3>2. Pre(LinesOfAll(ss), Len(ss)) = Cp!FlattenSeq(LinesOfAll(ss))
      BY <3>1, PreBegins
    <3>. QED
      BY <1>1, <1>2, <3>2
  <2>. QED
    BY <1>2, <2>1
<1>4. /\ p \in Seq(FileLine) /\ Cp!LinesOf(s) \in Seq(FileLine) /\ Len(Cp!LinesOf(s)) >= 1
      /\ Len(Pre(LinesOfAll(ss), k + 1)) = Len(p) + Len(Cp!LinesOf(s))
      /\ \A i \in 1 .. Len(Cp!LinesOf(s)) : Cp!Source[Len(p) + i] = Cp!LinesOf(s)[i]
  BY <1>1, <1>2, <1>3, FileGrows
<1>5. s \in Cp!Segment /\ k + 1 \in 0 .. Len(ss)
  BY <1>2, <1>3
<1>6. l = Cp!LinesOf(s)[1]
  BY <1>2, <1>4
<1>7. \A side \in Sides : Cp!Chosen(parsed, side) \o textBuf = Pre(Pieces(ss, side), k)
                          /\ Cp!Chosen(parsed, side) \in Seq(FileLine)
  BY <1>2, FlushedIs DEF InText
<1>8. CASE s.kind = "conflict"
  <2>1. l = "<<<"
    BY <1>5, <1>6, <1>8, LinesOfConflict
  <2>2. parserMode' = "current" /\ parsed' = Cp!Flushed /\ currentLines' = <<>> /\ incomingLines' = <<>>
    BY <1>1, <2>1 DEF Cp!Opens, Cp!Divides, Cp!Closes, Cp!Keeps, Cp!IsMarker
  <2>3. \A side \in Sides : Cp!Chosen(Cp!Flushed, side) = Pre(Pieces(ss, side), k)
    BY <1>2, <1>7, FlushedIs
  <2>. HIDE DEF l, p, s
  <2>4. InConflict(ss, k, parsed')
    BY <1>3, <1>8, <2>2, <2>3 DEF InConflict, s
  <2>5. InCurrent(ss, k, line', currentLines', incomingLines')
    <3>1. StartsAs(<<>>, s.current)
      <4>1. s.current \in Seq(FileLine)
        BY <1>5, <1>8, LinesOfConflict
      <4>. QED
        BY <4>1 DEF StartsAs
    <3>2. line' = Len(p) + 1 + Len(<<>>)
      BY <1>1, <1>2, <1>4
    <3>. QED
      BY <2>2, <3>1, <3>2 DEF InCurrent, p, s
  <2>6. ParsedSoFar(ss', k, line', parserMode', textBuf', currentLines', incomingLines', parsed')
    BY <1>1, <2>2, <2>4, <2>5 DEF ParsedSoFar
  <2>. QED
    BY <1>1, <2>6 DEF ParserStands
<1>9. CASE s.kind # "conflict"
  <2>1. s.kind = "text" /\ Cp!LinesOf(s) = s.lines /\ s.lines \in Seq(FileLine) /\ Len(s.lines) = 1 /\ l \in Text
        /\ s.lines = <<l>>
    BY <1>5, <1>6, <1>9, LinesOfText
  <2>2. l \notin {"<<<", "===", ">>>"}
    BY <2>1, ParserAssumption DEF Cp!Marker
  <2>. HIDE DEF l, p
  <2>3. textBuf' = Append(textBuf, l) /\ UNCHANGED <<parserMode, parsed>>
    BY <1>1, <2>2 DEF Cp!Opens, Cp!Divides, Cp!Closes, Cp!Keeps, Cp!Into
  <2>4. Append(textBuf, l) = textBuf \o s.lines
    <3>1. ASSUME NEW t \in Seq(FileLine), NEW x \in FileLine
          PROVE  Append(t, x) = t \o <<x>>
      OBVIOUS
    <3>2. l \in FileLine
      BY <2>1 DEF FileLine
    <3>. HIDE DEF s
    <3>. QED
      BY <1>2, <2>1, <3>1, <3>2
  <2>5. ASSUME NEW side \in Sides
        PROVE  Cp!Chosen(parsed', side) \o textBuf' = Pre(Pieces(ss, side), k + 1)
    <3>1. Pre(Pieces(ss, side), k + 1) = Pre(Pieces(ss, side), k) \o Piece(s, side)
      BY <1>2, <1>3, SideGrows
    <3>2. Piece(s, side) = s.lines
      BY <2>1 DEF Piece
    <3>3. ASSUME NEW a \in Seq(FileLine), NEW b \in Seq(FileLine), NEW c \in Seq(FileLine)
          PROVE  (a \o b) \o c = a \o (b \o c)
      OBVIOUS
    <3>. DEFINE ch == Cp!Chosen(parsed, side)
                sl == s.lines
                was == Pre(Pieces(ss, side), k)
                now == Pre(Pieces(ss, side), k + 1)
    <3>4. ch \in Seq(FileLine) /\ sl \in Seq(FileLine) /\ textBuf \in Seq(FileLine) /\ ch \o textBuf = was
          /\ now = was \o sl
      BY <1>2, <1>7, <2>1, <3>1, <3>2
    <3>. HIDE DEF ch, sl, was, now
    <3>5. ch \o (textBuf \o sl) = now
      BY <3>3, <3>4
    <3>. QED
      BY <2>3, <2>4, <3>5 DEF ch, sl, now
  <2>6. line' = Len(Pre(LinesOfAll(ss), k + 1))
    BY <1>1, <1>2, <1>4, <2>1
  <2>7. ParsedSoFar(ss', k + 1, line', parserMode', textBuf', currentLines', incomingLines', parsed')
    BY <1>1, <2>3, <2>5, <2>6 DEF ParsedSoFar, InText
  <2>. QED
    BY <1>1, <1>5, <2>7 DEF ParserStands
<1>. QED
  BY <1>8, <1>9

\* Nothing more to read of a side, or one more line of it.
LEMMA StartsOneMore ==
  ASSUME NEW s \in Seq(FileLine), NEW t \in Seq(FileLine), StartsAs(s, t)
  PROVE  /\ Len(s) = Len(t) => s = t
         /\ Len(s) # Len(t) => Len(s) + 1 \in 1 .. Len(t) /\ StartsAs(Append(s, t[Len(s) + 1]), t)
                               /\ Len(Append(s, t[Len(s) + 1])) = Len(s) + 1
<1>1. Len(s) = Len(t) => s = t
  BY DEF StartsAs
<1>2. ASSUME Len(s) # Len(t)
      PROVE  Len(s) + 1 \in 1 .. Len(t) /\ StartsAs(Append(s, t[Len(s) + 1]), t)
             /\ Len(Append(s, t[Len(s) + 1])) = Len(s) + 1
  <2>. DEFINE x == t[Len(s) + 1]
              u == Append(s, x)
  <2>1. Len(s) + 1 \in 1 .. Len(t) /\ x \in FileLine
    BY <1>2 DEF StartsAs
  <2>2. Len(u) = Len(s) + 1 /\ u[Len(s) + 1] = x /\ Len(s) \in Nat /\ \A i \in 1 .. Len(s) : u[i] = s[i]
    BY <2>1, OneMore
  <2>. HIDE DEF u
  <2>3. \A i \in 1 .. Len(u) : i = Len(s) + 1 \/ i \in 1 .. Len(s)
    BY <2>2
  <2>4. \A i \in 1 .. Len(u) : u[i] = t[i]
    BY <2>2, <2>3 DEF StartsAs
  <2>5. StartsAs(u, t)
    BY <2>1, <2>2, <2>4 DEF StartsAs
  <2>. QED
    BY <2>1, <2>2, <2>5 DEF u
<1>. QED
  BY <1>1, <1>2

\* What every line of a conflict is, and where it is in the file.
LEMMA ConflictIsRead ==
  ASSUME ParserTypes, NEW k \in 0 .. Len(segments), InConflict(segments, k, parsed)
  PROVE  LET s == segments[k + 1]
             n == Len(Pre(LinesOfAll(segments), k))
             c == Len(s.current)
             d == Len(s.incoming)
         IN /\ s \in Cp!Segment /\ s.kind = "conflict" /\ n \in Nat /\ c \in Nat /\ d \in Nat
            /\ s.current \in Seq(FileLine) /\ s.incoming \in Seq(FileLine)
            /\ n + c + d + 3 = Len(Pre(LinesOfAll(segments), k + 1))
            /\ n + c + d + 3 <= Len(Cp!Source)
            /\ Cp!Source[n + c + 2] = "===" /\ Cp!Source[n + c + d + 3] = ">>>"
            /\ \A i \in 1 .. c : Cp!Source[n + 1 + i] = s.current[i] /\ s.current[i] \in Text
            /\ \A i \in 1 .. d : Cp!Source[n + c + 2 + i] = s.incoming[i] /\ s.incoming[i] \in Text
<1>. DEFINE ss == segments
            s == ss[k + 1]
            p == Pre(LinesOfAll(ss), k)
            l == Cp!LinesOf(s)
            n == Len(p)
            c == Len(s.current)
            d == Len(s.incoming)
<1>1. ss \in Seq(Cp!Segment) /\ k \in Nat /\ k < Len(ss) /\ s.kind = "conflict"
  BY DEF ParserTypes, InConflict
<1>2. s \in Cp!Segment
  BY <1>1
<1>3. Cp!Source = Cp!FlattenSeq(LinesOfAll(ss))
  BY SourceIs
<1>4. /\ p \in Seq(FileLine) /\ l \in Seq(FileLine) /\ Cp!Source \in Seq(FileLine)
      /\ Len(Pre(LinesOfAll(ss), k + 1)) = n + Len(l)
      /\ n + Len(l) <= Len(Cp!Source)
      /\ \A i \in 1 .. Len(l) : Cp!Source[n + i] = l[i]
  BY <1>1, <1>3, FileGrows
<1>5. /\ s.current \in Seq(FileLine) /\ s.incoming \in Seq(FileLine)
      /\ \A i \in 1 .. c : s.current[i] \in Text
      /\ \A i \in 1 .. d : s.incoming[i] \in Text
      /\ Len(l) = c + d + 3
      /\ l[1] = "<<<" /\ l[c + 2] = "===" /\ l[c + d + 3] = ">>>"
      /\ \A i \in 1 .. c : l[1 + i] = s.current[i]
      /\ \A i \in 1 .. d : l[c + 2 + i] = s.incoming[i]
  BY <1>1, <1>2, LinesOfConflict
<1>6. n \in Nat /\ c \in Nat /\ d \in Nat
  BY <1>4, <1>5
<1>. HIDE DEF l, n, c, d
<1>7. Cp!Source[n + c + 2] = "===" /\ Cp!Source[n + c + d + 3] = ">>>"
  <2>1. c + 2 \in 1 .. Len(l) /\ c + d + 3 \in 1 .. Len(l) /\ n + (c + 2) = n + c + 2
        /\ n + (c + d + 3) = n + c + d + 3
    <3>1. Len(l) = c + d + 3
      BY <1>5
    <3>. QED
      BY <1>6, <3>1
  <2>2. Cp!Source[n + (c + 2)] = l[c + 2] /\ Cp!Source[n + (c + d + 3)] = l[c + d + 3]
    BY <1>4, <2>1
  <2>. QED
    BY <1>5, <2>1, <2>2
<1>8. ASSUME NEW i \in 1 .. c
      PROVE  Cp!Source[n + 1 + i] = s.current[i]
  <2>1. 1 + i \in 1 .. Len(l) /\ n + (1 + i) = n + 1 + i
    <3>1. Len(l) = c + d + 3
      BY <1>5
    <3>. QED
      BY <1>6, <3>1
  <2>2. Cp!Source[n + (1 + i)] = l[1 + i]
    BY <1>4, <2>1
  <2>. QED
    BY <1>5, <2>1, <2>2
<1>9. ASSUME NEW i \in 1 .. d
      PROVE  Cp!Source[n + c + 2 + i] = s.incoming[i]
  <2>1. c + 2 + i \in 1 .. Len(l) /\ n + (c + 2 + i) = n + c + 2 + i
    <3>1. Len(l) = c + d + 3
      BY <1>5
    <3>. QED
      BY <1>6, <3>1
  <2>2. Cp!Source[n + (c + 2 + i)] = l[c + 2 + i]
    BY <1>4, <2>1
  <2>. QED
    BY <1>5, <2>1, <2>2
<1>10. n + c + d + 3 = Len(Pre(LinesOfAll(ss), k + 1)) /\ n + c + d + 3 <= Len(Cp!Source)
  <2>1. Len(l) = c + d + 3
    BY <1>5
  <2>2. Len(Pre(LinesOfAll(ss), k + 1)) = n + Len(l) /\ n + Len(l) <= Len(Cp!Source)
    BY <1>4
  <2>. QED
    BY <1>6, <2>1, <2>2
<1>. HIDE DEF s, p
<1>. QED
  BY <1>1, <1>2, <1>5, <1>6, <1>7, <1>8, <1>9, <1>10 DEF n, c, d, s, p

\* after reading a line of the current side,
LEMMA ReadsCurrent ==
  ASSUME ParserTypes, NEW k \in 0 .. Len(segments), line < cut, Cp!Parse, parserMode = "current",
         InConflict(segments, k, parsed), InCurrent(segments, k, line, currentLines, incomingLines)
  PROVE  ParserStands'
<1>. DEFINE ss == segments
            s == ss[k + 1]
            n == Len(Pre(LinesOfAll(ss), k))
            c == Len(s.current)
            m == Len(currentLines)
            l == Cp!Source[line + 1]
<1>1. /\ line' = line + 1 /\ ss' = ss
      /\ Cp!Opens(l) \/ Cp!Divides(l) \/ Cp!Closes(l) \/ Cp!Keeps(l)
  BY ParserReads
<1>2. /\ s.current \in Seq(FileLine) /\ n \in Nat /\ c \in Nat
      /\ Cp!Source[n + c + 2] = "==="
      /\ \A i \in 1 .. c : Cp!Source[n + 1 + i] = s.current[i] /\ s.current[i] \in Text
  BY ConflictIsRead
<1>3. s.incoming \in Seq(FileLine)
  BY ConflictIsRead
<1>4. currentLines \in Seq(FileLine) /\ StartsAs(currentLines, s.current) /\ line = n + 1 + m /\ incomingLines = <<>>
      /\ m \in Nat
  BY DEF ParserTypes, InCurrent
<1>. HIDE DEF n
<1>5. CASE m = c
  <2>1. currentLines = s.current
    BY <1>2, <1>4, <1>5, StartsOneMore
  <2>2. l = "==="
    <3>1. line + 1 = n + c + 2
      <4>. HIDE DEF c, m
      <4>. QED
        BY <1>2, <1>4, <1>5
    <3>. QED
      BY <1>2, <3>1
  <2>. HIDE DEF l
  <2>3. parserMode' = "incoming" /\ UNCHANGED <<currentLines, incomingLines, parsed, textBuf>>
    BY <1>1, <2>2 DEF Cp!Opens, Cp!Divides, Cp!Closes, Cp!Keeps, Cp!IsMarker
  <2>4. StartsAs(<<>>, s.incoming)
    BY <1>3 DEF StartsAs
  <2>5. line' = n + 2 + m + Len(<<>>)
    <3>1. Len(<<>>) = 0
      OBVIOUS
    <3>. HIDE DEF c, m
    <3>. QED
      BY <1>1, <1>2, <1>4, <3>1
  <2>6. InIncoming(ss, k, line', currentLines', incomingLines')
    BY <1>4, <2>1, <2>3, <2>4, <2>5 DEF InIncoming, n
  <2>7. ParsedSoFar(ss', k, line', parserMode', textBuf', currentLines', incomingLines', parsed')
    BY <1>1, <2>3, <2>6 DEF ParsedSoFar
  <2>. QED
    BY <1>1, <2>7 DEF ParserStands
<1>6. CASE m # c
  <2>1. m + 1 \in 1 .. c /\ StartsAs(Append(currentLines, s.current[m + 1]), s.current)
        /\ Len(Append(currentLines, s.current[m + 1])) = m + 1
    BY <1>2, <1>4, <1>6, StartsOneMore
  <2>2. l = s.current[m + 1] /\ l \in Text
    <3>1. line + 1 = n + 1 + (m + 1)
      BY <1>2, <1>4
    <3>. QED
      BY <1>2, <2>1, <3>1
  <2>3. l \notin {"<<<", "===", ">>>"}
    BY <2>2, ParserAssumption DEF Cp!Marker
  <2>. HIDE DEF l, c, m
  <2>4. currentLines' = Append(currentLines, l) /\ UNCHANGED <<parserMode, parsed, textBuf, incomingLines>>
    BY <1>1, <2>3 DEF Cp!Opens, Cp!Divides, Cp!Closes, Cp!Keeps, Cp!Into
  <2>5. line' = n + 1 + (m + 1)
    BY <1>1, <1>2, <1>4
  <2>6. InCurrent(ss, k, line', currentLines', incomingLines')
    BY <1>4, <2>1, <2>2, <2>4, <2>5 DEF InCurrent, n
  <2>7. ParsedSoFar(ss', k, line', parserMode', textBuf', currentLines', incomingLines', parsed')
    BY <1>1, <2>4, <2>6 DEF ParsedSoFar
  <2>. QED
    BY <1>1, <2>7 DEF ParserStands
<1>. QED
  BY <1>5, <1>6

\* after reading a line of the incoming side,
LEMMA ReadsIncoming ==
  ASSUME ParserTypes, NEW k \in 0 .. Len(segments), line < cut, Cp!Parse, parserMode = "incoming",
         InConflict(segments, k, parsed), InIncoming(segments, k, line, currentLines, incomingLines)
  PROVE  ParserStands'
<1>. DEFINE ss == segments
            s == ss[k + 1]
            n == Len(Pre(LinesOfAll(ss), k))
            c == Len(s.current)
            d == Len(s.incoming)
            m == Len(incomingLines)
            l == Cp!Source[line + 1]
<1>1. /\ line' = line + 1 /\ ss' = ss
      /\ Cp!Opens(l) \/ Cp!Divides(l) \/ Cp!Closes(l) \/ Cp!Keeps(l)
  BY ParserReads
<1>2. /\ s.incoming \in Seq(FileLine) /\ n \in Nat /\ c \in Nat /\ d \in Nat
      /\ Cp!Source[n + c + d + 3] = ">>>"
      /\ n + c + d + 3 = Len(Pre(LinesOfAll(ss), k + 1))
      /\ \A i \in 1 .. d : Cp!Source[n + c + 2 + i] = s.incoming[i] /\ s.incoming[i] \in Text
  BY ConflictIsRead
<1>3. s.current \in Seq(FileLine) /\ s \in Cp!Segment /\ s.kind = "conflict"
  BY ConflictIsRead
<1>4. /\ incomingLines \in Seq(FileLine) /\ StartsAs(incomingLines, s.incoming) /\ line = n + 2 + c + m
      /\ currentLines = s.current /\ m \in Nat /\ textBuf = <<>> /\ parsed \in Seq(ParserBlock)
  BY DEF ParserTypes, InIncoming
<1>5. /\ ss \in Seq(Cp!Segment) /\ k \in Nat /\ k < Len(ss) /\ k + 1 \in 0 .. Len(ss)
      /\ \A side \in Sides : Cp!Chosen(parsed, side) = Pre(Pieces(ss, side), k)
  BY DEF ParserTypes, InConflict
<1>. HIDE DEF n
<1>6. CASE m = d
  <2>1. incomingLines = s.incoming
    BY <1>2, <1>4, <1>6, StartsOneMore
  <2>2. line + 1 = n + c + d + 3
    <3>. HIDE DEF c, d, m
    <3>. QED
      BY <1>2, <1>4, <1>6
  <2>3. l = ">>>"
    BY <1>2, <2>2
  <2>. HIDE DEF l
  <2>4. parserMode' = "text" /\ parsed' = Append(parsed, Cp!Block)
        /\ UNCHANGED <<currentLines, incomingLines, textBuf>>
    BY <1>1, <2>3 DEF Cp!Opens, Cp!Divides, Cp!Closes, Cp!Keeps, Cp!IsMarker
  <2>5. Cp!Block \in ParserBlock
    BY <1>2, <1>3, <1>4, <2>1 DEF ParserBlock, Cp!Block
  <2>6. ASSUME NEW side \in Sides
        PROVE  Cp!Chosen(parsed', side) \o textBuf' = Pre(Pieces(ss, side), k + 1)
    <3>1. Piece(Cp!Block, side) = Piece(s, side)
      <4>1. side = "current" \/ side = "incoming"
        BY DEF Sides
      <4>. QED
        BY <1>3, <1>4, <2>1, <4>1 DEF Piece, Cp!Block
    <3>2. Pre(Pieces(ss, side), k + 1) = Pre(Pieces(ss, side), k) \o Piece(s, side)
      BY <1>5, SideGrows
    <3>3. Cp!Chosen(parsed', side) = Cp!Chosen(parsed, side) \o Piece(Cp!Block, side)
          /\ Cp!Chosen(parsed, side) \in Seq(FileLine) /\ Piece(Cp!Block, side) \in Seq(FileLine)
      BY <1>4, <2>4, <2>5, ChosenGrows
    <3>4. Cp!Chosen(parsed', side) = Pre(Pieces(ss, side), k + 1)
      BY <1>5, <3>1, <3>2, <3>3
    <3>5. ASSUME NEW a \in Seq(FileLine), NEW b \in Seq(FileLine)
          PROVE  (a \o b) \o <<>> = a \o b
      OBVIOUS
    <3>. QED
      BY <1>4, <2>4, <3>3, <3>4, <3>5
  <2>7. line' = Len(Pre(LinesOfAll(ss), k + 1))
    BY <1>1, <1>2, <2>2
  <2>8. ParsedSoFar(ss', k + 1, line', parserMode', textBuf', currentLines', incomingLines', parsed')
    BY <1>1, <2>4, <2>6, <2>7 DEF ParsedSoFar, InText
  <2>. QED
    BY <1>1, <1>5, <2>8 DEF ParserStands
<1>7. CASE m # d
  <2>1. m + 1 \in 1 .. d /\ StartsAs(Append(incomingLines, s.incoming[m + 1]), s.incoming)
        /\ Len(Append(incomingLines, s.incoming[m + 1])) = m + 1
    BY <1>2, <1>4, <1>7, StartsOneMore
  <2>2. l = s.incoming[m + 1] /\ l \in Text
    <3>. DEFINE i == m + 1
    <3>1. line + 1 = n + c + 2 + i
      <4>. HIDE DEF c, d, m
      <4>. QED
        BY <1>2, <1>4
    <3>2. i \in 1 .. d
      BY <2>1
    <3>. HIDE DEF c, d, i
    <3>3. Cp!Source[n + c + 2 + i] = s.incoming[i] /\ s.incoming[i] \in Text
      BY <1>2, <3>2
    <3>. QED
      BY <3>1, <3>3 DEF i
  <2>3. l \notin {"<<<", "===", ">>>"}
    BY <2>2, ParserAssumption DEF Cp!Marker
  <2>. HIDE DEF l, d, m
  <2>4. incomingLines' = Append(incomingLines, l) /\ UNCHANGED <<parserMode, parsed, textBuf, currentLines>>
    BY <1>1, <2>3 DEF Cp!Opens, Cp!Divides, Cp!Closes, Cp!Keeps, Cp!Into
  <2>5. line' = n + 2 + c + (m + 1)
    <3>. HIDE DEF c
    <3>. QED
      BY <1>1, <1>2, <1>4
  <2>6. InIncoming(ss, k, line', currentLines', incomingLines')
    BY <1>4, <2>1, <2>2, <2>4, <2>5 DEF InIncoming, n
  <2>7. ParsedSoFar(ss', k, line', parserMode', textBuf', currentLines', incomingLines', parsed')
    BY <1>1, <2>4, <2>6 DEF ParsedSoFar
  <2>. QED
    BY <1>1, <2>7 DEF ParserStands
<1>. QED
  BY <1>6, <1>7

\* and so after every step.
LEMMA ParserStandsStep ==
  ASSUME ParserTypes, ParserStands, Cp!Parse
  PROVE  ParserStands'
<1>1. PICK k \in 0 .. Len(segments) :
        ParsedSoFar(segments, k, line, parserMode, textBuf, currentLines, incomingLines, parsed)
  BY DEF ParserStands
<1>2. line < cut
  BY DEF Cp!Parse
<1>3. CASE parserMode = "text" /\ InText(segments, k, line, textBuf, parsed)
  BY <1>2, <1>3, ReadsText
<1>4. CASE /\ parserMode = "current" /\ InConflict(segments, k, parsed)
           /\ InCurrent(segments, k, line, currentLines, incomingLines)
  BY <1>2, <1>4, ReadsCurrent
<1>5. CASE /\ parserMode = "incoming" /\ InConflict(segments, k, parsed)
           /\ InIncoming(segments, k, line, currentLines, incomingLines)
  BY <1>2, <1>5, ReadsIncoming
<1>. QED
  BY <1>1, <1>3, <1>4, <1>5 DEF ParsedSoFar

-----------------------------------------------------------------------------
\* How often a text is in what the parser holds.
LEMMA ChosenIsCounted ==
  ASSUME ParserTypes, NEW x
  PROVE  /\ \A side \in Sides : /\ Cp!Chosen(parsed, side) \in Seq(FileLine)
                                /\ Cp!Occurs(x, Cp!Chosen(parsed, side)) \in Nat
         /\ Cp!Occurs(x, textBuf) \in Nat /\ Cp!Occurs(x, currentLines) \in Nat
         /\ Cp!Occurs(x, incomingLines) \in Nat
<1>1. \A side \in Sides : Cp!Chosen(parsed, side) \in Seq(FileLine)
  BY FlushedIs DEF ParserTypes
<1>2. \A s \in Seq(FileLine) : Cp!Occurs(x, s) \in Nat
  BY OccursIsCounted
<1>. QED
  BY <1>1, <1>2 DEF ParserTypes

\* No step loses a text.
LEMMA TextsStep ==
  ASSUME ParserTypes, TextsAreKept, Cp!Parse
  PROVE  TextsAreKept'
<1>. DEFINE l == Cp!Source[line + 1]
<1>1. /\ l \in FileLine /\ line < cut /\ line' = line + 1 /\ UNCHANGED <<segments, cut>> /\ Cp!Source' = Cp!Source
      /\ (Cp!Opens(l) \/ Cp!Divides(l) \/ Cp!Closes(l) \/ Cp!Keeps(l))
  BY ParserReads
<1>2. ASSUME NEW x \in Text
      PROVE  Cp!Occurs(x, SubSeq(Cp!Source, 1, line + 1))
               = Cp!Occurs(x, SubSeq(Cp!Source, 1, line)) + (IF l = x THEN 1 ELSE 0)
             /\ Cp!Occurs(x, SubSeq(Cp!Source, 1, line)) \in Nat
  <2>1. Cp!Source \in Seq(FileLine) /\ line \in Nat /\ line < Len(Cp!Source)
    BY <1>1, SourceIs DEF ParserTypes
  <2>2. SubSeq(Cp!Source, 1, line) \in Seq(FileLine)
        /\ SubSeq(Cp!Source, 1, line + 1) = Append(SubSeq(Cp!Source, 1, line), l)
    BY <2>1, FirstAndOneMore
  <2>. DEFINE s == SubSeq(Cp!Source, 1, line)
  <2>. HIDE DEF l, s
  <2>3. Cp!Occurs(x, Append(s, l)) = Cp!Occurs(x, s) + (IF l = x THEN 1 ELSE 0) /\ Cp!Occurs(x, s) \in Nat
    BY <1>1, <2>2, OccursOnceMore, OccursIsCounted DEF s
  <2>. QED
    BY <2>2, <2>3 DEF s
<1>. HIDE DEF l
<1>3. SUFFICES ASSUME NEW x \in Text
               PROVE  Cp!Occurs(x, SubSeq(Cp!Source, 1, line + 1)) <=
                        Cp!Occurs(x, Cp!Chosen(parsed', "current")) + Cp!Occurs(x, Cp!Chosen(parsed', "incoming"))
                          + Cp!Occurs(x, textBuf')
                          + IF parserMode' = "text" THEN 0
                            ELSE Cp!Occurs(x, currentLines') + Cp!Occurs(x, incomingLines')
  <2>1. TextsAreKept' <=> \A x \in Text : 
          Cp!Occurs(x, SubSeq(Cp!Source', 1, line')) <=
                        Cp!Occurs(x, Cp!Chosen(parsed', "current")) + Cp!Occurs(x, Cp!Chosen(parsed', "incoming"))
                          + Cp!Occurs(x, textBuf')
                          + IF parserMode' = "text" THEN 0
                            ELSE Cp!Occurs(x, currentLines') + Cp!Occurs(x, incomingLines')
    BY Zenon DEF TextsAreKept
  <2>. QED
    BY <1>1, <2>1, Zenon
<1>. DEFINE now == Cp!Occurs(x, SubSeq(Cp!Source, 1, line))
            next == Cp!Occurs(x, SubSeq(Cp!Source, 1, line + 1))
            cur == Cp!Chosen(parsed, "current")
            inc == Cp!Chosen(parsed, "incoming")
            a == Cp!Occurs(x, cur)
            b == Cp!Occurs(x, inc)
            t == Cp!Occurs(x, textBuf)
            c == Cp!Occurs(x, currentLines)
            d == Cp!Occurs(x, incomingLines)
<1>4. now \in Nat /\ next = now + (IF l = x THEN 1 ELSE 0)
      /\ now <= a + b + t + IF parserMode = "text" THEN 0 ELSE c + d
  BY <1>2 DEF TextsAreKept
<1>5. a \in Nat /\ b \in Nat /\ t \in Nat /\ c \in Nat /\ d \in Nat /\ cur \in Seq(FileLine) /\ inc \in Seq(FileLine)
  BY ChosenIsCounted DEF Sides
<1>6. x \notin {"<<<", "===", ">>>"} /\ parserMode \in {"text", "current", "incoming"}
      /\ textBuf \in Seq(FileLine) /\ currentLines \in Seq(FileLine) /\ incomingLines \in Seq(FileLine)
      /\ parsed \in Seq(ParserBlock)
  BY ParserAssumption DEF Cp!Marker, ParserTypes
<1>7. "current" \in Sides /\ "incoming" \in Sides
  BY DEF Sides
<1>. HIDE DEF now, next, cur, inc, a, b, t, c, d
<1>8. CASE Cp!Opens(l)
  <2>1. parserMode = "text" /\ parserMode' = "current" /\ l = "<<<" /\ parsed' = Cp!Flushed
        /\ textBuf' = <<>> /\ currentLines' = <<>> /\ incomingLines' = <<>>
    BY <1>8 DEF Cp!Opens
  <2>2. Cp!Chosen(parsed', "current") = cur \o textBuf /\ Cp!Chosen(parsed', "incoming") = inc \o textBuf
    BY <1>6, <1>7, <2>1, FlushedIs DEF cur, inc
  <2>3. Cp!Occurs(x, cur \o textBuf) = a + t /\ Cp!Occurs(x, inc \o textBuf) = b + t
    BY <1>5, <1>6, OccursInBoth DEF a, b, t
  <2>4. Cp!Occurs(x, <<>>) = 0
    BY OccursNever
  <2>5. next = now /\ now <= a + b + t
    <3>1. l # x
      BY <1>6, <2>1
    <3>2. now <= a + b + t + 0 /\ next = now + 0
      BY <1>4, <2>1, <3>1
    <3>. QED
      BY <1>4, <1>5, <3>2
  <2>6. next <= (a + t) + (b + t) + 0 + (0 + 0)
    BY <1>4, <1>5, <2>5
  <2>. QED
    BY <2>1, <2>2, <2>3, <2>4, <2>6 DEF next
<1>9. CASE Cp!Divides(l)
  <2>1. parserMode = "current" /\ parserMode' = "incoming" /\ l = "==="
        /\ UNCHANGED <<textBuf, currentLines, incomingLines, parsed>>
    BY <1>9 DEF Cp!Divides
  <2>2. next <= a + b + t + (c + d)
    BY <1>4, <1>6, <2>1
  <2>. QED
    BY <2>1, <2>2 DEF next, a, b, t, c, d, cur, inc
<1>10. CASE Cp!Closes(l)
  <2>1. parserMode = "incoming" /\ parserMode' = "text" /\ l = ">>>" /\ parsed' = Append(parsed, Cp!Block)
        /\ UNCHANGED <<textBuf, currentLines, incomingLines>>
    BY <1>10 DEF Cp!Closes
  <2>2. Cp!Block \in ParserBlock /\ Piece(Cp!Block, "current") = currentLines
        /\ Piece(Cp!Block, "incoming") = incomingLines
    BY <1>6 DEF ParserBlock, Cp!Block, Piece
  <2>3. Cp!Chosen(parsed', "current") = cur \o currentLines /\ Cp!Chosen(parsed', "incoming") = inc \o incomingLines
    BY <1>6, <1>7, <2>1, <2>2, ChosenGrows DEF cur, inc
  <2>4. Cp!Occurs(x, cur \o currentLines) = a + c /\ Cp!Occurs(x, inc \o incomingLines) = b + d
    BY <1>5, <1>6, OccursInBoth DEF a, b, c, d
  <2>5. next <= a + b + t + (c + d)
    BY <1>4, <1>6, <2>1
  <2>6. next <= (a + c) + (b + d) + t + 0
    BY <1>4, <1>5, <2>5
  <2>. QED
    BY <2>1, <2>3, <2>4, <2>6 DEF next, t
<1>11. CASE Cp!Keeps(l)
  <2>1. /\ textBuf' = IF parserMode = "text" THEN Append(textBuf, l) ELSE textBuf
        /\ currentLines' = IF parserMode = "current" THEN Append(currentLines, l) ELSE currentLines
        /\ incomingLines' = IF parserMode = "incoming" THEN Append(incomingLines, l) ELSE incomingLines
        /\ parserMode' = parserMode /\ parsed' = parsed
    BY <1>11 DEF Cp!Keeps, Cp!Into
  <2>. DEFINE e == IF l = x THEN 1 ELSE 0
  <2>2. Cp!Occurs(x, Append(textBuf, l)) = t + e /\ Cp!Occurs(x, Append(currentLines, l)) = c + e
        /\ Cp!Occurs(x, Append(incomingLines, l)) = d + e
    BY <1>1, <1>6, OccursOnceMore DEF t, c, d
  <2>3. e \in Nat /\ next = now + e
    BY <1>4
  <2>. HIDE DEF e
  <2>4. CASE parserMode = "text"
    <3>1. next <= a + b + (t + e) + 0
      BY <1>4, <1>5, <2>3, <2>4
    <3>. QED
      BY <2>1, <2>2, <2>4, <3>1 DEF next, a, b, cur, inc
  <2>5. CASE parserMode = "current"
    <3>1. next <= a + b + t + ((c + e) + d)
      BY <1>4, <1>5, <2>3, <2>5
    <3>. QED
      BY <2>1, <2>2, <2>5, <3>1 DEF next, a, b, t, d, cur, inc
  <2>6. CASE parserMode = "incoming"
    <3>1. next <= a + b + t + (c + (d + e))
      BY <1>4, <1>5, <2>3, <2>6
    <3>. QED
      BY <2>1, <2>2, <2>6, <3>1 DEF next, a, b, t, c, cur, inc
  <2>. QED
    BY <1>6, <2>4, <2>5, <2>6
<1>. QED
  BY <1>1, <1>8, <1>9, <1>10, <1>11

-----------------------------------------------------------------------------
\* The parser begins before the first piece.
LEMMA ParserBegins ==
  ASSUME Cp!Init
  PROVE  ParserInv
<1>1. /\ cut \in 0 .. Len(Cp!Source) /\ line = 0 /\ parserMode = "text" /\ textBuf = <<>> /\ currentLines = <<>>
      /\ incomingLines = <<>> /\ parsed = <<>>
  BY DEF Cp!Init
<1>2. segments \in Seq(Cp!Segment)
  <2>1. segments \in UNION {[1 .. m -> Cp!Segment] : m \in 0 .. MaxSegments}
    BY DEF Cp!Init, Cp!BoundedSeq, Cp!SeqOf
  <2>2. PICK m \in 0 .. MaxSegments : segments \in [1 .. m -> Cp!Segment]
    BY <2>1
  <2>3. m \in Nat
    BY ParserAssumption
  <2>. QED
    BY <2>2, <2>3
<1>3. <<>> \in Seq(FileLine) /\ <<>> \in Seq(ParserBlock)
  OBVIOUS
<1>4. LinesOfAll(segments) \in Seq(Seq(FileLine)) /\ Len(segments) \in Nat /\ segments \in Seq(ParserBlock)
      /\ Cp!Source = Cp!FlattenSeq(LinesOfAll(segments))
  BY <1>2, SourceIsLines DEF Cp!Source, LinesOfAll
<1>5. Cp!Source \in Seq(FileLine)
  BY <1>4, FlatSequence
<1>6. ParserTypes
  <2>1. cut \in Nat /\ cut <= Len(Cp!Source) /\ line \in Nat /\ line <= cut
    BY <1>1, <1>5
  <2>. QED
    BY <1>1, <1>2, <1>3, <2>1 DEF ParserTypes
<1>7. Len(<<>>) = 0 /\ <<>> \o <<>> = <<>>
  OBVIOUS
<1>8. ParserStands
  <2>1. Pre(LinesOfAll(segments), 0) = <<>>
    BY <1>4, PreBegins
  <2>2. ASSUME NEW side \in Sides
        PROVE  Cp!Chosen(<<>>, side) \o <<>> = Pre(Pieces(segments, side), 0)
    <3>1. Pieces(segments, side) \in Seq(Seq(FileLine))
      BY <1>4, PiecesAreLines
    <3>2. Pre(Pieces(segments, side), 0) = <<>>
      BY <3>1, PreBegins
    <3>. QED
      BY <1>7, <3>2, ChosenBegins
  <2>3. InText(segments, 0, line, textBuf, parsed)
    BY <1>1, <1>7, <2>1, <2>2 DEF InText
  <2>4. ParsedSoFar(segments, 0, line, parserMode, textBuf, currentLines, incomingLines, parsed)
    BY <1>1, <2>3 DEF ParsedSoFar
  <2>. QED
    BY <1>4, <2>4 DEF ParserStands
<1>9. TextsAreKept
  <2>1. SubSeq(Cp!Source, 1, 0) = <<>>
    BY <1>5, FirstAndAll
  <2>2. ASSUME NEW x \in Text
        PROVE  Cp!Occurs(x, SubSeq(Cp!Source, 1, line)) <=
                 Cp!Occurs(x, Cp!Chosen(parsed, "current")) + Cp!Occurs(x, Cp!Chosen(parsed, "incoming"))
                   + Cp!Occurs(x, textBuf)
                   + IF parserMode = "text" THEN 0 ELSE Cp!Occurs(x, currentLines) + Cp!Occurs(x, incomingLines)
    <3>1. Cp!Occurs(x, <<>>) = 0 /\ Cp!Chosen(<<>>, "current") = <<>> /\ Cp!Chosen(<<>>, "incoming") = <<>>
      BY OccursNever, ChosenBegins
    <3>2. /\ Cp!Occurs(x, SubSeq(Cp!Source, 1, line)) = 0 /\ Cp!Occurs(x, textBuf) = 0
          /\ Cp!Occurs(x, Cp!Chosen(parsed, "current")) = 0 /\ Cp!Occurs(x, Cp!Chosen(parsed, "incoming")) = 0
          /\ parserMode = "text"
      BY <1>1, <2>1, <3>1, Zenon
    <3>. QED
      BY <3>2
  <2>. QED
    BY <2>2 DEF TextsAreKept
<1>. QED
  BY <1>6, <1>8, <1>9 DEF ParserInv

\* Every step of the parser keeps its invariant.
LEMMA ParserStep ==
  ASSUME ParserInv, ParserNext
  PROVE  ParserInv'
<1>1. CASE UNCHANGED cpVars
  <2>1. UNCHANGED <<segments, cut, line, parserMode, textBuf, currentLines, incomingLines, parsed>>
    BY <1>1 DEF cpVars
  <2>2. Cp!Source' = Cp!Source
    BY <2>1 DEF Cp!Source, Cp!LinesOf
  <2>3. ParserTypes'
    BY <2>1, <2>2 DEF ParserInv, ParserTypes
  <2>4. ParserStands'
    BY <2>1 DEF ParserInv, ParserStands
  <2>5. TextsAreKept'
    BY <2>1, <2>2 DEF ParserInv, TextsAreKept
  <2>. QED
    BY <2>3, <2>4, <2>5 DEF ParserInv
<1>2. CASE Cp!Parse
  BY <1>2, ParserReads, ParserStandsStep, TextsStep DEF ParserInv
<1>. QED
  BY <1>1, <1>2 DEF ParserNext, Cp!Next

\* The result: the blocks, and what was read after the last of them.
LEMMA ResultIs ==
  ASSUME ParserTypes
  PROVE  /\ Cp!Leftover \in Seq(FileLine)
         /\ \A side \in Sides : /\ Cp!Chosen(Cp!Result, side) = Cp!Chosen(parsed, side) \o Cp!Leftover
                                /\ Cp!Chosen(parsed, side) \in Seq(FileLine)
<1>. DEFINE l == Cp!Leftover
            b == [kind |-> "text", lines |-> l]
<1>1. l \in Seq(FileLine) /\ parsed \in Seq(ParserBlock)
  <2>1. <<"<<<">> \in Seq(FileLine) /\ <<"===">> \in Seq(FileLine)
    BY DEF FileLine, Cp!Marker
  <2>. QED
    BY <2>1 DEF ParserTypes, Cp!Leftover
<1>. HIDE DEF l
<1>2. b \in ParserBlock /\ \A side : Piece(b, side) = l
  BY <1>1 DEF ParserBlock, Piece
<1>3. Cp!Result = IF l = <<>> THEN parsed \o <<>> ELSE parsed \o <<b>>
  BY DEF Cp!Result, l
<1>4. parsed \o <<>> = parsed
  BY <1>1
<1>5. parsed \o <<b>> = Append(parsed, b)
  <2>1. ASSUME NEW U, NEW s \in Seq(U), NEW x \in U
        PROVE  s \o <<x>> = Append(s, x)
    OBVIOUS
  <2>. HIDE DEF b
  <2>. QED
    BY <1>1, <1>2, <2>1
<1>6. \A side \in Sides : /\ Cp!Chosen(Append(parsed, b), side) = Cp!Chosen(parsed, side) \o l
                          /\ Cp!Chosen(parsed, side) \in Seq(FileLine)
  BY <1>1, <1>2, ChosenGrows
<1>. HIDE DEF b
<1>7. CASE l = <<>>
  <2>1. \A side \in Sides : Cp!Chosen(parsed, side) \o <<>> = Cp!Chosen(parsed, side)
    BY <1>6
  <2>2. Cp!Result = parsed
    BY <1>3, <1>4, <1>7
  <2>. QED
    BY <1>1, <1>6, <1>7, <2>1, <2>2 DEF l
<1>8. CASE l # <<>>
  <2>1. Cp!Result = Append(parsed, b)
    BY <1>3, <1>5, <1>8
  <2>. QED
    BY <1>1, <1>6, <2>1 DEF l
<1>. QED
  BY <1>7, <1>8

\* A whole file is read to its last piece,
LEMMA WholeFileIsRead ==
  ASSUME ParserTypes, ParserStands, line = Len(Cp!Source)
  PROVE  parserMode = "text" /\ InText(segments, Len(segments), line, textBuf, parsed)
<1>1. PICK k \in 0 .. Len(segments) :
        ParsedSoFar(segments, k, line, parserMode, textBuf, currentLines, incomingLines, parsed)
  BY DEF ParserStands
<1>2. segments \in Seq(Cp!Segment) /\ k \in Nat /\ Len(segments) \in Nat /\ line \in Nat
  BY DEF ParserTypes
<1>3. ASSUME parserMode = "text", InText(segments, k, line, textBuf, parsed)
      PROVE  k = Len(segments)
  <2>1. SUFFICES ASSUME k < Len(segments) PROVE FALSE
    BY <1>2
  <2>. DEFINE p == Pre(LinesOfAll(segments), k)
              l == Cp!LinesOf(segments[k + 1])
  <2>2. p \in Seq(FileLine) /\ l \in Seq(FileLine) /\ Len(l) >= 1
        /\ Len(p) + Len(l) <= Len(Cp!FlattenSeq(LinesOfAll(segments)))
    BY <1>2, <2>1, FileGrows
  <2>3. line = Len(p)
    BY <1>3 DEF InText
  <2>4. Len(Cp!FlattenSeq(LinesOfAll(segments))) = line
    BY SourceIs
  <2>. HIDE DEF p, l
  <2>5. Len(p) \in Nat /\ Len(l) \in Nat
    BY <2>2
  <2>. QED
    BY <2>2, <2>3, <2>4, <2>5
<1>4. ASSUME InConflict(segments, k, parsed),
             \/ InCurrent(segments, k, line, currentLines, incomingLines)
             \/ InIncoming(segments, k, line, currentLines, incomingLines)
      PROVE  FALSE
  <2>. DEFINE s == segments[k + 1]
              n == Len(Pre(LinesOfAll(segments), k))
              c == Len(s.current)
              d == Len(s.incoming)
  <2>1. n \in Nat /\ c \in Nat /\ d \in Nat /\ n + c + d + 3 <= line
    BY <1>4, ConflictIsRead
  <2>2. Len(currentLines) \in Nat /\ Len(incomingLines) \in Nat
    BY DEF ParserTypes
  <2>3. CASE InCurrent(segments, k, line, currentLines, incomingLines)
    <3>1. Len(currentLines) <= c /\ line = n + 1 + Len(currentLines)
      BY <2>3 DEF InCurrent, StartsAs
    <3>. HIDE DEF n, c, d
    <3>. QED
      BY <1>2, <2>1, <2>2, <3>1
  <2>4. CASE InIncoming(segments, k, line, currentLines, incomingLines)
    <3>1. Len(incomingLines) <= d /\ line = n + 2 + c + Len(incomingLines)
      BY <2>4 DEF InIncoming, StartsAs
    <3>. HIDE DEF n, c, d
    <3>. QED
      BY <1>2, <2>1, <2>2, <3>1
  <2>. QED
    BY <1>4, <2>3, <2>4
<1>. QED
  BY <1>1, <1>3, <1>4 DEF ParsedSoFar

\* and so taking a side gives that side of it.
LEMMA SidesAreGiven ==
  ASSUME ParserTypes, ParserStands, line = Len(Cp!Source), NEW side \in Sides
  PROVE  Cp!Chosen(Cp!Result, side) = Cp!Chosen(segments, side)
<1>1. parserMode = "text" /\ Cp!Chosen(parsed, side) \o textBuf = Pre(Pieces(segments, side), Len(segments))
  BY WholeFileIsRead DEF InText
<1>2. Cp!Leftover = textBuf
  BY <1>1 DEF Cp!Leftover
<1>3. Cp!Chosen(Cp!Result, side) = Cp!Chosen(parsed, side) \o textBuf
  BY <1>2, ResultIs
<1>4. Pieces(segments, side) \in Seq(Seq(FileLine)) /\ Len(Pieces(segments, side)) = Len(segments)
  BY SourceIsLines, PiecesAreLines DEF ParserTypes
<1>5. Pre(Pieces(segments, side), Len(segments)) = Cp!FlattenSeq(Pieces(segments, side))
  BY <1>4, PreBegins
<1>. QED
  BY <1>1, <1>3, <1>5, ChosenArePieces

\* The result holds every text that was read.
LEMMA TextsAreGiven ==
  ASSUME ParserTypes, TextsAreKept, line = cut, NEW x \in Text
  PROVE  Cp!Occurs(x, Cp!Chosen(Cp!Result, "current") \o Cp!Chosen(Cp!Result, "incoming"))
           >= Cp!Occurs(x, SubSeq(Cp!Source, 1, cut))
<1>. DEFINE l == Cp!Leftover
            cur == Cp!Chosen(parsed, "current")
            inc == Cp!Chosen(parsed, "incoming")
            a == Cp!Occurs(x, cur)
            b == Cp!Occurs(x, inc)
            t == Cp!Occurs(x, textBuf)
            c == Cp!Occurs(x, currentLines)
            d == Cp!Occurs(x, incomingLines)
            e == Cp!Occurs(x, l)
            n == Cp!Occurs(x, SubSeq(Cp!Source, 1, cut))
<1>1. n <= a + b + t + IF parserMode = "text" THEN 0 ELSE c + d
  BY DEF TextsAreKept
<1>2. a \in Nat /\ b \in Nat /\ t \in Nat /\ c \in Nat /\ d \in Nat /\ cur \in Seq(FileLine) /\ inc \in Seq(FileLine)
  BY ChosenIsCounted DEF Sides
<1>3. l \in Seq(FileLine) /\ e \in Nat /\ n \in Nat
  <2>1. SubSeq(Cp!Source, 1, cut) \in Seq(FileLine)
    BY SourceIs, FirstAreSome DEF ParserTypes
  <2>. QED
    BY <2>1, ResultIs, OccursIsCounted
<1>4. Cp!Chosen(Cp!Result, "current") = cur \o l /\ Cp!Chosen(Cp!Result, "incoming") = inc \o l
  BY ResultIs DEF Sides
<1>5. e >= t + IF parserMode = "text" THEN 0 ELSE c + d
  <2>1. CASE parserMode = "text"
    <3>1. l = textBuf
      BY <2>1 DEF Cp!Leftover
    <3>. QED
      BY <1>2, <2>1, <3>1
  <2>2. CASE parserMode # "text"
    <3>. DEFINE u == <<"<<<">>
                v == <<"===">>
    <3>1. l = textBuf \o u \o currentLines \o v \o incomingLines
      BY <2>2 DEF Cp!Leftover
    <3>2. u \in Seq(FileLine) /\ v \in Seq(FileLine)
      BY DEF FileLine, Cp!Marker
    <3>3. textBuf \in Seq(FileLine) /\ currentLines \in Seq(FileLine) /\ incomingLines \in Seq(FileLine)
      BY DEF ParserTypes
    <3>. HIDE DEF u, v
    <3>4. Cp!Occurs(x, u) \in Nat /\ Cp!Occurs(x, v) \in Nat
      BY <3>2, OccursIsCounted
    <3>5. textBuf \o u \in Seq(FileLine) /\ textBuf \o u \o currentLines \in Seq(FileLine)
          /\ textBuf \o u \o currentLines \o v \in Seq(FileLine)
      BY <3>2, <3>3
    <3>6. Cp!Occurs(x, textBuf \o u) = t + Cp!Occurs(x, u)
      BY <3>2, <3>3, OccursInBoth
    <3>7. Cp!Occurs(x, textBuf \o u \o currentLines) = Cp!Occurs(x, textBuf \o u) + c
      BY <3>3, <3>5, OccursInBoth
    <3>8. Cp!Occurs(x, textBuf \o u \o currentLines \o v) = Cp!Occurs(x, textBuf \o u \o currentLines) + Cp!Occurs(x, v)
      BY <3>2, <3>5, OccursInBoth
    <3>9. e = Cp!Occurs(x, textBuf \o u \o currentLines \o v) + d
      BY <3>1, <3>3, <3>5, OccursInBoth
    <3>. HIDE DEF c, d, t, e
    <3>. QED
      BY <1>2, <2>2, <3>4, <3>6, <3>7, <3>8, <3>9
  <2>. QED
    BY <2>1, <2>2
<1>. HIDE DEF a, b, t, c, d, e, n, l, cur, inc
<1>6. /\ cur \o l \in Seq(FileLine) /\ inc \o l \in Seq(FileLine)
      /\ Cp!Occurs(x, cur \o l) = a + e /\ Cp!Occurs(x, inc \o l) = b + e
  BY <1>2, <1>3, OccursInBoth DEF a, b, e
<1>7. Cp!Occurs(x, (cur \o l) \o (inc \o l)) = (a + e) + (b + e)
  <2>. DEFINE y == cur \o l
              z == inc \o l
  <2>. HIDE DEF y, z
  <2>1. y \in Seq(FileLine) /\ z \in Seq(FileLine) /\ Cp!Occurs(x, y) = a + e /\ Cp!Occurs(x, z) = b + e
    BY <1>6 DEF y, z
  <2>2. Cp!Occurs(x, y \o z) = Cp!Occurs(x, y) + Cp!Occurs(x, z)
    BY <2>1, OccursInBoth
  <2>. QED
    BY <2>1, <2>2 DEF y, z
<1>8. n <= (a + e) + (b + e)
  <2>1. CASE parserMode = "text"
    BY <1>1, <1>2, <1>3, <1>5, <2>1
  <2>2. CASE parserMode # "text"
    BY <1>1, <1>2, <1>3, <1>5, <2>2
  <2>. QED
    BY <2>1, <2>2
<1>. QED
  BY <1>2, <1>3, <1>4, <1>7, <1>8 DEF n

-----------------------------------------------------------------------------
\* The dialogs, the viewer and the editor begin with nothing asked, saved or staged.
LEMMA DialogsBegin ==
  /\ Wt!Init => ResetInv
  /\ Me!Init => WriteInv
  /\ Dd!Init => SavesInv
<1>1. ASSUME Wt!Init PROVE ResetInv
  BY <1>1 DEF Wt!Init, ResetInv
<1>2. ASSUME Me!Init PROVE WriteInv
  BY <1>2 DEF Me!Init, WriteInv
<1>3. ASSUME Dd!Init PROVE SavesInv
  <2>1. queue = <<>> /\ saving = <<>> /\ discardedPatches = <<>> /\ loading = TRUE /\ intact = TRUE
    BY <1>3 DEF Dd!Init
  <2>2. <<>> \in Seq({})
    OBVIOUS
  <2>. QED
    BY <2>1, <2>2 DEF SavesInv
<1>. QED
  BY <1>1, <1>2, <1>3

\* Nothing of the user's work is lost on the way: hard resets are confirmed, the discards
\* saved are those on show, what is staged has no conflict left, and the parser keeps
\* each side of a file and every text of one that breaks off (WorktreeActionModal.tsx,
\* DiffView, MergeEditor.tsx, conflictParser.ts).
THEOREM WorkAlwaysKept == Spec => []WorkIsKept
<1>. DEFINE I == /\ part = "worktrees" => ResetInv
                 /\ part = "discard" => SavesInv
                 /\ part = "merge" => WriteInv
                 /\ part = "parser" => ParserInv
<1>1. Init => I
  BY DialogsBegin, ParserBegins DEF Init
<1>2. I /\ [Next]_vars => I'
  BY PartsStep, ResetStep, SavesStep, WriteStep, ParserStep
<1>3. I => WorkIsKept
  <2>1. ResetInv => Wt!HardResetIsConfirmed
    BY DEF ResetInv, Wt!HardResetIsConfirmed
  <2>2. SavesInv => Dd!SavedIsShown
    BY DEF SavesInv, LastSaved, Dd!SavedIsShown
  <2>3. WriteInv => Me!StagedIsResolved
    BY DEF WriteInv, Me!StagedIsResolved
  <2>4. ASSUME ParserInv PROVE Cp!SidesAreKept
    <3>1. SUFFICES ASSUME line = cut
                   PROVE  /\ cut = Len(Cp!Source) => \A side \in Sides :
                               Cp!Chosen(Cp!Result, side) = Cp!Chosen(segments, side)
                          /\ \A x \in Text :
                               Cp!Occurs(x, Cp!Chosen(Cp!Result, "current") \o Cp!Chosen(Cp!Result, "incoming"))
                                 >= Cp!Occurs(x, SubSeq(Cp!Source, 1, cut))
      BY DEF Cp!SidesAreKept, Sides
    <3>. QED
      BY <2>4, <3>1, SidesAreGiven, TextsAreGiven DEF ParserInv
  <2>. QED
    BY <2>1, <2>2, <2>3, <2>4 DEF WorkIsKept
<1>. HIDE DEF I
<1>. QED
  BY <1>1, <1>2, <1>3, PTL DEF Spec

=============================================================================
