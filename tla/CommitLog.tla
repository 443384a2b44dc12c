------------------------------ MODULE CommitLog ------------------------------
(***************************************************************************)
(* The history window of a repository (GitCommitLog, its tooltip and menu,  *)
(* useCommitActions, CommitDetailPanel, RefsTree).  The log is loaded once; *)
(* a click selects a commit, whose details are fetched; the pointer resting *)
(* on a row brings a tooltip, which goes away half a second after it is     *)
(* left; the menu of a row acts on its commit, after a confirmation or with *)
(* a name asked for, or compares it with the next commit clicked.  The      *)
(* directory of the panel may change underneath, and then the details are   *)
(* asked for again, in the new directory.                                   *)
(***************************************************************************)
EXTENDS Naturals, Sequences, FiniteSets, SequencesExt

CONSTANTS ClDir, ClRow,   \* directories, and commits of a log
          NoCommit,
          MaxClActs,      \* bound on the user's gestures
          MaxClMoves      \* bound on the changes of directory

VARIABLES clCwd,
          clLog,      \* the directory of commitLog, or NoCommit while it is empty
          clLoads,    \* the loads in flight, each of a directory
          clSelected, \* [hash, detail, asked, answered]: selectedHash, detail of the panel
          clHover,    \* [hash, next, hides, pointer, tip]: hoveredHash and its two timers
          clTips,     \* the tooltip's requests in flight
          clRefs,     \* RefsTree: the directory of the refs shown, those asked for, overtaken
          clMenu, clPrompt, clCompare,
          clDialog,   \* the application's one dialog: nothing, a question, an error
          clRuns,     \* git commands in flight: [op, hash, dir]
          clActs, clMoves

clVars == <<clCwd, clLog, clLoads, clSelected, clHover, clTips, clRefs, clMenu, clPrompt, clCompare,
            clDialog, clRuns, clActs, clMoves>>
clPanel == <<clCwd, clLog, clLoads, clRefs, clMoves>>
clOthers == <<clMenu, clPrompt, clCompare, clDialog, clRuns>>

Confirmable == {"checkout", "cherry-pick", "revert"}
Named == {"branch", "tag"}
Question(op, hash, dir) == [op |-> op, hash |-> hash, dir |-> dir]
NoDialog == [op |-> "none"]
ErrorDialog == [op |-> "error"]
Act == clActs < MaxClActs /\ clActs' = clActs + 1
Listed == IF clLog = NoCommit THEN {} ELSE ClRow

\* What the panel shows: the text of the details it has, and the refs and parents
\* of the selected row.
PanelShows ==
    IF clSelected.hash = NoCommit THEN [kind |-> "empty"]
    ELSE IF clSelected.detail = NoCommit THEN [kind |-> "loading"]
    ELSE [kind |-> "commit", text |-> clSelected.detail, refs |-> {clSelected.hash} \cap Listed]

\* The details of the panel.  The effect asks whenever commit or directory
\* change; every answer is taken, in the order of arrival.
Asking(hash) ==
    clSelected' = [clSelected EXCEPT
        !.hash = hash,
        !.detail = IF hash = NoCommit THEN NoCommit ELSE @,
        !.asked = IF hash = NoCommit THEN @
                  ELSE Append(@, [hash |-> hash, open |-> TRUE])]
\* .then(setDetail), .catch(() => setDetail(null))
TakeDetail(s, i, found) == IF found THEN [s EXCEPT !.detail = s.asked[i].hash]
                           ELSE s
ShowDetail(s, i, found) == [s EXCEPT !.detail = IF found THEN s.asked[i].hash ELSE NoCommit]
DetailAnswer(i, found) ==
    /\ clSelected.asked[i].open
    /\ clSelected' = [ShowDetail(clSelected, i, found) EXCEPT
                        !.asked[i].open = FALSE,
                        !.overtaken = @ \/ \E j \in i + 1 .. Len(clSelected.asked) :
                                               ~clSelected.asked[j].open]
    /\ UNCHANGED <<clPanel, clHover, clTips, clOthers, clActs>>

\* The refs are asked for whenever the directory changes.
AskRefsOnce(d) == clRefs
AskRefs(d) == [clRefs EXCEPT !.asked = Append(@, [dir |-> d, open |-> TRUE])]
\* The panel's directory changes: the log and the refs keep what they show.
CwdMoves(d) ==
    /\ clMoves < MaxClMoves /\ d # clCwd
    /\ clCwd' = d
    /\ clMoves' = clMoves + 1
    /\ IF clSelected.hash = NoCommit THEN UNCHANGED clSelected ELSE Asking(clSelected.hash)
    /\ clTips' = IF clHover.hash = NoCommit THEN clTips ELSE clTips \cup {clHover.hash}
    /\ clRefs' = AskRefs(d)
    /\ UNCHANGED <<clLog, clLoads, clHover, clOthers, clActs>>

\* loadCommitLog: any answer is shown, a failure empties the list.
LoadAnswer(i, ok) ==
    /\ i \in DOMAIN clLoads
    /\ clLog' = IF ok THEN clLoads[i] ELSE NoCommit
    /\ clLoads' = RemoveAt(clLoads, i)
    /\ UNCHANGED <<clCwd, clMoves, clRefs, clSelected, clHover, clTips, clOthers, clActs>>

\* RefsTree: every answer is shown, a failure keeps what there was.
RefsAnswer(i, ok) ==
    /\ clRefs.asked[i].open
    /\ clRefs' = [clRefs EXCEPT
                    !.asked[i].open = FALSE,
                    !.shown = IF ok THEN clRefs.asked[i].dir ELSE @,
                    !.failed = ~ok,
                    !.overtaken = @ \/ \E j \in i + 1 .. Len(clRefs.asked) : ~clRefs.asked[j].open]
    /\ UNCHANGED <<clCwd, clLog, clLoads, clMoves, clSelected, clHover, clTips, clOthers, clActs>>

\* handleRowClick: the second commit of a comparison, or a selection.
RowClick(c) ==
    /\ c \in Listed /\ Act
    /\ clMenu' = NoCommit
    /\ IF clCompare # NoCommit
       THEN /\ clRuns' = clRuns \cup {Question("compare", c, clCwd)}
            /\ clCompare' = NoCommit /\ UNCHANGED clSelected
       ELSE /\ IF c = clSelected.hash THEN UNCHANGED clSelected ELSE Asking(c)
            /\ UNCHANGED <<clCompare, clRuns>>
    /\ UNCHANGED <<clPanel, clHover, clTips, clPrompt, clDialog>>

\* The tooltip: 400 ms on a row bring it, 500 ms away from row and tooltip end it.
EnterRow(c) ==
    /\ c \in Listed /\ clHover.pointer # c
    /\ clHover' = [clHover EXCEPT !.pointer = c, !.hides = FALSE,
                                  !.next = IF clHover.hash = c THEN @ ELSE c]
    /\ Act /\ UNCHANGED <<clPanel, clSelected, clTips, clOthers>>
LeaveRow ==
    /\ clHover.pointer \in ClRow
    /\ clHover' = [clHover EXCEPT !.pointer = NoCommit, !.next = NoCommit, !.hides = TRUE]
    /\ UNCHANGED <<clPanel, clSelected, clTips, clOthers, clActs>>
HoverTimer ==
    /\ clHover.next # NoCommit
    /\ clHover' = [clHover EXCEPT !.hash = clHover.next, !.next = NoCommit]
    /\ clTips' = clTips \cup {clHover.next}
    /\ UNCHANGED <<clPanel, clSelected, clOthers, clActs>>
HideTimer ==
    /\ clHover.hides
    /\ clHover' = [clHover EXCEPT !.hash = NoCommit, !.hides = FALSE, !.tip = NoCommit]
    /\ UNCHANGED <<clPanel, clSelected, clTips, clOthers, clActs>>
\* The pointer on the tooltip itself keeps it.
EnterTooltip ==
    /\ clHover.hash # NoCommit /\ clHover.tip # NoCommit /\ clHover.pointer = NoCommit
    /\ clHover' = [clHover EXCEPT !.pointer = "tooltip", !.hides = FALSE]
    /\ Act /\ UNCHANGED <<clPanel, clSelected, clTips, clOthers>>
LeaveTooltip ==
    /\ clHover.pointer = "tooltip"
    /\ clHover' = [clHover EXCEPT !.pointer = NoCommit, !.hides = TRUE]
    /\ UNCHANGED <<clPanel, clSelected, clTips, clOthers, clActs>>
\* The tooltip's details: taken if it is still there, nothing on a failure.
TipAnswer(c, found) ==
    /\ c \in clTips
    /\ clTips' = clTips \ {c}
    /\ clHover' = IF found /\ clHover.hash # NoCommit THEN [clHover EXCEPT !.tip = c] ELSE clHover
    /\ UNCHANGED <<clPanel, clSelected, clOthers, clActs>>

\* handleContextMenu, and the clicks that close the menu.
ContextMenu(c) ==
    /\ c \in Listed /\ clHover.pointer = c /\ Act
    /\ clHover' = [clHover EXCEPT !.hash = NoCommit, !.tip = NoCommit]
    /\ clMenu' = c
    /\ UNCHANGED <<clPanel, clSelected, clTips, clPrompt, clCompare, clDialog, clRuns>>
CloseMenu ==
    /\ clMenu # NoCommit
    /\ clMenu' = NoCommit
    /\ UNCHANGED <<clPanel, clSelected, clHover, clTips, clPrompt, clCompare, clDialog, clRuns,
                   clActs>>

\* useCommitActions.  A question is put for the commit of the menu and the
\* directory the panel is in at that time; the one dialog shows the newest.
Ask(op) ==
    /\ clMenu # NoCommit /\ op \in Confirmable
    /\ clDialog' = Question(op, clMenu, clCwd)
    /\ clMenu' = NoCommit
    /\ UNCHANGED <<clPanel, clSelected, clHover, clTips, clPrompt, clCompare, clRuns, clActs>>
AskName(op) ==
    /\ clMenu # NoCommit /\ op \in Named
    /\ clPrompt' = [op |-> op, hash |-> clMenu]
    /\ clMenu' = NoCommit
    /\ UNCHANGED <<clPanel, clSelected, clHover, clTips, clCompare, clDialog, clRuns, clActs>>
\* Compare with the remote's head or the merge base: a diff at once.
CompareNow ==
    /\ clMenu # NoCommit
    /\ clRuns' = clRuns \cup {Question("compare", clMenu, clCwd)}
    /\ clMenu' = NoCommit
    /\ UNCHANGED <<clPanel, clSelected, clHover, clTips, clPrompt, clCompare, clDialog, clActs>>
CompareWith ==
    /\ clMenu # NoCommit
    /\ clCompare' = clMenu
    /\ clMenu' = NoCommit
    /\ UNCHANGED <<clPanel, clSelected, clHover, clTips, clPrompt, clDialog, clRuns, clActs>>
CancelCompare ==
    /\ clCompare # NoCommit
    /\ clCompare' = NoCommit
    /\ UNCHANGED <<clPanel, clSelected, clHover, clTips, clMenu, clPrompt, clDialog, clRuns,
                   clActs>>

\* The dialog: closed first, then its handler is called.
IsQuestion == clDialog.op \in Confirmable
Confirm ==
    /\ IsQuestion /\ Act
    /\ clDialog' = NoDialog
    /\ clRuns' = clRuns \cup {clDialog}
    /\ UNCHANGED <<clPanel, clSelected, clHover, clTips, clMenu, clPrompt, clCompare>>
Dismiss ==
    /\ clDialog # NoDialog
    /\ clDialog' = NoDialog
    /\ UNCHANGED <<clPanel, clSelected, clHover, clTips, clMenu, clPrompt, clCompare, clRuns,
                   clActs>>
\* handleInputSubmit; the prompt stays until the command has ended.
Submit ==
    /\ clPrompt # NoCommit /\ Act
    /\ clRuns' = clRuns \cup {Question(clPrompt.op, clPrompt.hash, clCwd)}
    /\ UNCHANGED <<clPanel, clSelected, clHover, clTips, clMenu, clPrompt, clCompare, clDialog>>
CancelPrompt ==
    /\ clPrompt # NoCommit
    /\ clPrompt' = NoCommit
    /\ UNCHANGED <<clPanel, clSelected, clHover, clTips, clMenu, clCompare, clDialog, clRuns,
                   clActs>>

\* A command ends: after one that changed it the log of its directory is loaded again, or an error shown
\* in place of whatever the dialog held.
RunEnds(r, ok) ==
    /\ r \in clRuns
    /\ clRuns' = clRuns \ {r}
    /\ clLoads' = IF ok /\ r.op # "compare" THEN Append(clLoads, r.dir) ELSE clLoads
    /\ clDialog' = IF ok THEN clDialog ELSE ErrorDialog
    /\ clPrompt' = IF r.op \in Named THEN NoCommit ELSE clPrompt
    /\ UNCHANGED <<clCwd, clLog, clMoves, clRefs, clSelected, clHover, clTips, clMenu, clCompare,
                   clActs>>

ClInit ==
    /\ clCwd \in ClDir
    /\ clLog = NoCommit /\ clLoads = <<clCwd>>
    /\ clSelected = [hash |-> NoCommit, detail |-> NoCommit, asked |-> <<>>, overtaken |-> FALSE]
    /\ clHover = [hash |-> NoCommit, next |-> NoCommit, hides |-> FALSE, pointer |-> NoCommit,
                  tip |-> NoCommit]
    /\ clTips = {}
    /\ clRefs = [shown |-> NoCommit, failed |-> FALSE, overtaken |-> FALSE,
                 asked |-> <<[dir |-> clCwd, open |-> TRUE]>>]
    /\ clMenu = NoCommit /\ clPrompt = NoCommit /\ clCompare = NoCommit
    /\ clDialog = NoDialog /\ clRuns = {}
    /\ clActs = 0 /\ clMoves = 0

ClNext ==
    \/ \E i \in DOMAIN clSelected.asked, found \in BOOLEAN : DetailAnswer(i, found)
    \/ \E d \in ClDir : CwdMoves(d)
    \/ \E i \in DOMAIN clLoads, ok \in BOOLEAN : LoadAnswer(i, ok)
    \/ \E i \in DOMAIN clRefs.asked, ok \in BOOLEAN : RefsAnswer(i, ok)
    \/ \E c \in ClRow : RowClick(c) \/ EnterRow(c) \/ ContextMenu(c)
    \/ \E c \in clTips, found \in BOOLEAN : TipAnswer(c, found)
    \/ LeaveRow \/ HoverTimer \/ HideTimer \/ EnterTooltip \/ LeaveTooltip
    \/ CloseMenu \/ CompareNow \/ CompareWith \/ CancelCompare
    \/ \E op \in Confirmable : Ask(op)
    \/ \E op \in Named : AskName(op)
    \/ Confirm \/ Dismiss \/ Submit \/ CancelPrompt
    \/ \E r \in clRuns, ok \in BOOLEAN : RunEnds(r, ok)

ClSpec == ClInit /\ [][ClNext]_clVars

(***************************************************************************)
(* Properties                                                              *)
(***************************************************************************)
OrNone(S) == S \cup {NoCommit}
\* The variables hold values of their types.
ClTypeOK ==
    /\ clCwd \in ClDir /\ clLog \in OrNone(ClDir) /\ clLoads \in Seq(ClDir)
    /\ clSelected.hash \in OrNone(ClRow) /\ clSelected.detail \in OrNone(ClRow)
    /\ clHover.hash \in OrNone(ClRow) /\ clHover.next \in OrNone(ClRow)
    /\ clTips \subseteq ClRow /\ clMenu \in OrNone(ClRow) /\ clCompare \in OrNone(ClRow)
    /\ clRuns \subseteq [op : Confirmable \cup Named \cup {"compare"}, hash : ClRow, dir : ClDir]
    /\ clActs \in 0 .. MaxClActs /\ clMoves \in 0 .. MaxClMoves

\* Once its request has been answered, the panel shows the details of the commit
\* that is selected and of no other, nothing if they could not be had, unless an
\* older answer came after a newer one (CommitDetailPanel).
DetailOfTheSelected ==
    \/ clSelected.overtaken
    \/ \E i \in DOMAIN clSelected.asked : clSelected.asked[i].open
    \/ PanelShows.kind # "commit"
    \/ PanelShows.text = clSelected.hash /\ PanelShows.refs = {PanelShows.text} \cap Listed

\* The tree shows the refs of the panel's directory once its requests have been
\* answered, unless one failed or an older answer came after a newer one (RefsTree).
RefsOfTheDirectory ==
    \/ clRefs.overtaken \/ clRefs.failed
    \/ \E i \in DOMAIN clRefs.asked : clRefs.asked[i].open
    \/ clRefs.shown = clCwd
=============================================================================
