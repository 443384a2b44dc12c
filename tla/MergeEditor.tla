----------------------------- MODULE MergeEditor -----------------------------
(***************************************************************************)
(* The merge editor (src/components/Sidebar/MergeEditor): conflicts are    *)
(* resolved one by one in the editor, all at once by Git, or in another    *)
(* program whose work a timer watches. A file is the set of its conflicts  *)
(* that are still open. Every handler survives the editor: it closes the   *)
(* tab at the index it was made with, whatever tab is there by then.       *)
(***************************************************************************)
EXTENDS Naturals, FiniteSets

CONSTANTS Conflict,    \* the conflicts of the file
          MaxRenders,  \* bound: renders of the panel around the editor
          MaxPolls     \* bound: polls of the file

VARIABLES
  fileOpen,      \* conflicts open in the file
  dropped,       \* conflicts the editor left out of the file it wrote
  blocks,        \* conflicts open in the editor
  blocksRead,    \* the editor holds blocks
  mergeLoading, mergeError,
  toolMenu, waitingTool,
  polls,         \* polls under way
  writeDue,      \* the effect that writes is due
  writing,       \* writes under way: what they await, what they leave open
  accepting,     \* Git takes one side of the whole file
  isStaged,
  editorShown,
  tabCloses,     \* tabs closed by this editor
  renders, pollCount

vars == <<fileOpen, dropped, blocks, blocksRead, mergeLoading, mergeError, toolMenu, waitingTool, polls,
          writeDue, writing, accepting, isStaged, editorShown, tabCloses, renders, pollCount>>
file == <<fileOpen, dropped, isStaged>>
view == <<blocks, blocksRead, mergeLoading, mergeError, toolMenu, waitingTool>>
tasks == <<polls, writing, accepting>>
count == <<renders, pollCount>>

TypeOK ==
  /\ {fileOpen, dropped, blocks} \subseteq SUBSET Conflict
  /\ {blocksRead, mergeLoading, mergeError, toolMenu, waitingTool, writeDue, isStaged, editorShown} \subseteq BOOLEAN
  /\ polls \in 0..MaxPolls /\ pollCount \in 0..MaxPolls /\ renders \in 0..MaxRenders
  /\ writing \subseteq [awaits : {"write", "stage"}, left : SUBSET Conflict]
  /\ accepting \in BOOLEAN /\ tabCloses \in Nat

Init ==
  /\ fileOpen = Conflict /\ dropped = {} /\ blocks = {} /\ blocksRead = FALSE
  /\ mergeLoading = TRUE /\ mergeError = FALSE /\ toolMenu = FALSE /\ waitingTool = FALSE
  /\ polls = 0 /\ writeDue = FALSE /\ writing = {} /\ accepting = FALSE /\ isStaged = FALSE
  /\ editorShown = TRUE /\ tabCloses = 0 /\ renders = 0 /\ pollCount = 0

-----------------------------------------------------------------------------
LoadFile ==
  /\ mergeLoading /\ mergeLoading' = FALSE
  /\ \/ blocks' = fileOpen /\ blocksRead' = TRUE /\ UNCHANGED mergeError
     \/ mergeError' = TRUE /\ UNCHANGED <<blocks, blocksRead>>
  /\ writeDue' = editorShown
  /\ UNCHANGED <<file, toolMenu, waitingTool, tasks, editorShown, tabCloses, count>>

(* The panel passes new handlers whenever it renders, and the effect that     *)
(* depends on them is due again.                                              *)
Render ==
  /\ editorShown /\ renders < MaxRenders /\ renders' = renders + 1 /\ writeDue' = TRUE
  /\ UNCHANGED <<file, view, tasks, editorShown, tabCloses, pollCount>>

ResolveBlock(c) ==
  /\ editorShown /\ ~mergeLoading /\ ~mergeError /\ c \in blocks
  /\ blocks' = blocks \ {c} /\ writeDue' = TRUE
  /\ UNCHANGED <<file, blocksRead, mergeLoading, mergeError, toolMenu, waitingTool, tasks, editorShown,
                 tabCloses, count>>

(* A block resolved is enough to write: what a missing count would do.        *)
SomeResolved == blocks # Conflict
AllResolved == blocks = {}

WriteResolved ==
  /\ writeDue /\ writeDue' = FALSE
  /\ writing' = IF ~mergeLoading /\ blocksRead /\ AllResolved
                THEN writing \cup {[awaits |-> "write", left |-> blocks]} ELSE writing
  /\ UNCHANGED <<file, view, polls, accepting, editorShown, tabCloses, count>>

Written(x) ==
  /\ x \in writing /\ x.awaits = "write"
  /\ \/ /\ writing' = (writing \ {x}) \cup {[x EXCEPT !.awaits = "stage"]}
        /\ fileOpen' = {} /\ dropped' = dropped \cup x.left /\ UNCHANGED mergeError
     \/ writing' = writing \ {x} /\ mergeError' = TRUE /\ UNCHANGED <<fileOpen, dropped>>
  /\ UNCHANGED <<isStaged, blocks, blocksRead, mergeLoading, toolMenu, waitingTool, polls, writeDue, accepting,
                 editorShown, tabCloses, count>>

(* onResolved and onClose.                                                    *)
OnClose == editorShown' = FALSE /\ tabCloses' = tabCloses + 1 /\ writeDue' = FALSE

Stage(x) ==
  /\ x \in writing /\ x.awaits = "stage" /\ writing' = writing \ {x}
  /\ \/ isStaged' = TRUE /\ OnClose /\ UNCHANGED mergeError
     \/ mergeError' = TRUE /\ UNCHANGED <<isStaged, editorShown, tabCloses, writeDue>>
  /\ UNCHANGED <<fileOpen, dropped, blocks, blocksRead, mergeLoading, toolMenu, waitingTool, polls, accepting,
                 count>>

-----------------------------------------------------------------------------
ActionsShown == editorShown /\ ~mergeLoading /\ blocks # {} /\ ~waitingTool

HandleAcceptAll ==
  /\ ActionsShown /\ ~accepting /\ accepting' = TRUE
  /\ UNCHANGED <<file, view, polls, writing, writeDue, editorShown, tabCloses, count>>

AcceptedAll ==
  /\ accepting /\ accepting' = FALSE
  /\ \/ fileOpen' = {} /\ isStaged' = TRUE /\ OnClose /\ UNCHANGED mergeError
     \/ mergeError' = TRUE /\ UNCHANGED <<fileOpen, isStaged, editorShown, tabCloses, writeDue>>
  /\ UNCHANGED <<dropped, blocks, blocksRead, mergeLoading, toolMenu, waitingTool, polls, writing, count>>

ToggleToolMenu ==
  /\ ActionsShown /\ toolMenu' = ~toolMenu
  /\ UNCHANGED <<file, blocks, blocksRead, mergeLoading, mergeError, waitingTool, tasks, writeDue, editorShown,
                 tabCloses, count>>

(* handleMergetool, handleVscode: the program starts, and the polls with it.  *)
StartTool ==
  /\ ActionsShown /\ toolMenu /\ toolMenu' = FALSE
  /\ waitingTool' \in BOOLEAN /\ mergeError' = (mergeError \/ ~waitingTool')
  /\ UNCHANGED <<file, blocks, blocksRead, mergeLoading, tasks, writeDue, editorShown, tabCloses, count>>

ToolResolves(c) ==
  /\ waitingTool /\ c \in fileOpen /\ fileOpen' = fileOpen \ {c}
  /\ UNCHANGED <<dropped, isStaged, view, tasks, writeDue, editorShown, tabCloses, count>>

(* The timer does not wait for the poll before.                               *)
Poll ==
  /\ editorShown /\ waitingTool /\ pollCount < MaxPolls /\ pollCount' = pollCount + 1 /\ polls' = polls + 1
  /\ UNCHANGED <<file, view, writing, accepting, writeDue, editorShown, tabCloses, renders>>

PollSeesConflicts ==
  /\ polls > 0 /\ polls' = polls - 1 /\ fileOpen # {}
  /\ blocks' = fileOpen /\ writeDue' = editorShown
  /\ UNCHANGED <<file, blocksRead, mergeLoading, mergeError, toolMenu, waitingTool, writing, accepting,
                 editorShown, tabCloses, count>>

PollSeesNone ==
  /\ polls > 0 /\ polls' = polls - 1 /\ fileOpen = {}
  /\ waitingTool' = FALSE /\ isStaged' = TRUE /\ OnClose
  /\ UNCHANGED <<fileOpen, dropped, blocks, blocksRead, mergeLoading, mergeError, toolMenu, writing, accepting,
                 count>>

(* The file cannot be read, or not be staged: Git says whether it is settled. *)
PollFails ==
  /\ polls > 0 /\ polls' = polls - 1
  /\ IF isStaged THEN waitingTool' = FALSE /\ OnClose ELSE UNCHANGED <<waitingTool, editorShown, tabCloses, writeDue>>
  /\ UNCHANGED <<file, blocks, blocksRead, mergeLoading, mergeError, toolMenu, writing, accepting, count>>

(* Escape closes the menu first; the cross closes the editor.                 *)
Escape ==
  /\ editorShown
  /\ IF toolMenu THEN toolMenu' = FALSE /\ UNCHANGED <<editorShown, tabCloses, writeDue>>
     ELSE OnClose /\ UNCHANGED toolMenu
  /\ UNCHANGED <<file, blocks, blocksRead, mergeLoading, mergeError, waitingTool, tasks, count>>

Next ==
  \/ LoadFile \/ Render \/ WriteResolved \/ HandleAcceptAll \/ AcceptedAll \/ ToggleToolMenu \/ StartTool
  \/ Poll \/ PollSeesConflicts \/ PollSeesNone \/ PollFails \/ Escape
  \/ \E c \in Conflict : ResolveBlock(c) \/ ToolResolves(c)
  \/ \E x \in writing : Written(x) \/ Stage(x)

Spec == Init /\ [][Next]_vars

-----------------------------------------------------------------------------
(* What the editor stages has no conflict open, and none was left out without *)
(* a side having been chosen, whoever chose it.                               *)
StagedIsResolved == dropped = {} /\ (isStaged => fileOpen = {})
=============================================================================
