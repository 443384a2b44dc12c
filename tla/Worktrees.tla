----------------------------- MODULE Worktrees -----------------------------
(***************************************************************************)
(* Worktrees: the dialog that adds one, the dialog that syncs, applies,    *)
(* picks or resets, and the panel that opens and removes them              *)
(* (src/components/Modals/AddWorktreeModal.tsx, WorktreeActionModal.tsx,   *)
(* components/Sidebar/WorktreePanel.tsx). Both dialogs stay mounted while  *)
(* they are closed, so their state outlives a closing.                     *)
(***************************************************************************)
EXTENDS Naturals, FiniteSets

CONSTANTS Worktree,    \* worktrees other than the main one
          None,        \* no worktree
          MaxActs      \* bound: dialogs opened, and tabs opened from the panel

VARIABLES
  folders, branches,    \* the worktrees whose folder, whose branch exists
  tabs,                 \* those whose folder a tab's shell is in
  isAddModalOpen, isAddingRef, isAdding,
  adds,                 \* "git worktree add" under way, with the tab that follows
  actionModal,          \* is open; its mode
  resetMode, confirmHard, isProcessing,
  running,              \* actions of that dialog under way
  asked,                \* history: the warning was shown since the dialog's opening, and the mode's choice
  unasked,              \* history: a hard reset was started without that
  confirmingRemove, removing,
  acts

addVars == <<isAddModalOpen, isAddingRef, isAdding, adds>>
actVars == <<actionModal, resetMode, confirmHard, isProcessing, running, asked, unasked>>
removeVars == <<confirmingRemove, removing>>
disk == <<folders, branches>>
vars == <<disk, tabs, addVars, actVars, removeVars, acts>>

Modes == {"sync", "apply", "pull", "cherrypick", "reset"}
Closed == "closed"

TypeOK ==
  /\ folders \subseteq Worktree /\ branches \subseteq Worktree /\ tabs \subseteq Worktree
  /\ {isAddModalOpen, isAddingRef, isAdding, confirmHard, isProcessing, asked, unasked} \subseteq BOOLEAN
  /\ adds \subseteq Worktree
  /\ actionModal \in Modes \cup {Closed} /\ resetMode \in {"soft", "mixed", "hard"}
  /\ running \in 0..MaxActs
  /\ confirmingRemove \in Worktree \cup {None} /\ removing \in Worktree \cup {None}
  /\ acts \in 0..MaxActs

Init ==
  /\ folders = {} /\ branches = {} /\ tabs = {}
  /\ isAddModalOpen = FALSE /\ isAddingRef = FALSE /\ isAdding = FALSE /\ adds = {}
  /\ actionModal = Closed /\ resetMode = "mixed" /\ confirmHard = FALSE /\ isProcessing = FALSE
  /\ running = 0 /\ asked = FALSE /\ unasked = FALSE
  /\ confirmingRemove = None /\ removing = None /\ acts = 0

-----------------------------------------------------------------------------
Count == acts < MaxActs /\ acts' = acts + 1

(* openAddModal, and the effect that resets the form.                         *)
OpenAdd ==
  /\ Count /\ ~isAddModalOpen
  /\ isAddModalOpen' = TRUE /\ isAddingRef' = FALSE /\ isAdding' = FALSE
  /\ UNCHANGED <<disk, tabs, adds, actVars, removeVars>>

(* Escape closes the dialog even while it adds; the buttons are covered then. *)
CloseAdd ==
  /\ isAddModalOpen /\ isAddModalOpen' = FALSE
  /\ UNCHANGED <<disk, tabs, isAddingRef, isAdding, adds, actVars, removeVars, acts>>

Add(w) ==
  /\ isAddModalOpen /\ ~isAdding /\ ~isAddingRef /\ w \notin adds
  /\ isAddingRef' = TRUE /\ isAdding' = TRUE /\ adds' = adds \cup {w}
  /\ UNCHANGED <<disk, tabs, isAddModalOpen, actVars, removeVars, acts>>

(* The worktree is there: its tab is opened, or that fails, and the dialog    *)
(* closes; or Git refuses, and the dialog stays.                              *)
AddEnds(w) ==
  /\ w \in adds /\ adds' = adds \ {w} /\ isAddingRef' = FALSE /\ isAdding' = FALSE
  /\ \/ /\ w \notin folders
        /\ folders' = folders \cup {w} /\ branches' = branches \cup {w}
        /\ tabs' \in {tabs, tabs \cup {w}}
        /\ isAddModalOpen' = FALSE
     \/ UNCHANGED <<disk, tabs, isAddModalOpen>>
  /\ UNCHANGED <<actVars, removeVars, acts>>

-----------------------------------------------------------------------------
StayConfirmed == UNCHANGED confirmHard
Unconfirm == confirmHard' = FALSE
ResetForm == resetMode' = "mixed" /\ Unconfirm

(* openActionModal, from a worktree's menu.                                   *)
OpenAction(m) ==
  /\ Count /\ folders # {} /\ actionModal = Closed
  /\ actionModal' = m /\ asked' = FALSE
  /\ ResetForm
  /\ UNCHANGED <<disk, tabs, addVars, isProcessing, running, unasked, removeVars>>

CloseAction ==
  /\ actionModal # Closed /\ actionModal' = Closed
  /\ UNCHANGED <<disk, tabs, addVars, resetMode, confirmHard, isProcessing, running, asked, unasked,
                 removeVars, acts>>

ChooseReset(r) ==
  /\ actionModal = "reset" /\ resetMode' = r /\ Unconfirm /\ asked' = FALSE
  /\ UNCHANGED <<disk, tabs, addVars, actionModal, isProcessing, running, unasked, removeVars, acts>>

(* handleAction: a hard reset is first warned of; then the dialog closes and  *)
(* the commands run in the output view.                                       *)
Action ==
  /\ actionModal # Closed /\ ~isProcessing
  /\ IF actionModal = "reset" /\ resetMode = "hard" /\ ~confirmHard
     THEN /\ confirmHard' = TRUE /\ asked' = TRUE
          /\ UNCHANGED <<actionModal, resetMode, isProcessing, running, unasked>>
     ELSE /\ isProcessing' = TRUE /\ actionModal' = Closed /\ running' = running + 1
          /\ unasked' = (unasked \/ (actionModal = "reset" /\ resetMode = "hard" /\ ~asked))
          /\ UNCHANGED <<resetMode, confirmHard, asked>>
  /\ UNCHANGED <<disk, tabs, addVars, removeVars, acts>>

(* runGitStreaming catches what its commands throw, so the catch block that   *)
(* clears isProcessing is not reached, however the commands end.              *)
ActionEnds ==
  /\ running > 0 /\ running' = running - 1
  /\ UNCHANGED <<disk, tabs, addVars, actionModal, resetMode, confirmHard, isProcessing, asked, unasked,
                 removeVars, acts>>

-----------------------------------------------------------------------------
(* handleNavigate, and a shell that leaves a folder by itself.                *)
Navigate(w) ==
  /\ Count /\ w \in folders /\ tabs' = tabs \cup {w}
  /\ UNCHANGED <<disk, addVars, actVars, removeVars>>
LeaveFolder(w) ==
  /\ w \in tabs /\ tabs' = tabs \ {w}
  /\ UNCHANGED <<disk, addVars, actVars, removeVars, acts>>

AskRemove(w) ==
  /\ w \in folders /\ removing = None /\ confirmingRemove' = w
  /\ UNCHANGED <<disk, tabs, addVars, actVars, removing, acts>>
CancelRemove ==
  /\ confirmingRemove # None /\ removing = None /\ confirmingRemove' = None
  /\ UNCHANGED <<disk, tabs, addVars, actVars, removing, acts>>

(* handleRemove, with "delete the folder" and "delete the branch" checked.    *)
Remove ==
  /\ confirmingRemove # None /\ removing = None
  /\ removing' = confirmingRemove
  /\ UNCHANGED <<disk, tabs, addVars, actVars, confirmingRemove, acts>>

RemoveEnds ==
  /\ removing # None /\ removing' = None /\ confirmingRemove' = None
  /\ \/ UNCHANGED <<disk, tabs>>                                  \* Git refuses
     \/ /\ folders' = folders \ {removing}                        \* its branch stays, and its tabs
        /\ UNCHANGED <<branches, tabs>>
     \/ /\ folders' = folders \ {removing} /\ branches' = branches \ {removing}
        /\ tabs' = tabs \ {removing}
  /\ UNCHANGED <<addVars, actVars, acts>>

Next ==
  \/ OpenAdd \/ CloseAdd \/ CloseAction \/ Action \/ ActionEnds \/ CancelRemove \/ Remove \/ RemoveEnds
  \/ \E w \in Worktree : Add(w) \/ AddEnds(w) \/ Navigate(w) \/ LeaveFolder(w) \/ AskRemove(w)
  \/ \E m \in Modes : OpenAction(m)
  \/ \E r \in {"soft", "mixed", "hard"} : ChooseReset(r)

Spec == Init /\ [][Next]_vars

-----------------------------------------------------------------------------
(* No worktree is reset hard without the warning having been shown since the  *)
(* dialog was opened and the mode chosen, whatever was cancelled before.      *)
HardResetIsConfirmed == ~unasked
=============================================================================
