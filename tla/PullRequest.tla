---------------------------- MODULE PullRequest ----------------------------
(***************************************************************************)
(* The part of the commit form (src/components/Sidebar/GitPanel/           *)
(* CommitForm.tsx) that pushes and then offers to open a pull request. The *)
(* form stays when the panel moves to another directory it knows, and      *)
(* every handler keeps the directory it was started in. What a form that   *)
(* is gone still has under way shows nowhere and is left out.              *)
(***************************************************************************)
EXTENDS Naturals, FiniteSets

CONSTANTS Dir,      \* directories of repositories; each has a default branch
          NoDir,    \* the branch a new form names: main
          MaxMoves  \* bound: changes of directory, and pushes

VARIABLES
  formDir,         \* the directory of the panel
  isPushing, isCreatingPr, isGeneratingPr,
  showPrForm,
  prBase,          \* whose default branch the form names, NoDir for main
  prTitle,         \* the title is not empty
  prResult,        \* the repository whose request is linked to
  prTasks,         \* handlers under way: their directory, and what they await
  creating,        \* requests being created: where, and onto whose branch
  retargeted,      \* the user chose the base branch
  moved,           \* the directory changed under this form
  moves, pushes

vars == <<formDir, isPushing, isCreatingPr, isGeneratingPr, showPrForm, prBase, prTitle, prResult,
          prTasks, creating, retargeted, moved, moves, pushes>>
prText == <<prTitle, prResult>>
bounds == <<moves, pushes>>

Awaits == {"push", "status", "base", "text"}

TypeOK ==
  /\ formDir \in Dir /\ {prBase, prResult} \subseteq Dir \cup {NoDir}
  /\ {isPushing, isCreatingPr, isGeneratingPr, showPrForm, prTitle, retargeted, moved} \subseteq BOOLEAN
  /\ prTasks \subseteq [dir : Dir, awaits : Awaits] /\ {moves, pushes} \subseteq 0..MaxMoves
  /\ creating \subseteq [dir : Dir, base : Dir \cup {NoDir}, chosen : BOOLEAN]

Init ==
  /\ formDir \in Dir /\ moves = 0 /\ pushes = 0
  /\ isPushing = FALSE /\ isCreatingPr = FALSE /\ isGeneratingPr = FALSE /\ showPrForm = FALSE /\ prTitle = FALSE
  /\ prBase = NoDir /\ prResult = NoDir /\ prTasks = {} /\ creating = {} /\ retargeted = FALSE /\ moved = FALSE

-----------------------------------------------------------------------------
(* The panel follows the focused pane. A directory with a cached snapshot     *)
(* keeps the form, another one makes the panel show no repository first.      *)
MoveToKnown(d) ==
  /\ d # formDir /\ formDir' = d /\ moved' = TRUE
  /\ moves < MaxMoves /\ moves' = moves + 1
  /\ UNCHANGED <<isPushing, isCreatingPr, isGeneratingPr, showPrForm, prBase, prText, prTasks, creating,
                 retargeted, pushes>>

MoveToUnknown(d) ==
  /\ d # formDir /\ formDir' = d
  /\ moves < MaxMoves /\ moves' = moves + 1
  /\ isPushing' = FALSE /\ isCreatingPr' = FALSE /\ isGeneratingPr' = FALSE /\ showPrForm' = FALSE /\ prTitle' = FALSE
  /\ prBase' = NoDir /\ prResult' = NoDir /\ prTasks' = {} /\ creating' = {} /\ retargeted' = FALSE
  /\ moved' = FALSE /\ UNCHANGED pushes

-----------------------------------------------------------------------------
Then(x, awaits) == prTasks' = (prTasks \ {x}) \cup {[dir |-> x.dir, awaits |-> awaits]}

HandlePush ==
  /\ ~isPushing /\ isPushing' = TRUE /\ pushes < MaxMoves /\ pushes' = pushes + 1
  /\ prTasks' = prTasks \cup {[dir |-> formDir, awaits |-> "push"]}
  /\ UNCHANGED <<formDir, isCreatingPr, isGeneratingPr, showPrForm, prBase, prText, creating, retargeted,
                 moved, moves>>

(* On another branch than main and master: is there a request already?        *)
Pushed(x) ==
  /\ x \in prTasks /\ x.awaits = "push" /\ Then(x, "status")
  /\ UNCHANGED <<formDir, isPushing, isCreatingPr, isGeneratingPr, showPrForm, prBase, prText, creating,
                 retargeted, moved, bounds>>

OffersAtOnce == showPrForm' = TRUE
(* No request yet: the default branch is asked for, and the form waits for it.*)
OffersLater == UNCHANGED showPrForm

NoRequestYet(x) ==
  /\ x \in prTasks /\ x.awaits = "status" /\ Then(x, "base") /\ OffersLater
  /\ UNCHANGED <<formDir, isPushing, isCreatingPr, isGeneratingPr, prBase, prText, creating, retargeted,
                 moved, bounds>>

OfferRequest(x) ==
  /\ x \in prTasks /\ x.awaits = "base" /\ prTasks' = prTasks \ {x}
  /\ prBase' = x.dir /\ retargeted' = FALSE /\ showPrForm' = TRUE /\ isPushing' = FALSE
  /\ UNCHANGED <<formDir, isCreatingPr, isGeneratingPr, prText, creating, moved, bounds>>

(* handlePush ends otherwise: an error, a main branch, no gh, or a request    *)
(* that exists and is linked to.                                              *)
PushEnds(x) ==
  /\ x \in prTasks /\ x.awaits # "text" /\ prTasks' = prTasks \ {x} /\ isPushing' = FALSE
  /\ prResult' \in {prResult} \cup (IF x.awaits = "status" THEN {x.dir} ELSE {})
  /\ UNCHANGED <<formDir, isCreatingPr, isGeneratingPr, showPrForm, prBase, prTitle, creating, retargeted,
                 moved, bounds>>

-----------------------------------------------------------------------------
EditForm ==
  /\ showPrForm
  /\ \/ prTitle' = ~prTitle /\ UNCHANGED <<prBase, retargeted, showPrForm>>
     \/ retargeted' = TRUE /\ prBase' = NoDir /\ UNCHANGED <<prTitle, showPrForm>>
     \/ showPrForm' = FALSE /\ UNCHANGED <<prBase, prTitle, retargeted>>
  /\ UNCHANGED <<formDir, isPushing, isCreatingPr, isGeneratingPr, prResult, prTasks, creating, moved, bounds>>

DismissResult ==
  /\ prResult # NoDir /\ prResult' = NoDir
  /\ UNCHANGED <<formDir, isPushing, isCreatingPr, isGeneratingPr, showPrForm, prBase, prTitle, prTasks,
                 creating, retargeted, moved, bounds>>

HandleCreatePr ==
  /\ showPrForm /\ prTitle /\ ~isCreatingPr /\ isCreatingPr' = TRUE
  /\ creating' = creating \cup {[dir |-> formDir, base |-> prBase, chosen |-> retargeted]}
  /\ UNCHANGED <<formDir, isPushing, isGeneratingPr, showPrForm, prBase, prText, prTasks, retargeted, moved,
                 bounds>>

Created(x) ==
  /\ x \in creating /\ creating' = creating \ {x} /\ isCreatingPr' = FALSE
  /\ \/ prResult' = x.dir /\ showPrForm' = FALSE /\ prTitle' = FALSE
     \/ UNCHANGED <<prResult, showPrForm, prTitle>>
  /\ UNCHANGED <<formDir, isPushing, isGeneratingPr, prBase, prTasks, retargeted, moved, bounds>>

HandleGeneratePrContent ==
  /\ showPrForm /\ ~isGeneratingPr /\ isGeneratingPr' = TRUE
  /\ prTasks' = prTasks \cup {[dir |-> formDir, awaits |-> "text"]}
  /\ UNCHANGED <<formDir, isPushing, isCreatingPr, showPrForm, prBase, prText, creating, retargeted, moved,
                 bounds>>

Generated(x) ==
  /\ x \in prTasks /\ x.awaits = "text" /\ prTasks' = prTasks \ {x} /\ isGeneratingPr' = FALSE
  /\ prTitle' \in {prTitle, TRUE}
  /\ UNCHANGED <<formDir, isPushing, isCreatingPr, showPrForm, prBase, prResult, creating, retargeted, moved,
                 bounds>>

Next ==
  \/ HandlePush \/ EditForm \/ DismissResult \/ HandleCreatePr \/ HandleGeneratePrContent
  \/ \E d \in Dir : MoveToKnown(d) \/ MoveToUnknown(d)
  \/ \E x \in prTasks : Pushed(x) \/ NoRequestYet(x) \/ OfferRequest(x) \/ PushEnds(x) \/ Generated(x)
  \/ \E x \in creating : Created(x)

Spec == Init /\ [][Next]_vars

-----------------------------------------------------------------------------
(* A request goes to the repository that was pushed, onto its own default     *)
(* branch; unless the user named a branch, or the panel moved under the form. *)
OntoItsDefaultBranch ==
  ~moved => \A x \in creating : x.chosen \/ x.base = x.dir
=============================================================================
