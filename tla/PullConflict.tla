---------------------------- MODULE PullConflict ----------------------------
(***************************************************************************)
(* A pull refused because local changes would be overwritten               *)
(* (src/components/Sidebar/GitPanel/CommitForm.tsx) and the dialog that    *)
(* lists the files in the way (src/components/Modals/                      *)
(* PullConflictDialog.tsx). Every handler keeps the repository and the     *)
(* files of the dialog it was started from; the dialog may be closed, or   *)
(* opened for another repository, before it is through. What Git answers   *)
(* is any of the answers it can give.                                      *)
(***************************************************************************)
EXTENDS Naturals, FiniteSets

CONSTANTS Repo, NoRepo,
          PullFile,      \* names of files in the way; repositories share them
          MaxConflicts   \* bound: dialogs opened

VARIABLES
  formPulls,     \* repositories the form pulls
  pullError,     \* the form shows an error
  conflict,      \* pullConflictCwd and pullConflictFiles, with the dialog's number
  resolved,      \* resolved: names of files dealt with
  processing,    \* processing: the action whose spinner turns
  fixing,        \* discards and ignores under way
  retries,       \* retries a timer of zero is about to start, with their dialog
  pullActions,   \* pulls under way that the dialog started
  conflicts,     \* dialogs opened
  retried,       \* dialogs a retry was started from
  crossed        \* an answer met another dialog than the one it belongs to

vars == <<formPulls, pullError, conflict, resolved, processing, fixing, retries, pullActions,
          conflicts, retried, crossed>>
formVars == <<formPulls, pullError>>

Action == {"merge", "rebase", "retry"}
Dialog == [repo : Repo, files : (SUBSET PullFile) \ {{}}, n : 1..MaxConflicts]
Closed == [repo |-> NoRepo, files |-> {}, n |-> 0]
IsOpen == conflict # Closed

TypeOK ==
  /\ formPulls \subseteq Repo /\ {pullError, crossed} \subseteq BOOLEAN
  /\ conflict \in Dialog \cup {Closed} /\ resolved \subseteq PullFile
  /\ processing \in Action \cup {""} /\ conflicts \in 0..MaxConflicts /\ retried \subseteq 1..MaxConflicts
  /\ fixing \subseteq [at : Dialog, file : PullFile] /\ retries \subseteq Dialog
  /\ pullActions \subseteq [at : Dialog, action : Action]

Init ==
  /\ formPulls = {} /\ pullError = FALSE /\ conflict = Closed /\ resolved = {} /\ processing = ""
  /\ fixing = {} /\ retries = {} /\ pullActions = {} /\ conflicts = 0 /\ retried = {} /\ crossed = FALSE

-----------------------------------------------------------------------------
(* The form. One form runs one pull at a time, but it is made anew when the   *)
(* panel shows a directory it knows nothing of yet.                           *)
HandlePull(r) ==
  /\ ~IsOpen /\ r \notin formPulls /\ formPulls' = formPulls \cup {r} /\ pullError' = FALSE
  /\ UNCHANGED <<conflict, resolved, processing, fixing, retries, pullActions, conflicts, retried, crossed>>

(* setPullConflict: the dialog's own state stays what it was.                 *)
PullRefused(r, files) ==
  /\ r \in formPulls /\ formPulls' = formPulls \ {r}
  /\ conflicts < MaxConflicts /\ conflicts' = conflicts + 1
  /\ conflict' = [repo |-> r, files |-> files, n |-> conflicts + 1]
  /\ crossed' = (crossed \/ resolved # {})
  /\ UNCHANGED <<pullError, resolved, processing, fixing, retries, pullActions, retried>>

PullEnds(r) ==
  /\ r \in formPulls /\ formPulls' = formPulls \ {r} /\ pullError' \in {pullError, TRUE}
  /\ UNCHANGED <<conflict, resolved, processing, fixing, retries, pullActions, conflicts, retried, crossed>>

-----------------------------------------------------------------------------
(* handleDiscard and handleIgnore: a row's buttons work during another action.*)
Fix(f) ==
  /\ IsOpen /\ f \in conflict.files \ resolved
  /\ fixing' = fixing \cup {[at |-> conflict, file |-> f]}
  /\ UNCHANGED <<formVars, conflict, resolved, processing, retries, pullActions, conflicts, retried, crossed>>

AllResolvedBefore(x, before) == x.at.files \subseteq before
(* resolveFile, in the files of the dialog the handler was started from.      *)
AllResolvedBy(x, before) == x.at.files \subseteq before \cup {x.file}

Fixed(x) ==
  /\ x \in fixing /\ fixing' = fixing \ {x}
  /\ resolved' = resolved \cup {x.file}
  /\ retries' = IF AllResolvedBy(x, resolved) THEN retries \cup {x.at} ELSE retries
  /\ crossed' = (crossed \/ x.at # conflict)
  /\ UNCHANGED <<formVars, conflict, processing, pullActions, conflicts, retried>>

FixFails(x) ==
  /\ x \in fixing /\ fixing' = fixing \ {x}
  /\ UNCHANGED <<formVars, conflict, resolved, processing, retries, pullActions, conflicts, retried, crossed>>

-----------------------------------------------------------------------------
(* handleAction.                                                              *)
Begin(d, action) ==
  /\ processing' = action /\ pullActions' = pullActions \cup {[at |-> d, action |-> action]}
  /\ retried' = IF action = "retry" THEN retried \cup {d.n} ELSE retried

(* Its buttons: the strategies until every file is resolved, then the retry.  *)
HandleAction(action) ==
  /\ IsOpen /\ processing = ""
  /\ (action = "retry") <=> conflict.files \subseteq resolved
  /\ Begin(conflict, action)
  /\ UNCHANGED <<formVars, conflict, resolved, fixing, retries, conflicts, crossed>>

AutoRetry(d) ==
  /\ d \in retries /\ retries' = retries \ {d}
  /\ Begin(d, "retry")
  /\ UNCHANGED <<formVars, conflict, resolved, fixing, conflicts, crossed>>

ActionDone(a) ==
  /\ a \in pullActions /\ pullActions' = pullActions \ {a}
  /\ conflict' = Closed /\ resolved' = {} /\ processing' = ""
  /\ UNCHANGED <<formVars, fixing, retries, conflicts, retried, crossed>>

ActionFails(a) ==
  /\ a \in pullActions /\ pullActions' = pullActions \ {a} /\ processing' = ""
  /\ UNCHANGED <<formVars, conflict, resolved, fixing, retries, conflicts, retried, crossed>>

(* close: Escape, the backdrop, the cross, Cancel.                            *)
Close ==
  /\ IsOpen /\ conflict' = Closed /\ resolved' = {} /\ processing' = ""
  /\ UNCHANGED <<formVars, fixing, retries, pullActions, conflicts, retried, crossed>>

Next ==
  \/ Close
  \/ \E r \in Repo : HandlePull(r) \/ PullEnds(r)
  \/ \E r \in Repo, files \in (SUBSET PullFile) \ {{}} : PullRefused(r, files)
  \/ \E f \in PullFile : Fix(f)
  \/ \E x \in fixing : Fixed(x) \/ FixFails(x)
  \/ \E action \in Action : HandleAction(action)
  \/ \E d \in retries : AutoRetry(d)
  \/ \E a \in pullActions : ActionDone(a) \/ ActionFails(a)

Spec == Init /\ [][Next]_vars

-----------------------------------------------------------------------------
(* A dialog whose files are all dealt with has started the pull again, or is  *)
(* about to; unless an answer reached another dialog than its own.            *)
AllResolvedIsRetried ==
  IsOpen /\ conflict.files \subseteq resolved /\ ~crossed =>
    conflict \in retries \/ conflict.n \in retried
=============================================================================
