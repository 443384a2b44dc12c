------------------------------- MODULE AiHelp -------------------------------
(***************************************************************************)
(* A pane's failed command explained by an AI (src/components/Terminal/    *)
(* ErrorAiPopup.tsx), and the record of the AI's tasks that is kept on     *)
(* disk (src/stores/aiHistoryStore.ts). The popup stops what it started    *)
(* when it goes; a task is recorded when it begins and when it ends.       *)
(***************************************************************************)
EXTENDS Naturals, Sequences, FiniteSets, SequencesExt

CONSTANTS MaxFailures,   \* bound: commands that fail
          MaxTasks,      \* bound: tasks of the AI
          MAX_ENTRIES    \* entries kept

VARIABLES
  commandError,    \* errors: the pane's last failure, 0 for none
  failures,        \* failures so far
  showErrorPopup,  \* the icon was clicked
  popup,           \* the popup's task, 0 without a popup
  explains,        \* the failure the popup explains
  tasks,           \* tasks under way: waiting for a listener, or running
  killed,          \* running tasks that were told to stop
  taskCount,
  aiEntries,       \* entries, newest first
  expanded,        \* entries shown open
  leftEarly,       \* the popup went while its task waited for the listener
  reloaded         \* the window was loaded anew while tasks ran

vars == <<commandError, failures, showErrorPopup, popup, explains, tasks, killed, taskCount, aiEntries,
          expanded, leftEarly, reloaded>>
paneVars == <<commandError, failures, showErrorPopup>>
taskVars == <<tasks, killed, taskCount>>

Task == 1..MaxTasks
Status == {"running", "success", "error"}

TypeOK ==
  /\ commandError \in 0..MaxFailures /\ failures \in 0..MaxFailures /\ {showErrorPopup, reloaded} \subseteq BOOLEAN
  /\ popup \in 0..MaxTasks /\ explains \in 0..MaxFailures
  /\ tasks \subseteq [id : Task, at : {"listen", "run"}, help : BOOLEAN] /\ {killed, expanded, leftEarly} \subseteq SUBSET Task
  /\ taskCount \in 0..MaxTasks
  /\ aiEntries \in Seq([id : Task, status : Status]) /\ Len(aiEntries) <= MAX_ENTRIES

Init ==
  /\ commandError = 0 /\ failures = 0 /\ showErrorPopup = FALSE /\ popup = 0 /\ explains = 0
  /\ tasks = {} /\ killed = {} /\ taskCount = 0 /\ aiEntries = <<>> /\ expanded = {}
  /\ leftEarly = {} /\ reloaded = FALSE

EntryIds == {aiEntries[i].id : i \in DOMAIN aiEntries}

AddUncapped(id) == aiEntries' = <<[id |-> id, status |-> "running"]>> \o aiEntries

Add(id) == LET all == <<[id |-> id, status |-> "running"]>> \o aiEntries
           IN aiEntries' = SubSeq(all, 1, IF Len(all) < MAX_ENTRIES THEN Len(all) ELSE MAX_ENTRIES)

Update(id, s) == aiEntries' = [i \in DOMAIN aiEntries |-> IF aiEntries[i].id = id THEN [aiEntries[i] EXCEPT !.status = s]
                                                          ELSE aiEntries[i]]

-----------------------------------------------------------------------------
ForgetPopup ==
  /\ UNCHANGED killed
  /\ leftEarly' = leftEarly \cup {t.id : t \in {x \in tasks : x.id = popup /\ x.at = "listen"}}
(* Unmounting: a process that does not run yet cannot be killed.              *)
KillPopup ==
  /\ killed' = killed \cup {t.id : t \in {x \in tasks : x.id = popup /\ x.at = "run"}}
  /\ leftEarly' = leftEarly \cup {t.id : t \in {x \in tasks : x.id = popup /\ x.at = "listen"}}
Unmount == popup' = 0 /\ explains' = 0 /\ KillPopup
NoUnmount == UNCHANGED <<popup, explains, killed, leftEarly>>

(* onCommandStart clears the error, and the popup with it but not its flag.   *)
CommandStarts ==
  /\ commandError # 0 /\ commandError' = 0
  /\ IF popup # 0 THEN Unmount ELSE NoUnmount
  /\ UNCHANGED <<failures, showErrorPopup, tasks, taskCount, aiEntries, expanded, reloaded>>

CommandFails ==
  /\ failures < MaxFailures /\ failures' = failures + 1 /\ commandError' = failures + 1
  /\ UNCHANGED <<showErrorPopup, popup, explains, taskVars, aiEntries, expanded, leftEarly, reloaded>>

ClickIcon ==
  /\ commandError # 0 /\ showErrorPopup' = TRUE
  /\ UNCHANGED <<commandError, failures, popup, explains, taskVars, aiEntries, expanded, leftEarly, reloaded>>

(* The popup is there with the flag and the error, and asks when it appears.  *)
FetchAiHelp ==
  /\ showErrorPopup /\ commandError # 0 /\ popup = 0
  /\ taskCount < MaxTasks /\ taskCount' = taskCount + 1 /\ popup' = taskCount + 1 /\ explains' = commandError
  /\ tasks' = tasks \cup {[id |-> taskCount + 1, at |-> "listen", help |-> TRUE]} /\ Add(taskCount + 1)
  /\ UNCHANGED <<paneVars, killed, expanded, leftEarly, reloaded>>

(* onClose: Escape, a click elsewhere, the cross.                             *)
ClosePopup ==
  /\ popup # 0 /\ showErrorPopup' = FALSE /\ Unmount
  /\ UNCHANGED <<commandError, failures, tasks, taskCount, aiEntries, expanded, reloaded>>

Listening(t) ==
  /\ t \in tasks /\ t.at = "listen" /\ tasks' = (tasks \ {t}) \cup {[t EXCEPT !.at = "run"]}
  /\ UNCHANGED <<paneVars, popup, explains, killed, taskCount, aiEntries, expanded, leftEarly, reloaded>>

SettleNothing(id) == UNCHANGED aiEntries
Settle(id) == \E s \in {"success", "error"} : (id \in killed => s = "error") /\ Update(id, s)

(* The process ends, whoever is left to see it.                               *)
TaskEnds(t) ==
  /\ t \in tasks /\ t.at = "run" /\ tasks' = tasks \ {t} /\ killed' = killed \ {t.id} /\ Settle(t.id)
  /\ UNCHANGED <<paneVars, popup, explains, taskCount, expanded, leftEarly, reloaded>>

(* A commit message or an automatic commit: recorded the same way.            *)
CommitTask ==
  /\ taskCount < MaxTasks /\ taskCount' = taskCount + 1
  /\ tasks' = tasks \cup {[id |-> taskCount + 1, at |-> "run", help |-> FALSE]} /\ Add(taskCount + 1)
  /\ UNCHANGED <<paneVars, popup, explains, killed, expanded, leftEarly, reloaded>>

-----------------------------------------------------------------------------
(* An entry's id is its own: the one that is removed is the only one with it. *)
RemoveEntry(i) ==
  /\ aiEntries' = RemoveAt(aiEntries, i) /\ expanded' = expanded \ {aiEntries[i].id}
  /\ UNCHANGED <<paneVars, popup, explains, taskVars, leftEarly, reloaded>>

ClearEntries ==
  /\ aiEntries # <<>> /\ aiEntries' = <<>> /\ expanded' = {}
  /\ UNCHANGED <<paneVars, popup, explains, taskVars, leftEarly, reloaded>>

ToggleEntry(id) ==
  /\ id \in EntryIds /\ expanded' = IF id \in expanded THEN expanded \ {id} ELSE expanded \cup {id}
  /\ UNCHANGED <<paneVars, popup, explains, taskVars, aiEntries, leftEarly, reloaded>>

(* The window is loaded anew, or the program started again: the entries are   *)
(* as they were on disk, and nobody waits for the processes any more.         *)
Reload ==
  /\ ~reloaded /\ reloaded' = TRUE
  /\ commandError' = 0 /\ showErrorPopup' = FALSE /\ popup' = 0 /\ explains' = 0
  /\ tasks' = {} /\ killed' = {} /\ expanded' = {} /\ leftEarly' = {}
  /\ UNCHANGED <<failures, taskCount, aiEntries>>

Next ==
  \/ CommandStarts \/ CommandFails \/ ClickIcon \/ FetchAiHelp \/ ClosePopup \/ CommitTask \/ ClearEntries \/ Reload
  \/ \E t \in tasks : Listening(t) \/ TaskEnds(t)
  \/ \E i \in DOMAIN aiEntries : RemoveEntry(i)
  \/ \E id \in EntryIds : ToggleEntry(id)

Spec == Init /\ [][Next]_vars

-----------------------------------------------------------------------------
(* An entry turns its wheel only while its task is under way, and a process   *)
(* whose popup is gone was stopped, unless the popup went before it ran; the  *)
(* first until the window is loaded anew.                                     *)
TasksAreSettled ==
  /\ ~reloaded => \A i \in DOMAIN aiEntries :
                    aiEntries[i].status = "running" => \E t \in tasks : t.id = aiEntries[i].id
  /\ \A t \in tasks : t.help /\ t.at = "run" => t.id \in {popup} \cup killed \cup leftEarly
=============================================================================
