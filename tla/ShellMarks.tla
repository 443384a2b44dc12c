----------------------------- MODULE ShellMarks -----------------------------
(***************************************************************************)
(* Commands of one pane, as the webview follows them: Enter, the OSC 133   *)
(* marks of the shell (TerminalPane/useTerminalSetup.ts,                   *)
(* lib/commandTracker.ts), the errors shown for them                       *)
(* (stores/commandErrorStore.ts) and the history (stores/historyStore.ts,  *)
(* lib/terminalRegistry.ts).  Commands are numbered as they run; a line    *)
(* typed to a running program is not a command.                            *)
(***************************************************************************)
EXTENDS Naturals, FiniteSets

CONSTANTS MaxCommands, Stdin, None

Command == 1..MaxCommands
Line == Command \cup {Stdin, None}

VARIABLES
  shell,       \* which marks it sends: posix A B C D, powershell A B C, cmd A B
  at,          \* what the shell does
  cmd, failed, \* the command that runs or ran last; those that failed
  complaint,   \* the last 50 lines hold an error the fallback recognises
  mounted,     \* the pane's component is mounted: the marks are followed
  lastEntered, forError, pending, \* lastEnteredCmdRef, lastCmdForErrorRef, pendingCommandText
  running, executing, \* commandStates.isRunning, isExecutingRef
  integrated,  \* shellIntegrationActive
  error,       \* errors[ptyId]
  entries,     \* the history
  astray,      \* history: a running program's input was taken for a command
  untracked    \* history: commands that ran, or were entered, while the tracker was cleared

svars == <<shell, at, cmd, failed, complaint>>
refs == <<lastEntered, forError, executing>>
vars == <<svars, mounted, refs, pending, running, integrated, error, entries, astray, untracked>>

TypeOK ==
  /\ shell \in {"posix", "powershell", "cmd"}
  /\ at \in {"starting", "prompt", "entered", "running", "ended"}
  /\ cmd \in 0..MaxCommands /\ failed \subseteq Command
  /\ {lastEntered, forError, pending, error} \subseteq Line
  /\ {complaint, mounted, running, executing, integrated, astray} \subseteq BOOLEAN
  /\ entries \subseteq Line /\ untracked \subseteq Line

Init ==
  /\ shell \in {"posix", "powershell", "cmd"} /\ at = "starting"
  /\ cmd = 0 /\ failed = {} /\ complaint = FALSE /\ mounted = TRUE
  /\ lastEntered = None /\ forError = None /\ pending = None
  /\ running = FALSE /\ executing = FALSE /\ integrated = FALSE
  /\ error = None /\ entries = {} /\ astray = FALSE /\ untracked = {}

-----------------------------------------------------------------------------
(* lib/commandTracker.ts                                                     *)

EndKeepsText(ok) ==
  /\ running' = FALSE
  /\ IF pending # None /\ ok THEN entries' = entries \cup {pending} /\ pending' = None
                             ELSE UNCHANGED <<entries, pending>>
  /\ error' = IF pending # None /\ ~ok THEN pending ELSE error

(* onCommandEnd: a failure is shown and not remembered.                       *)
End(ok) ==
  /\ running' = FALSE /\ pending' = None
  /\ entries' = IF pending # None /\ ok THEN entries \cup {pending} ELSE entries
  /\ error' = IF pending # None /\ ~ok THEN pending ELSE error

EndIfRunning(ok) ==
  IF running THEN End(ok) ELSE UNCHANGED <<running, pending, entries, error>>

-----------------------------------------------------------------------------
(* The key handler's fallback for a shell whose marks it knows nothing of,    *)
(* then onData: the line is read off the screen.                              *)
Enter ==
  /\ at = "prompt" /\ mounted /\ cmd < MaxCommands
  /\ at' = "entered" /\ cmd' = cmd + 1
  /\ lastEntered' = IF executing THEN lastEntered ELSE cmd'
  /\ entries' = IF integrated THEN entries ELSE entries \cup {cmd'}
  /\ untracked' = IF integrated THEN untracked ELSE untracked \cup {cmd'}
  /\ UNCHANGED <<shell, failed, complaint, mounted, forError, pending, running, executing,
                 integrated, error, astray>>

(* An empty line; PowerShell's Enter handler marks it as a command too.       *)
EnterNothing ==
  /\ at = "prompt" /\ mounted /\ shell = "powershell" /\ executing = FALSE
  /\ IF lastEntered # None
       THEN /\ forError' = lastEntered /\ lastEntered' = None
            /\ pending' = IF pending = None THEN lastEntered ELSE pending
       ELSE UNCHANGED <<lastEntered, forError, pending>>
  /\ running' = TRUE /\ executing' = TRUE /\ error' = None /\ at' = "ended"
  /\ UNCHANGED <<shell, cmd, failed, complaint, mounted, integrated, entries, astray, untracked>>

(* A line for the running program, seen by onData only after a remount.       *)
EnterForProgram ==
  /\ at = "running" /\ mounted /\ ~executing
  /\ lastEntered' = Stdin /\ astray' = TRUE
  /\ UNCHANGED <<svars, mounted, forError, executing, pending, running, integrated, error, entries,
                 untracked>>

(* OSC 133;C.                                                                 *)
CommandStarts ==
  /\ at = "entered" /\ at' = "running"
  /\ IF shell = "cmd" \/ ~mounted THEN UNCHANGED <<refs, pending, running, error>>
     ELSE /\ lastEntered' = None
          /\ forError' = IF lastEntered = None THEN forError ELSE lastEntered
          /\ pending' = IF pending = None THEN lastEntered ELSE pending
          /\ running' = TRUE /\ executing' = TRUE /\ error' = None
  /\ UNCHANGED <<shell, cmd, failed, complaint, mounted, integrated, entries, astray, untracked>>

(* It prints much or little, and perhaps an error; posix shells then send D.  *)
CommandEnds(ok, prints) ==
  /\ at = "running" /\ at' = "ended"
  /\ failed' = IF ok THEN failed ELSE failed \cup {cmd}
  /\ complaint' = CASE prints = "complaint" -> TRUE
                    [] prints = "screenful" -> FALSE
                    [] OTHER -> complaint
  /\ prints = "complaint" => ~ok
  /\ IF shell = "posix" /\ mounted THEN EndIfRunning(ok) /\ executing' = FALSE
                                   ELSE UNCHANGED <<running, pending, entries, error, executing>>
  /\ UNCHANGED <<shell, cmd, mounted, lastEntered, forError, integrated, astray, untracked>>

(* OSC 133;A: the fallback looks for errors in the last lines, then           *)
(* onPromptStart ends a command that still runs; B follows.                   *)
PromptStarts ==
  /\ at \in {"starting", "ended"} /\ at' = "prompt"
  /\ IF mounted
       THEN /\ LET detects == forError # None /\ error = None /\ complaint IN
                 IF detects /\ running THEN End(FALSE)
                 ELSE IF detects THEN /\ entries' = entries \ {forError} /\ error' = forError
                                      /\ UNCHANGED <<running, pending>>
                 ELSE EndIfRunning(TRUE)
            /\ forError' = None /\ executing' = FALSE /\ integrated' = TRUE
       ELSE UNCHANGED <<entries, error, running, pending, forError, executing, integrated>>
  /\ UNCHANGED <<shell, cmd, failed, complaint, mounted, lastEntered, astray, untracked>>

-----------------------------------------------------------------------------
(* removeCommandState: all but the text of the command that runs.             *)
RemoveCommandState ==
  /\ running' = FALSE /\ integrated' = FALSE /\ error' = None
  /\ untracked' = untracked \cup ({pending} \ {None})

(* The cleanup of the effect: until it is mounted again nobody reads the      *)
(* marks that the terminal parses.                                            *)
Unmount ==
  /\ mounted /\ mounted' = FALSE /\ RemoveCommandState
  /\ UNCHANGED <<svars, refs, pending, entries, astray>>

(* A new component, with new refs.                                            *)
Mount ==
  /\ ~mounted /\ mounted' = TRUE
  /\ lastEntered' = None /\ forError' = None /\ executing' = FALSE
  /\ UNCHANGED <<svars, pending, running, integrated, error, entries, astray, untracked>>

(* The effect runs anew in place, a dependency of it having changed.          *)
Rerun ==
  /\ mounted /\ RemoveCommandState
  /\ UNCHANGED <<svars, mounted, refs, pending, entries, astray>>

Dismiss ==
  /\ error # None /\ error' = None
  /\ UNCHANGED <<svars, mounted, refs, pending, running, integrated, entries, astray, untracked>>

Next ==
  \/ Enter \/ EnterNothing \/ EnterForProgram
  \/ CommandStarts
  \/ \E ok \in BOOLEAN, p \in {"little", "screenful", "complaint"} : CommandEnds(ok, p)
  \/ PromptStarts \/ Unmount \/ Mount \/ Rerun \/ Dismiss

Spec == Init /\ [][Next]_vars

-----------------------------------------------------------------------------
(* commandTracker.ts 48: "If exit code is non-zero, store error and skip      *)
(* history".  Whatever marks, mounts and reruns come between, a shell that    *)
(* reports exit codes leaves in the history no failed command and no line     *)
(* that was not a command, and the error shown is never of a command that     *)
(* succeeded unless an error of another one is still on the screen.  Excepted *)
(* are the commands that the cleared tracker lost: the one that ran then, and *)
(* those entered before the next prompt's mark.                               *)
HistoryHoldsSuccesses ==
  shell = "posix" /\ ~astray =>
    /\ entries \cap failed \subseteq untracked /\ Stdin \notin entries
    /\ error \in Command /\ ~complaint => error \in failed \cup untracked
=============================================================================
