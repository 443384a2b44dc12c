----------------------------- MODULE GitOutput -----------------------------
(***************************************************************************)
(* The one output view of Git and AI commands (src/stores/gitOutputStore.ts*)
(* and lib/gitStream.ts), and the runs that write into it: a commit, a     *)
(* worktree action or a push of a new remote ("git"), a generated message  *)
(* ("message") and the automatic commit ("auto"). A run opens the view and *)
(* then goes through its commands, whoever has opened the view since.      *)
(***************************************************************************)
EXTENDS Naturals, Sequences

CONSTANTS MaxRuns,     \* bound: runs started
          MaxCommands  \* bound: Git commands of a run

Run == 1..MaxRuns
Nobody == 0
Kinds == {"git", "message", "auto"}

VARIABLES
  isOpen, mode, status,
  onClose,        \* the run whose callback the view holds
  channel,        \* currentChannelId: the run whose command it is
  runs,           \* the runs: kind, phase, commands begun
  isGenerating, isAutoCommitting

view == <<isOpen, mode, status, onClose, channel>>
vars == <<view, runs, isGenerating, isAutoCommitting>>

(* A run has opened the view ("opened"), listens for a command's output       *)
(* ("listens"), has it running ("runs"), or is over. The AI command is        *)
(* command 0 of the runs that have one.                                       *)
Phases == {"opened", "listens", "runs", "over"}

TypeOK ==
  /\ {isOpen, isGenerating, isAutoCommitting} \subseteq BOOLEAN
  /\ mode \in {"terminal", "ai-commit"}
  /\ status \in {"running", "success", "error", "cancelled", "idle"}
  /\ onClose \in Run \cup {Nobody} /\ channel \in Run \cup {Nobody}
  /\ runs \in Seq([kind : Kinds, phase : Phases, command : 0..MaxCommands])
  /\ Len(runs) <= MaxRuns

Alive(i) == runs[i].phase # "over"
Done == status \in {"success", "error", "cancelled"}
UsesAi(i) == runs[i].kind # "git"

Init ==
  /\ isOpen = FALSE /\ mode = "terminal" /\ status = "idle" /\ onClose = Nobody /\ channel = Nobody
  /\ runs = <<>> /\ isGenerating = FALSE /\ isAutoCommitting = FALSE

-----------------------------------------------------------------------------
(* open: the view forgets the run it showed.                                  *)
Open(kind) ==
  /\ Len(runs) < MaxRuns
  /\ runs' = Append(runs, [kind |-> kind, phase |-> "opened",
                           command |-> IF kind = "git" THEN 1 ELSE 0])
  /\ isOpen' = TRUE /\ status' = "running" /\ channel' = Nobody
  /\ mode' = IF kind = "git" THEN "terminal" ELSE "ai-commit"
  /\ onClose' = Len(runs) + 1

(* The modal view covers the buttons; the focus stays in the message's field, *)
(* where Enter commits again. The AI view covers the panel at most.           *)
Commit == Open("git") /\ UNCHANGED <<isGenerating, isAutoCommitting>>

GenerateMessage ==
  /\ ~isGenerating /\ ~(isOpen /\ mode = "terminal")
  /\ Open("message") /\ isGenerating' = TRUE /\ UNCHANGED isAutoCommitting

AutoCommit ==
  /\ ~isGenerating /\ ~isAutoCommitting /\ ~(isOpen /\ mode = "terminal")
  /\ Open("auto") /\ isAutoCommitting' = TRUE /\ UNCHANGED isGenerating

(* runOne, runClaudeStreaming: the channel is noted, then its events are      *)
(* listened to, then the command is run.                                      *)
Begins(i) ==
  /\ runs[i].phase = "opened"
  /\ runs' = [runs EXCEPT ![i].phase = "listens"]
  /\ channel' = i
  /\ UNCHANGED <<isOpen, mode, status, onClose, isGenerating, isAutoCommitting>>

Spawns(i) ==
  /\ runs[i].phase = "listens"
  /\ runs' = [runs EXCEPT ![i].phase = "runs"]
  /\ UNCHANGED <<view, isGenerating, isAutoCommitting>>

(* The finally blocks of the AI runs clear their flag, of a later run too.    *)
FlagsAfter(i) ==
  /\ isGenerating' = (isGenerating /\ runs[i].kind # "message")
  /\ isAutoCommitting' = (isAutoCommitting /\ runs[i].kind # "auto")

EndsQuietly(i, result) ==
  /\ runs' = [runs EXCEPT ![i].phase = "over"]
  /\ status' = IF UsesAi(i) /\ runs[i].command = 0 /\ result = "error" THEN status ELSE result
  /\ channel' = Nobody /\ FlagsAfter(i)
  /\ UNCHANGED <<isOpen, mode, onClose>>
Ends(i, result) ==
  /\ runs' = [runs EXCEPT ![i].phase = "over"]
  /\ status' = result
  /\ channel' = Nobody /\ FlagsAfter(i)
  /\ UNCHANGED <<isOpen, mode, onClose>>

(* The AI's "result" line, before its command ends.                           *)
AiAnswers(i) ==
  /\ UsesAi(i) /\ runs[i].phase = "runs" /\ runs[i].command = 0
  /\ status' = "success"
  /\ UNCHANGED <<isOpen, mode, onClose, channel, runs, isGenerating, isAutoCommitting>>

(* The AI command ends: with a message that has the form of one, or not; with *)
(* a plan of commits, whose Git commands follow, or not.                      *)
AiEnds(i) ==
  /\ UsesAi(i) /\ runs[i].phase = "runs" /\ runs[i].command = 0
  /\ \/ Ends(i, "error")
     \/ runs[i].kind = "message" /\ Ends(i, "success")
     \/ /\ runs[i].kind = "auto"
        /\ runs' = [runs EXCEPT ![i].phase = "opened", ![i].command = 1]
        /\ status' = "running" /\ channel' = Nobody
        /\ UNCHANGED <<isOpen, mode, onClose, isGenerating, isAutoCommitting>>

(* A Git command ends; the first that fails is the last.                      *)
CommandEnds(i) ==
  /\ runs[i].phase = "runs" /\ runs[i].command > 0
  /\ \/ Ends(i, "error")
     \/ Ends(i, "success")
     \/ /\ runs[i].command < MaxCommands
        /\ runs' = [runs EXCEPT ![i].phase = "opened", ![i].command = @ + 1]
        /\ channel' = Nobody
        /\ UNCHANGED <<isOpen, mode, status, onClose, isGenerating, isAutoCommitting>>

(* A prompt cannot be loaded, or a listener not be placed.                    *)
Throws(i) == runs[i].phase \in {"opened", "listens"} /\ Ends(i, "error")

-----------------------------------------------------------------------------
(* kill asks the command of the channel noted to end; a command may end at    *)
(* any moment anyway, well or badly. One that is not running yet is not       *)
(* reached, and the run goes on.                                              *)
Abort ==
  /\ isOpen /\ mode = "terminal" /\ status = "running"
  /\ status' = "cancelled"
  /\ UNCHANGED <<isOpen, mode, onClose, channel, runs, isGenerating, isAutoCommitting>>

(* close: the callback of the run the view was opened for last, and a reset.  *)
Close ==
  /\ isOpen /\ (Done \/ mode = "ai-commit")
  /\ isGenerating' = (isGenerating /\ ~(onClose # Nobody /\ runs[onClose].kind = "message"))
  /\ isAutoCommitting' = (isAutoCommitting /\ ~(onClose # Nobody /\ runs[onClose].kind = "auto"))
  /\ isOpen' = FALSE /\ status' = "idle" /\ onClose' = Nobody /\ channel' = Nobody
  /\ mode' = "terminal"
  /\ UNCHANGED runs

Next ==
  \/ Commit \/ GenerateMessage \/ AutoCommit \/ Abort \/ Close
  \/ \E i \in DOMAIN runs : Begins(i) \/ Spawns(i) \/ AiAnswers(i) \/ AiEnds(i) \/ CommandEnds(i) \/ Throws(i)

Spec == Init /\ [][Next]_vars

-----------------------------------------------------------------------------
(* A view that says "running" has a run behind it: the modal one covers the   *)
(* window and cannot be closed until its status says that it is done, so the  *)
(* status must be settled by the last run, however the runs that share the    *)
(* view overlap, fail, are killed or outlive a close.                         *)
SpinnerHasARun == isOpen /\ status = "running" => \E i \in DOMAIN runs : Alive(i)
=============================================================================
