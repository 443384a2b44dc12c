------------------------------ MODULE Silence ------------------------------
(***************************************************************************)
(* Completed tasks in background tabs (src/lib/silenceDetector.ts): output *)
(* restarts a timer per pane, and a pane that stays silent badges its tab  *)
(* if it printed after the tab was left.  Each session has one pane; time  *)
(* is counted in ticks of the grace period's unit.                         *)
(***************************************************************************)
EXTENDS Naturals

CONSTANTS Sessions, NoSession,
          Grace,      \* SILENCE_GRACE_MS
          Threshold,  \* notificationThreshold, longer than a switch takes
          MaxTime     \* bound

Never == 0
Time == 1..MaxTime
Deadline == 0..(MaxTime + Grace + Threshold)

VARIABLES
  now,
  front,      \* activeSessionId
  awaited,    \* the session a switch_session call is under way for
  left,       \* sessionDeactivatedAt
  lastOutput, notified,
  timer, grace, \* silenceTimers, silenceGrace: when they end
  badge,      \* the tab's badge is up
  alerted,    \* history: when the output was printed that the last alert was for
  seen,       \* history: the last output was printed while the tab was in front
  direct      \* history: a switch the detector was not told of, or one that took
              \* longer than the grace period

vars == <<now, front, awaited, left, lastOutput, notified, timer, grace, badge,
          alerted, seen, direct>>

TypeOK ==
  /\ now \in Time /\ front \in Sessions /\ awaited \in Sessions \cup {NoSession}
  /\ left \in [Sessions -> Deadline] /\ lastOutput \in [Sessions -> 0..MaxTime]
  /\ notified \in [Sessions -> BOOLEAN] /\ badge \in [Sessions -> BOOLEAN]
  /\ timer \in [Sessions -> Deadline] /\ grace \in [Sessions -> Deadline]
  /\ alerted \in [Sessions -> 0..MaxTime] /\ seen \in [Sessions -> BOOLEAN]
  /\ direct \in BOOLEAN

Init ==
  /\ now = 1 /\ front \in Sessions /\ awaited = NoSession
  /\ left = [s \in Sessions |-> Never] /\ lastOutput = [s \in Sessions |-> Never]
  /\ notified = [s \in Sessions |-> FALSE]
  /\ timer = [s \in Sessions |-> Never] /\ grace = [s \in Sessions |-> Never]
  /\ badge = [s \in Sessions |-> FALSE] /\ alerted = [s \in Sessions |-> Never]
  /\ seen = [s \in Sessions |-> TRUE]
  /\ direct = FALSE

Due(s) == timer[s] = now \/ grace[s] = now

(* Timers run when they are due.                                              *)
Tick ==
  /\ now < MaxTime /\ \A s \in Sessions : ~Due(s)
  /\ now' = now + 1
  /\ UNCHANGED <<front, awaited, left, lastOutput, notified, timer, grace, badge,
                 alerted, seen, direct>>

-----------------------------------------------------------------------------
(* onPtyOutput: while the grace period lasts no timer is started.             *)
Output(s) ==
  /\ lastOutput' = [lastOutput EXCEPT ![s] = now]
  /\ notified' = [notified EXCEPT ![s] = FALSE]
  /\ timer' = IF grace[s] = Never THEN [timer EXCEPT ![s] = now + Threshold] ELSE timer
  /\ seen' = [seen EXCEPT ![s] = s = front]
  /\ UNCHANGED <<now, front, awaited, left, grace, badge, alerted, direct>>

GraceEnds(s) ==
  /\ grace[s] = now /\ grace' = [grace EXCEPT ![s] = Never]
  /\ timer' = IF lastOutput[s] # Never THEN [timer EXCEPT ![s] = now + Threshold] ELSE timer
  /\ UNCHANGED <<now, front, awaited, left, lastOutput, notified, badge, alerted, seen, direct>>

DeservesIfSilent(s) == ~notified[s] /\ s # front

Deserves(s) ==
  /\ ~notified[s] /\ s # front
  /\ left[s] # Never /\ lastOutput[s] > left[s]

(* The end of the silence timer: badge, chime and notification.               *)
CheckSilence(s) ==
  /\ timer[s] = now /\ timer' = [timer EXCEPT ![s] = Never]
  /\ IF Deserves(s)
       THEN /\ notified' = [notified EXCEPT ![s] = TRUE]
            /\ badge' = [badge EXCEPT ![s] = TRUE]
            /\ alerted' = [alerted EXCEPT ![s] = lastOutput[s]]
       ELSE UNCHANGED <<notified, badge, alerted>>
  /\ UNCHANGED <<now, front, awaited, left, lastOutput, grace, seen, direct>>

-----------------------------------------------------------------------------
(* onSessionDeactivated, then clearTabBadge and onSessionActivated.           *)
LeaveAndEnter(old, new) ==
  /\ left' = [left EXCEPT ![old] = now + Grace]
  /\ grace' = [grace EXCEPT ![old] = now + Grace]
  /\ timer' = [timer EXCEPT ![old] = Never, ![new] = Never]
  /\ badge' = [badge EXCEPT ![new] = FALSE]
  /\ notified' = [notified EXCEPT ![new] = TRUE]

Shows(s) == front' = s

(* handleSwitchTab.                                                          *)
SwitchTab(s) ==
  /\ s # front
  /\ LeaveAndEnter(front, s) /\ Shows(s)
  /\ UNCHANGED <<now, awaited, lastOutput, alerted, seen, direct>>

(* A notification's onclick: the detector is told at once, the tab is shown   *)
(* when switch_session has answered.                                          *)
ClickNotification(s) ==
  /\ alerted[s] # Never /\ awaited = NoSession /\ s # front
  /\ LeaveAndEnter(front, s)
  /\ awaited' = s
  /\ UNCHANGED <<now, front, lastOutput, alerted, seen, direct>>

Switched(ok) ==
  /\ awaited # NoSession /\ awaited' = NoSession
  /\ IF ok THEN /\ Shows(awaited)
                /\ direct' = (direct \/ (front # awaited /\ now >= left[front]))
           ELSE UNCHANGED <<front, direct>>
  /\ UNCHANGED <<now, left, lastOutput, notified, timer, grace, badge, alerted, seen>>

(* Alt+digit, the terminals panel, a new tab, a closed one: setActiveSession. *)
SwitchDirectly(s) ==
  /\ s # front /\ Shows(s) /\ direct' = TRUE
  /\ UNCHANGED <<now, awaited, left, lastOutput, notified, timer, grace, badge, alerted, seen>>

Next ==
  \/ Tick
  \/ \E s \in Sessions : \/ Output(s) \/ GraceEnds(s) \/ CheckSilence(s)
                         \/ SwitchTab(s) \/ ClickNotification(s) \/ SwitchDirectly(s)
  \/ \E ok \in BOOLEAN : Switched(ok)

Spec == Init /\ [][Next]_vars

-----------------------------------------------------------------------------
(* What a badge is raised for was printed out of sight, however switches,     *)
(* output and timers are ordered, as long as tabs are switched where the      *)
(* detector is told and the grace period outlasts the switch_session call     *)
(* (silenceDetector.ts 42-72, 121-146).                                       *)
AlertsOnlyUnseen ==
  ~direct => \A s \in Sessions : badge[s] /\ alerted[s] = lastOutput[s] => ~seen[s]
=============================================================================
