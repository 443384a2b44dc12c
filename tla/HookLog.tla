------------------------------- MODULE HookLog -------------------------------
(***************************************************************************)
(* The hook log panel (src/components/Sidebar/HookLogPanel): a row the     *)
(* pointer rests on shows its details beside the panel, until the pointer  *)
(* has left both the row and the details for a while.                      *)
(***************************************************************************)
EXTENDS Naturals

CONSTANTS HookRow, NoRow, MaxHookLoads

VARIABLES
  hookNodes, hookLoading, hookRequests,
  pointer,               \* where the pointer is
  showTimer, hideTimer,  \* the row about to be shown; whether the tip goes
  tip,                   \* the row whose details are shown
  vanished,              \* a row went from under the pointer, which was not told
  hookLoads

vars == <<hookNodes, hookLoading, hookRequests, pointer, showTimer, hideTimer, tip, vanished, hookLoads>>
hoverVars == <<pointer, showTimer, hideTimer, tip>>

MaybeRow == HookRow \cup {NoRow}

TypeOK ==
  /\ hookNodes \subseteq HookRow /\ hookLoads \in 0..MaxHookLoads /\ hookRequests \in 0..(MaxHookLoads + 1)
  /\ {hookLoading, hideTimer, vanished} \subseteq BOOLEAN
  /\ pointer \in MaybeRow \cup {"tip"} /\ {showTimer, tip} \subseteq MaybeRow

Init ==
  /\ hookNodes = {} /\ hookLoading = TRUE /\ hookRequests = 1
  /\ pointer = NoRow /\ showTimer = NoRow /\ hideTimer = FALSE /\ tip = NoRow
  /\ vanished = FALSE /\ hookLoads = 0

HookRows == IF hookLoading THEN {} ELSE hookNodes

(* Rows that go tell nobody that the pointer left them.                       *)
RowsGo ==
  IF pointer \in HookRow
  THEN pointer' = NoRow /\ vanished' = TRUE
  ELSE UNCHANGED <<pointer, vanished>>

Refresh ==
  /\ ~hookLoading /\ hookLoading' = TRUE
  /\ hookLoads < MaxHookLoads /\ hookLoads' = hookLoads + 1 /\ hookRequests' = hookRequests + 1
  /\ RowsGo /\ UNCHANGED <<hookNodes, showTimer, hideTimer, tip>>

HooksRead(tree) ==
  /\ hookRequests > 0 /\ hookRequests' = hookRequests - 1
  /\ hookNodes' = tree /\ hookLoading' = FALSE
  /\ UNCHANGED <<hoverVars, vanished, hookLoads>>

(* handleClear, the file being cleared: the timers and the tip go too.        *)
HandleClear ==
  /\ hookNodes' = {} /\ showTimer' = NoRow /\ hideTimer' = FALSE /\ tip' = NoRow
  /\ IF pointer = "tip" THEN pointer' = NoRow /\ UNCHANGED vanished ELSE RowsGo
  /\ UNCHANGED <<hookLoading, hookRequests, hookLoads>>

-----------------------------------------------------------------------------
HandleHover(n) ==
  /\ n \in HookRows /\ pointer = NoRow /\ pointer' = n
  /\ hideTimer' = FALSE /\ showTimer' = n
  /\ UNCHANGED <<hookNodes, hookLoading, hookRequests, tip, vanished, hookLoads>>

HandleHoverLeave ==
  /\ pointer \in HookRow /\ pointer' = NoRow
  /\ showTimer' = NoRow /\ hideTimer' = TRUE
  /\ UNCHANGED <<hookNodes, hookLoading, hookRequests, tip, vanished, hookLoads>>

TipEnterLate ==
  /\ tip # NoRow /\ pointer = NoRow /\ pointer' = "tip"
  /\ UNCHANGED <<hookNodes, hookLoading, hookRequests, showTimer, hideTimer, tip, vanished, hookLoads>>
HandleTipEnter ==
  /\ tip # NoRow /\ pointer = NoRow /\ pointer' = "tip" /\ hideTimer' = FALSE
  /\ UNCHANGED <<hookNodes, hookLoading, hookRequests, showTimer, tip, vanished, hookLoads>>

HandleTipLeave ==
  /\ pointer = "tip" /\ pointer' = NoRow /\ hideTimer' = TRUE
  /\ UNCHANGED <<hookNodes, hookLoading, hookRequests, showTimer, tip, vanished, hookLoads>>

ShowTip ==
  /\ showTimer # NoRow /\ tip' = showTimer /\ showTimer' = NoRow
  /\ UNCHANGED <<hookNodes, hookLoading, hookRequests, pointer, hideTimer, vanished, hookLoads>>

HideTip ==
  /\ hideTimer /\ hideTimer' = FALSE /\ tip' = NoRow
  /\ UNCHANGED <<hookNodes, hookLoading, hookRequests, pointer, showTimer, vanished, hookLoads>>

Next ==
  \/ Refresh \/ HandleClear \/ HandleHoverLeave \/ HandleTipEnter \/ HandleTipLeave \/ ShowTip \/ HideTip
  \/ \E tree \in SUBSET HookRow : HooksRead(tree)
  \/ \E n \in HookRow : HandleHover(n)

Spec == Init /\ [][Next]_vars

-----------------------------------------------------------------------------
(* Resting on a row shows that row: its details are on screen or about to be, *)
(* in place of whichever row's were. Entering the details keeps them, and they*)
(* stay only while the pointer is on a row or on them, or has just left:      *)
(* unless a row went from under the pointer, which then left it unnoticed.    *)
TipIsHeld ==
  /\ pointer \in HookRow => pointer \in {tip, showTimer}
  /\ pointer = "tip" => tip # NoRow /\ ~hideTimer
  /\ tip # NoRow /\ ~vanished => hideTimer \/ pointer # NoRow
=============================================================================
