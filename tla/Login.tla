------------------------------- MODULE Login -------------------------------
(***************************************************************************)
(* Signing in by device code (src/stores/authStore.ts) and the wish to     *)
(* share that a login may carry (components/Modals/ShareDialog.tsx,        *)
(* stores/remoteStore.ts): each flow has its own poller, which shares one  *)
(* deviceFlow state with the others.                                       *)
(***************************************************************************)
EXTENDS Naturals, FiniteSets

CONSTANTS MaxFlows,  \* bound: flows started
          MaxPolls   \* bound: polls that say "authorization_pending"

Flow == 1..MaxFlows
NoFlow == 0

VARIABLES
  isAuthenticated,
  starting,    \* calls of auth_start_device_flow that wait for their answer
  code,        \* deviceFlow.deviceCode: the flow on show
  isPolling, isDialogOpen,
  flows, polls,
  waiting, asking, \* pollers that wait for their timer, and for auth_poll_token
  expired,     \* flows whose code is no longer good
  resume,      \* pendingHostAfterLogin
  hosting      \* startAccountHosting was called

dflow == <<code, isPolling, isDialogOpen>>
vars == <<isAuthenticated, starting, dflow, flows, polls, waiting, asking, expired,
          resume, hosting>>

TypeOK ==
  /\ {isAuthenticated, isPolling, isDialogOpen, resume, hosting} \subseteq BOOLEAN
  /\ code \in Flow \cup {NoFlow} /\ {flows, starting} \subseteq 0..MaxFlows /\ polls \in 0..MaxPolls
  /\ waiting \subseteq Flow /\ asking \subseteq Flow /\ expired \subseteq Flow

Init ==
  /\ isAuthenticated = FALSE /\ starting = 0
  /\ code = NoFlow /\ isPolling = FALSE /\ isDialogOpen = FALSE
  /\ flows = 0 /\ polls = 0 /\ waiting = {} /\ asking = {} /\ expired = {}
  /\ resume = FALSE /\ hosting = FALSE

-----------------------------------------------------------------------------
(* startLogin, from one of the buttons that note the wish to share first, or   *)
(* from elsewhere. The badges' buttons are not disabled while a login starts.  *)
StartLogin(share) ==
  /\ ~isAuthenticated /\ flows + starting < MaxFlows
  /\ starting' = starting + 1
  /\ resume' = (resume \/ share)
  /\ UNCHANGED <<isAuthenticated, dflow, flows, polls, waiting, asking, expired, hosting>>

PollersIfNone(f) == IF waiting \cup asking = {} THEN {f} ELSE waiting
PollersAfterStart(f) == waiting \cup {f}

(* The answer: a code is shown and its poller starts, other pollers or not;   *)
(* or the signaling server cannot be reached, which leaves the wish alone.    *)
LoginStarted ==
  /\ starting > 0 /\ starting' = starting - 1
  /\ flows' = flows + 1 /\ code' = flows' /\ isPolling' = TRUE /\ isDialogOpen' = TRUE
  /\ waiting' = PollersAfterStart(flows')
  /\ UNCHANGED <<isAuthenticated, polls, asking, expired, resume, hosting>>

LoginUnreachable ==
  /\ starting > 0 /\ starting' = starting - 1
  /\ flows' = flows + 1
  /\ UNCHANGED <<isAuthenticated, dflow, polls, waiting, asking, expired, resume, hosting>>

(* From the dialog, or from the settings while a code is there.               *)
CancelLogin ==
  /\ code # NoFlow
  /\ code' = NoFlow /\ isPolling' = FALSE /\ isDialogOpen' = FALSE
  /\ resume' = FALSE
  /\ UNCHANGED <<isAuthenticated, starting, flows, polls, waiting, asking, expired,
                 hosting>>

(* A click beside the dialog: the polling goes on.                            *)
DismissLoginDialog ==
  /\ isDialogOpen /\ isDialogOpen' = FALSE
  /\ UNCHANGED <<isAuthenticated, starting, code, isPolling, flows, polls, waiting,
                 asking, expired, resume, hosting>>

-----------------------------------------------------------------------------
Fails ==
  /\ isPolling' = FALSE /\ isDialogOpen' = FALSE /\ resume' = FALSE
  /\ UNCHANGED <<isAuthenticated, code>>

CodeExpires(f) ==
  /\ f \in 1..flows /\ f \notin expired /\ expired' = expired \cup {f}
  /\ UNCHANGED <<isAuthenticated, starting, dflow, flows, polls, waiting, asking,
                 resume, hosting>>

(* poll: any flow's polling keeps it going, and its deadline ends any flow's. *)
Poll(f) ==
  /\ f \in waiting /\ waiting' = waiting \ {f}
  /\ CASE ~isPolling -> UNCHANGED <<isAuthenticated, dflow, asking, resume>>
       [] isPolling /\ f \in expired -> Fails /\ UNCHANGED asking
       [] OTHER -> asking' = asking \cup {f} /\ UNCHANGED <<isAuthenticated, dflow, resume>>
  /\ UNCHANGED <<starting, flows, polls, expired, hosting>>

PollAnswered(f) ==
  /\ f \in asking /\ asking' = asking \ {f}
  /\ \/ /\ f \notin expired /\ isAuthenticated' = TRUE
        /\ code' = NoFlow /\ isPolling' = FALSE /\ isDialogOpen' = FALSE
        /\ UNCHANGED <<waiting, polls, resume>>
     \/ /\ f \notin expired /\ polls < MaxPolls
        /\ polls' = polls + 1 /\ waiting' = waiting \cup {f}
        /\ UNCHANGED <<isAuthenticated, dflow, resume>>
     \/ Fails /\ UNCHANGED <<waiting, polls>>
  /\ UNCHANGED <<starting, flows, expired, hosting>>

(* The share dialog's effect, once signed in.                                 *)
ResumeHosting ==
  /\ isAuthenticated /\ resume /\ resume' = FALSE
  /\ hosting' = TRUE
  /\ UNCHANGED <<isAuthenticated, starting, dflow, flows, polls, waiting, asking, expired>>

Logout ==
  /\ isAuthenticated /\ ~resume /\ isAuthenticated' = FALSE
  /\ UNCHANGED <<starting, dflow, flows, polls, waiting, asking, expired, resume,
                 hosting>>

Next ==
  \/ \E share \in BOOLEAN : StartLogin(share)
  \/ LoginStarted \/ LoginUnreachable \/ CancelLogin \/ DismissLoginDialog
  \/ \E f \in Flow : CodeExpires(f) \/ Poll(f) \/ PollAnswered(f)
  \/ ResumeHosting \/ Logout

Spec == Init /\ [][Next]_vars

-----------------------------------------------------------------------------
(* While a code is on show somebody asks for its token, however logins are    *)
(* cancelled, dismissed, started again and expire (authStore.ts 53-126,       *)
(* 162-246): otherwise the user enters a code that nobody waits for.          *)
ShownCodeIsPolled == isDialogOpen => code \in waiting \cup asking
=============================================================================
