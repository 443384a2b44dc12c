---------------------------- MODULE FlowControl ----------------------------
(***************************************************************************)
(* PtyFlowControl (src-tauri/src/ipc/flow.rs): the credit ledger that      *)
(* stops the reader thread of a PTY while some client connection is too    *)
(* far behind.                                                             *)
(*                                                                         *)
(* Every method takes the one mutex for its whole body, so a method is one *)
(* action, and FlowNext lets the callers (reader threads, connection tasks,    *)
(* the session server) call in any order and with any byte count: what is  *)
(* checked and proved here holds however the ledger is used.  PtyPipeline  *)
(* composes it with its actual callers.                                    *)
(***************************************************************************)
EXTENDS Naturals

CONSTANTS Conns,           \* connection ids (NEXT_CONN_ID, never reused)
          Ptys,            \* pty ids (UUIDs, never reused)
          HIGH_WATERMARK,  \* pause when a connection reaches it
          LOW_WATERMARK,   \* resume when every connection is below it
          Bytes            \* the byte counts a call may carry

ASSUME WatermarkAssumption ==
  /\ HIGH_WATERMARK \in Nat
  /\ LOW_WATERMARK \in Nat
  /\ 0 < LOW_WATERMARK
  /\ LOW_WATERMARK <= HIGH_WATERMARK

ASSUME BytesAssumption == Bytes \subseteq Nat \ {0}

VARIABLES conns,   \* conn_id -> (pty_id -> unacknowledged bytes), both partial
          paused   \* the PTYs whose reader must not read

flowVars == <<conns, paused>>

(* The bytes connection c owes for p; an absent entry counts as 0. *)
UnackedIn(ledger, c, p) ==
  IF c \in DOMAIN ledger /\ p \in DOMAIN ledger[c] THEN ledger[c][p] ELSE 0

Unacked(c, p) == UnackedIn(conns, c, p)

IsDebts(panes) ==
  /\ DOMAIN panes \subseteq Ptys
  /\ \A p \in DOMAIN panes : panes[p] \in Nat

FlowTypeOK ==
  /\ DOMAIN conns \subseteq Conns
  /\ \A c \in DOMAIN conns : IsDebts(conns[c])
  /\ paused \subseteq Ptys

NoDebt == [p \in {} |-> 0]

FlowInit ==
  /\ conns = [c \in {} |-> NoDebt]
  /\ paused = {}

(* `entry(p).or_insert(0) += n` on one connection's map. *)
Credit(panes, p, n) ==
  [q \in DOMAIN panes \cup {p} |->
     (IF q \in DOMAIN panes THEN panes[q] ELSE 0) + (IF q = p THEN n ELSE 0)]

DebitUnsaturated(panes, p, n) == [panes EXCEPT ![p] = @ - n]

(* saturating_sub on one entry of one connection's map. *)
Debit(panes, p, n) ==
  [panes EXCEPT ![p] = IF @ >= n THEN @ - n ELSE 0]

(* Some registered connection of the ledger is not yet below the low watermark. *)
StillBehind(ledger, p) ==
  \E c \in DOMAIN ledger : UnackedIn(ledger, c, p) >= LOW_WATERMARK

AtHigh(ledger, p) ==
  \E c \in DOMAIN ledger : UnackedIn(ledger, c, p) >= HIGH_WATERMARK

(* reeval_pause for each PTY of `ptys`, against the ledger after the update. *)
ReevalPause(ledger, ptys) ==
  paused \ {p \in ptys : ~StillBehind(ledger, p)}

-----------------------------------------------------------------------------
(* Connection ids are handed out once, so c is not registered yet. *)
RegisterConn(c) ==
  /\ c \notin DOMAIN conns
  /\ conns' = [d \in DOMAIN conns \cup {c} |->
                 IF d = c THEN NoDebt ELSE conns[d]]
  /\ UNCHANGED paused

Deregister(c) == conns' = [d \in DOMAIN conns \ {c} |-> conns[d]]

(* A method called for a connection that is not registered returns at once. *)
Unregistered(c) ==
  /\ c \notin DOMAIN conns
  /\ UNCHANGED flowVars

UnregisterConnForgetsReeval(c) ==
  \/ Unregistered(c)
  \/ /\ c \in DOMAIN conns
     /\ Deregister(c)
     /\ UNCHANGED paused

UnregisterConn(c) ==
  \/ Unregistered(c)
  \/ /\ c \in DOMAIN conns
     /\ Deregister(c)
     /\ paused' = ReevalPause(conns', DOMAIN conns[c])

ResetConn(c) ==
  \/ Unregistered(c)
  \/ /\ c \in DOMAIN conns
     /\ conns' = [conns EXCEPT ![c] = NoDebt]
     /\ paused' = ReevalPause(conns', DOMAIN conns[c])

OnBroadcastOffByOne(p, n) ==
  /\ conns' = [c \in DOMAIN conns |-> Credit(conns[c], p, n)]
  /\ paused' = paused \cup
       {q \in {p} : \E c \in DOMAIN conns : conns'[c][p] > HIGH_WATERMARK}

(* A chunk of p was broadcast: every registered connection owes n more. *)
OnBroadcast(p, n) ==
  /\ conns' = [c \in DOMAIN conns |-> Credit(conns[c], p, n)]
  /\ paused' = paused \cup
       {q \in {p} : \E c \in DOMAIN conns : conns'[c][p] >= HIGH_WATERMARK}

(* A history replay was written to c alone: only c owes for it. *)
OnSent(c, p, n) ==
  \/ Unregistered(c)
  \/ /\ c \in DOMAIN conns
     /\ conns' = [conns EXCEPT ![c] = Credit(@, p, n)]
     /\ paused' = paused \cup {q \in {p} : conns'[c][p] >= HIGH_WATERMARK}

(* An ack for a PTY the connection has no entry for returns at once too. *)
NothingOwed(c, p) ==
  /\ c \in DOMAIN conns
  /\ p \notin DOMAIN conns[c]
  /\ UNCHANGED flowVars

OnAckAsksOneConn(c, p, n) ==
  \/ Unregistered(c)
  \/ NothingOwed(c, p)
  \/ /\ c \in DOMAIN conns
     /\ p \in DOMAIN conns[c]
     /\ conns' = [conns EXCEPT ![c] = Debit(@, p, n)]
     /\ paused' = IF conns'[c][p] < LOW_WATERMARK THEN paused \ {p} ELSE paused

(* The client consumed n bytes of p. *)
OnAck(c, p, n) ==
  \/ Unregistered(c)
  \/ NothingOwed(c, p)
  \/ /\ c \in DOMAIN conns
     /\ p \in DOMAIN conns[c]
     /\ conns' = [conns EXCEPT ![c] = Debit(@, p, n)]
     /\ paused' = ReevalPause(conns', {p})

OnPtyClosed(p) ==
  /\ conns' = [c \in DOMAIN conns |->
                 [q \in DOMAIN conns[c] \ {p} |-> conns[c][q]]]
  /\ paused' = paused \ {p}

(* wait_capacity returns.  A blocked caller looks again at every notify_all  *)
(* and at least every 500 ms, so the wait is exactly this guard.             *)
MayRead(p) == p \notin paused

FlowNext ==
  \/ \E c \in Conns : RegisterConn(c) \/ UnregisterConn(c) \/ ResetConn(c)
  \/ \E p \in Ptys : OnPtyClosed(p)
  \/ \E p \in Ptys, n \in Bytes :
       \/ OnBroadcast(p, n)
       \/ \E c \in Conns : OnSent(c, p, n) \/ OnAck(c, p, n)

FlowSpec == FlowInit /\ [][FlowNext]_flowVars

(* For TLC: no connection comes to owe more than one byte above the high      *)
(* watermark for a PTY, whoever calls.                                        *)
BoundedFlowNext ==
  /\ FlowNext
  /\ \A c \in DOMAIN conns' : \A p \in Ptys : UnackedIn(conns', c, p) <= HIGH_WATERMARK + 1

BoundedFlowSpec == FlowInit /\ [][BoundedFlowNext]_flowVars

-----------------------------------------------------------------------------
(* A PTY is held back only while a connection that is still registered owes   *)
(* at least the low watermark: no departed, reset or caught-up connection     *)
(* keeps a reader stopped (flow.rs 5-6, 48-58, 109-121).                      *)
PausedIsJustified == \A p \in paused : StillBehind(conns, p)

(* Backpressure is never missed: while some connection owes the high watermark *)
(* the reader is held back (flow.rs 80-94, 98-107).                           *)
BehindIsPaused == \A p \in Ptys : AtHigh(conns, p) => p \in paused

(* Hysteresis: a reader is stopped only at the high watermark and let go only  *)
(* once every registered connection is below the low one, be it because they  *)
(* acked, left, or the PTY closed (flow.rs 3-6, 123-131, 148-162).            *)
Hysteresis ==
  [][\A p \in Ptys :
       /\ p \in paused' \ paused => AtHigh(conns', p)
       /\ p \in paused \ paused' => ~StillBehind(conns', p)]_flowVars
=============================================================================
