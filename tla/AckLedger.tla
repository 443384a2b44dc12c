------------------------------ MODULE AckLedger ------------------------------
(***************************************************************************)
(* What the server's flow control expects of the webview for one pane: a   *)
(* chunk it has received is due an acknowledgement at once, or waits for   *)
(* the terminal it was given to to parse it, and is acknowledged once      *)
(* (src/lib/ptyOutputBuffer.ts 37-40).  Nothing that is received or due    *)
(* may be forgotten; only what waits for a terminal that is not the pane's *)
(* any more, and may never call back, can be given up.                     *)
(***************************************************************************)
CONSTANT Chunks

VARIABLES received, waiting, due, acknowledged, terminal

vars == <<received, waiting, due, acknowledged, terminal>>

Init == received = {} /\ waiting = {} /\ due = {} /\ acknowledged = {} /\ terminal = 0

Receive(c) ==
  /\ c \notin received /\ received' = received \cup {c}
  /\ \/ due' = due \cup {c} /\ UNCHANGED waiting
     \/ terminal # 0 /\ waiting' = waiting \cup {<<c, terminal>>} /\ UNCHANGED due
  /\ UNCHANGED <<acknowledged, terminal>>

Parsed(w) ==
  /\ waiting' = waiting \ {w} /\ due' = due \cup {w[1]}
  /\ UNCHANGED <<received, acknowledged, terminal>>

Acknowledge ==
  /\ acknowledged' = acknowledged \cup due /\ due' = {}
  /\ UNCHANGED <<received, waiting, terminal>>

GiveUp(w) ==
  /\ w[2] # terminal /\ waiting' = waiting \ {w}
  /\ UNCHANGED <<received, due, acknowledged, terminal>>

TerminalChanges == UNCHANGED <<received, waiting, due, acknowledged>>

Next ==
  \/ \E c \in Chunks : Receive(c)
  \/ \E w \in waiting : Parsed(w) \/ GiveUp(w)
  \/ Acknowledge \/ TerminalChanges

Spec == Init /\ [][Next]_vars
=============================================================================
