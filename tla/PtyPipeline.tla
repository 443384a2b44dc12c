---------------------------- MODULE PtyPipeline ----------------------------
(***************************************************************************)
(* The path of a PTY's output (src-tauri/src/ipc/server.rs): a reader      *)
(* thread per PTY, the broadcast channel, a connection's broadcast task    *)
(* and request loop, and the client's webview (src/lib/ptyOutputBuffer.ts) *)
(* whose acknowledgements come back through the request loop.  The credit  *)
(* ledger they share is FlowControl.  Output is counted in bytes; what it  *)
(* says does not matter here.                                              *)
(***************************************************************************)
EXTENDS FlowControl, Sequences

CONSTANTS MaxChunk,     \* the reader's buffer: one read returns 1..MaxChunk bytes
          ChannelCap,   \* messages the broadcast channel keeps for a receiver
          MaxOutput,    \* bound: bytes a PTY writes in its life
          MaxAttaches,  \* bound: AttachSession and CreateSession requests
          MaxReloads    \* bound: webview reloads

ASSUME PipelineAssumption ==
  /\ MaxChunk \in Nat \ {0}
  /\ ChannelCap \in Nat \ {0}
  /\ MaxChunk < LOW_WATERMARK
  /\ MaxOutput \in Nat /\ MaxAttaches \in Nat /\ MaxReloads \in Nat

(* No message of a bounded instance is too long to be sent.                  *)
ASSUME MessageAssumption == 1..(MaxOutput * (1 + MaxAttaches)) \subseteq Bytes

None == [pty |-> "none", n |-> 0]

VARIABLES
  reader,         \* pty -> where its reader thread is, and the chunk it carries
  output,         \* pty -> bytes read so far, which are also its history
  live,           \* the PTYs in ServerState.ptys
  loop,           \* conn -> state of handle_client_io's request loop
  task,           \* conn -> state of its broadcast task
  rx,             \* conn -> its receiver's backlog in the broadcast channel
  wire,           \* conn -> pty -> bytes written to it and not yet consumed
  up,             \* conn -> requests on their way to the loop
  todo,           \* conn -> PTYs an attach has still to replay
  replayed,       \* conn -> the replay written but not yet counted, or None
  attaches, reloads,
  lagged,         \* history: the registered connections that skipped messages
  lostCredit      \* history: the connections whose skipped or discarded bytes
                  \* are charged and can never be acked

clientVars == <<wire, up>>
replayVars == <<todo, replayed>>
counters == <<attaches, reloads>>
vars == <<flowVars, reader, output, live, loop, task, rx, clientVars,
          replayVars, counters, lagged, lostCredit>>

Chunk == [pty : Ptys, n : Bytes]

ReaderState ==
  [pc : {"wait", "read", "done"}, n : {0}] \cup [pc : {"sent"}, n : (1..MaxChunk) \cap Bytes]

Request == [op : {"ack"}, pty : Ptys, n : Bytes] \cup [op : {"reset"}]

PipelineTypeOK ==
  /\ reader \in [Ptys -> ReaderState]
  /\ output \in [Ptys -> 0..MaxOutput]
  /\ live \subseteq Ptys
  /\ loop \in [Conns -> {"new", "subscribed", "serving", "attaching", "closed"}]
  /\ task \in [Conns -> {"none", "running", "failing", "ended"}]
  /\ rx \in [Conns -> Seq(Chunk)]
  /\ wire \in [Conns -> [Ptys -> Nat]]
  /\ up \in [Conns -> Seq(Request)]
  /\ todo \in [Conns -> SUBSET Ptys]
  /\ replayed \in [Conns -> Chunk \cup {None}]
  /\ attaches \in 0..MaxAttaches /\ reloads \in 0..MaxReloads
  /\ lagged \subseteq Conns /\ lostCredit \subseteq Conns

TypeOK == FlowTypeOK /\ PipelineTypeOK

Init ==
  /\ FlowInit
  /\ reader = [p \in Ptys |-> [pc |-> "wait", n |-> 0]]
  /\ output = [p \in Ptys |-> 0]
  /\ live = Ptys
  /\ loop = [c \in Conns |-> "new"]
  /\ task = [c \in Conns |-> "none"]
  /\ rx = [c \in Conns |-> <<>>]
  /\ wire = [c \in Conns |-> [p \in Ptys |-> 0]]
  /\ up = [c \in Conns |-> <<>>]
  /\ todo = [c \in Conns |-> {}]
  /\ replayed = [c \in Conns |-> None]
  /\ attaches = 0 /\ reloads = 0
  /\ lagged = {} /\ lostCredit = {}

-----------------------------------------------------------------------------
(* The reader thread of p.                                                   *)

Goto(p, pc, n) == reader' = [reader EXCEPT ![p] = [pc |-> pc, n |-> n]]

WaitCapacityUnguarded(p) ==
  /\ reader[p].pc = "wait"
  /\ Goto(p, "read", 0)
  /\ UNCHANGED <<flowVars, output, live, loop, task, rx, clientVars, replayVars,
                 counters, lagged, lostCredit>>

WaitCapacity(p) ==
  /\ reader[p].pc = "wait"
  /\ MayRead(p)
  /\ Goto(p, "read", 0)
  /\ UNCHANGED <<flowVars, output, live, loop, task, rx, clientVars, replayVars,
                 counters, lagged, lostCredit>>

(* A connection's receiver lives from accept until its broadcast task ends.  *)
Receivers == {c \in Conns : loop[c] # "new" /\ task[c] # "ended"}

(* tokio's broadcast channel: a receiver that is ChannelCap messages behind   *)
(* skips its oldest one (RecvError::Lagged).                                  *)
Skipping == {c \in Receivers \cap DOMAIN conns : Len(rx[c]) = ChannelCap}

Deliver(q, m) == IF Len(q) = ChannelCap THEN Append(Tail(q), m) ELSE Append(q, m)

ReadChunk(p) ==
  /\ reader[p].pc = "read"
  /\ \E n \in (1..MaxChunk) \cap Bytes :
       /\ output[p] + n <= MaxOutput
       /\ output' = [output EXCEPT ![p] = @ + n]
       /\ rx' = [c \in Conns |->
                   IF c \in Receivers THEN Deliver(rx[c], [pty |-> p, n |-> n]) ELSE rx[c]]
       /\ lagged' = lagged \cup Skipping
       /\ lostCredit' = lostCredit \cup Skipping
       /\ IF Receivers = {} THEN Goto(p, "wait", 0) ELSE Goto(p, "sent", n)
  /\ UNCHANGED <<flowVars, live, loop, task, clientVars, replayVars, counters>>

(* The chunk is charged after it was sent, in a separate critical section.   *)
CountChunk(p) ==
  /\ reader[p].pc = "sent"
  /\ OnBroadcast(p, reader[p].n)
  /\ Goto(p, "wait", 0)
  /\ UNCHANGED <<output, live, loop, task, rx, clientVars, replayVars, counters,
                 lagged, lostCredit>>

(* The shell exited: end of file, or a read error.                           *)
Eof(p) ==
  /\ reader[p].pc = "read"
  /\ OnPtyClosed(p)
  /\ Goto(p, "done", 0)
  /\ UNCHANGED <<output, live, loop, task, rx, clientVars, replayVars, counters,
                 lagged, lostCredit>>

KillPtyKeepsDebts(p) ==
  /\ p \in live
  /\ live' = live \ {p}
  /\ paused' = paused \ {p}
  /\ UNCHANGED <<conns, reader, output, loop, task, rx, clientVars, replayVars,
                 counters, lagged, lostCredit>>

(* kill_pty, from whichever request closes the pane; the shell dies later.   *)
KillPty(p) ==
  /\ p \in live
  /\ live' = live \ {p}
  /\ OnPtyClosed(p)
  /\ UNCHANGED <<reader, output, loop, task, rx, clientVars, replayVars, counters,
                 lagged, lostCredit>>

-----------------------------------------------------------------------------
(* A connection on the server: accept, request loop, broadcast task.         *)

Accept(c) ==
  /\ loop[c] = "new"
  /\ loop' = [loop EXCEPT ![c] = "subscribed"]
  /\ UNCHANGED <<flowVars, reader, output, live, task, rx, clientVars, replayVars,
                 counters, lagged, lostCredit>>

Register(c) ==
  /\ loop[c] = "subscribed"
  /\ RegisterConn(c)
  /\ loop' = [loop EXCEPT ![c] = "serving"]
  /\ task' = [task EXCEPT ![c] = "running"]
  /\ UNCHANGED <<reader, output, live, rx, clientVars, replayVars, counters,
                 lagged, lostCredit>>

(* An attach holds the connection's writer for as long as it replays.        *)
Forward(c) ==
  /\ task[c] = "running" /\ loop[c] # "attaching"
  /\ rx[c] # <<>>
  /\ LET m == Head(rx[c]) IN
       wire' = [wire EXCEPT ![c][m.pty] = @ + m.n]
  /\ rx' = [rx EXCEPT ![c] = Tail(@)]
  /\ UNCHANGED <<flowVars, reader, output, live, loop, task, up, replayVars,
                 counters, lagged, lostCredit>>

ForwardFails(c) ==
  /\ task[c] = "running" /\ loop[c] # "attaching"
  /\ rx[c] # <<>>
  /\ task' = [task EXCEPT ![c] = "failing"]
  /\ UNCHANGED <<flowVars, reader, output, live, loop, rx, clientVars, replayVars,
                 counters, lagged, lostCredit>>

EndTaskStillRegistered(c) ==
  /\ task[c] = "failing"
  /\ task' = [task EXCEPT ![c] = "ended"]
  /\ rx' = [rx EXCEPT ![c] = <<>>]
  /\ UNCHANGED <<flowVars, reader, output, live, loop, clientVars, replayVars,
                 counters, lagged, lostCredit>>

EndTask(c) ==
  /\ task[c] = "failing"
  /\ UnregisterConn(c)
  /\ task' = [task EXCEPT ![c] = "ended"]
  /\ rx' = [rx EXCEPT ![c] = <<>>]
  /\ UNCHANGED <<reader, output, live, loop, clientVars, replayVars, counters,
                 lagged, lostCredit>>

HandleAckOfLivePty(c) ==
  /\ loop[c] = "serving"
  /\ up[c] # <<>> /\ Head(up[c]).op = "ack"
  /\ LET m == Head(up[c]) IN
       IF m.pty \in live THEN OnAck(c, m.pty, m.n) ELSE UNCHANGED flowVars
  /\ up' = [up EXCEPT ![c] = Tail(@)]
  /\ UNCHANGED <<reader, output, live, loop, task, rx, wire, replayVars, counters,
                 lagged, lostCredit>>

(* An ack may overtake the charge for the bytes it acknowledges: the reader    *)
(* still has to call on_broadcast.                                            *)
HandleAck(c) ==
  /\ loop[c] = "serving"
  /\ up[c] # <<>> /\ Head(up[c]).op = "ack"
  /\ LET m == Head(up[c]) IN OnAck(c, m.pty, m.n)
  /\ up' = [up EXCEPT ![c] = Tail(@)]
  /\ UNCHANGED <<reader, output, live, loop, task, rx, wire, replayVars, counters,
                 lagged, lostCredit>>

HandleReset(c) ==
  /\ loop[c] = "serving"
  /\ up[c] # <<>> /\ Head(up[c]).op = "reset"
  /\ ResetConn(c)
  /\ up' = [up EXCEPT ![c] = Tail(@)]
  /\ lostCredit' = lostCredit \ {c}
  /\ UNCHANGED <<reader, output, live, loop, task, rx, wire, replayVars, counters, lagged>>

(* AttachSession replays the history of every session's PTYs to this client,   *)
(* CreateSession that of the session's one PTY.                              *)
Attach(c) ==
  /\ loop[c] = "serving"
  /\ attaches < MaxAttaches
  /\ attaches' = attaches + 1
  /\ loop' = [loop EXCEPT ![c] = "attaching"]
  /\ \E ptys \in {live} \cup {{p} : p \in live} : todo' = [todo EXCEPT ![c] = ptys]
  /\ UNCHANGED <<flowVars, reader, output, live, task, rx, clientVars, replayed,
                 reloads, lagged, lostCredit>>

(* get_pty_history finds nothing for a PTY killed since, or one still silent. *)
ReplaySkip(c) ==
  /\ loop[c] = "attaching" /\ replayed[c] = None
  /\ \E p \in todo[c] :
       /\ p \notin live \/ output[p] = 0
       /\ todo' = [todo EXCEPT ![c] = @ \ {p}]
  /\ UNCHANGED <<flowVars, reader, output, live, loop, task, rx, clientVars,
                 replayed, counters, lagged, lostCredit>>

ReplayWrite(c) ==
  /\ loop[c] = "attaching" /\ replayed[c] = None
  /\ \E p \in todo[c] \cap live :
       /\ output[p] \in Bytes
       /\ wire' = [wire EXCEPT ![c][p] = @ + output[p]]
       /\ replayed' = [replayed EXCEPT ![c] = [pty |-> p, n |-> output[p]]]
       /\ todo' = [todo EXCEPT ![c] = @ \ {p}]
  /\ UNCHANGED <<flowVars, reader, output, live, loop, task, rx, up, counters,
                 lagged, lostCredit>>

ReplayCountTwice(c) ==
  /\ replayed[c] # None
  /\ OnSent(c, replayed[c].pty, 2 * replayed[c].n)
  /\ replayed' = [replayed EXCEPT ![c] = None]
  /\ UNCHANGED <<reader, output, live, loop, task, rx, clientVars, todo, counters,
                 lagged, lostCredit>>

ReplayCount(c) ==
  /\ replayed[c] # None
  /\ OnSent(c, replayed[c].pty, replayed[c].n)
  /\ replayed' = [replayed EXCEPT ![c] = None]
  /\ UNCHANGED <<reader, output, live, loop, task, rx, clientVars, todo, counters,
                 lagged, lostCredit>>

AttachDone(c) ==
  /\ loop[c] = "attaching"
  /\ todo[c] = {} /\ replayed[c] = None
  /\ loop' = [loop EXCEPT ![c] = "serving"]
  /\ UNCHANGED <<flowVars, reader, output, live, task, rx, clientVars, replayVars,
                 counters, lagged, lostCredit>>

LoopEndsStillRegistered(c) ==
  /\ loop[c] \in {"serving", "attaching"} /\ replayed[c] = None
  /\ loop' = [loop EXCEPT ![c] = "closed"]
  /\ task' = [task EXCEPT ![c] = IF @ = "running" THEN "ended" ELSE @]
  /\ rx' = [rx EXCEPT ![c] = IF task[c] = "running" THEN <<>> ELSE @]
  /\ wire' = [wire EXCEPT ![c] = [p \in Ptys |-> 0]]
  /\ up' = [up EXCEPT ![c] = <<>>]
  /\ todo' = [todo EXCEPT ![c] = {}]
  /\ UNCHANGED <<flowVars, reader, output, live, replayed, counters, lagged, lostCredit>>

(* The request loop ends on end of file, a bad frame or a failed write.  The  *)
(* abort takes effect at the broadcast task's next await, so a task already   *)
(* past its loop still runs to its end.                                      *)
LoopEnds(c) ==
  /\ loop[c] \in {"serving", "attaching"} /\ replayed[c] = None
  /\ UnregisterConn(c)
  /\ loop' = [loop EXCEPT ![c] = "closed"]
  /\ task' = [task EXCEPT ![c] = IF @ = "running" THEN "ended" ELSE @]
  /\ rx' = [rx EXCEPT ![c] = IF task[c] = "running" THEN <<>> ELSE @]
  /\ wire' = [wire EXCEPT ![c] = [p \in Ptys |-> 0]]
  /\ up' = [up EXCEPT ![c] = <<>>]
  /\ todo' = [todo EXCEPT ![c] = {}]
  /\ UNCHANGED <<reader, output, live, replayed, counters, lagged, lostCredit>>

-----------------------------------------------------------------------------
(* The client.                                                               *)

(* The webview finished with n bytes of p: written to the terminal, or put    *)
(* aside for a pane not mounted yet.  Acks of one macrotask travel as one.    *)
Consume(c, p) ==
  /\ loop[c] # "closed"
  /\ \E n \in (1..wire[c][p]) \cap Bytes :
       /\ wire' = [wire EXCEPT ![c][p] = @ - n]
       /\ up' = [up EXCEPT ![c] = Append(@, [op |-> "ack", pty |-> p, n |-> n])]
  /\ UNCHANGED <<flowVars, reader, output, live, loop, task, rx, replayVars,
                 counters, lagged, lostCredit>>

(* The page reloads: what the old page held, and what arrives before the new  *)
(* one listens, is never acked.  Once it listens it asks for a reset.         *)
Reload(c) ==
  /\ loop[c] \in {"serving", "attaching"}
  /\ reloads < MaxReloads
  /\ reloads' = reloads + 1
  /\ \E kept \in [Ptys -> 0..(MaxOutput * (1 + MaxAttaches))] :
       /\ \A p \in Ptys : kept[p] <= wire[c][p]
       /\ wire' = [wire EXCEPT ![c] = kept]
  /\ up' = [up EXCEPT ![c] = Append(@, [op |-> "reset"])]
  /\ lostCredit' = lostCredit \cup {c}
  /\ UNCHANGED <<flowVars, reader, output, live, loop, task, rx, replayVars,
                 attaches, lagged>>

-----------------------------------------------------------------------------
ReaderStep(p) == WaitCapacity(p) \/ ReadChunk(p) \/ CountChunk(p) \/ Eof(p)

TaskStep(c) == Forward(c) \/ ForwardFails(c) \/ EndTask(c)

AttachStep(c) == ReplaySkip(c) \/ ReplayWrite(c) \/ ReplayCount(c) \/ AttachDone(c)

Next ==
  \/ \E p \in Ptys : ReaderStep(p) \/ KillPty(p)
  \/ \E c \in Conns :
       \/ Accept(c) \/ Register(c)
       \/ TaskStep(c)
       \/ HandleAck(c) \/ HandleReset(c)
       \/ Attach(c) \/ AttachStep(c)
       \/ LoopEnds(c)
       \/ Reload(c)
       \/ \E p \in Ptys : Consume(c, p)

Spec == Init /\ [][Next]_vars

(* Threads and tasks keep running, and a webview that got output finishes     *)
(* with it: xterm calls back for every write.  Nobody has to connect, type,   *)
(* attach, disconnect or exit.                                                *)
Fairness ==
  /\ \A p \in Ptys : WF_vars(WaitCapacity(p)) /\ WF_vars(CountChunk(p))
  /\ \A c \in Conns :
       /\ WF_vars(Register(c))
       /\ WF_vars(Forward(c)) /\ WF_vars(EndTask(c))
       /\ WF_vars(HandleAck(c)) /\ WF_vars(HandleReset(c))
       /\ WF_vars(AttachStep(c))
       /\ \A p \in Ptys : WF_vars(Consume(c, p))

FairSpec == Spec /\ Fairness

-----------------------------------------------------------------------------
(* The sum of a sequence of numbers.                                         *)
Sums(w) ==
  LET sum[i \in 0..Len(w)] == IF i = 0 THEN 0 ELSE sum[i-1] + w[i] IN sum

Total(w) == Sums(w)[Len(w)]

BytesIn(m, p) == IF m.pty = p THEN m.n ELSE 0

AckedIn(m, p) == IF m.op = "ack" THEN BytesIn(m, p) ELSE 0

BytesOf(p, q) == Total([i \in 1..Len(q) |-> BytesIn(q[i], p)])

AckedBytes(p, q) == Total([i \in 1..Len(q) |-> AckedIn(q[i], p)])

(* The bytes of p the client can still acknowledge.                          *)
Outstanding(c, p) == BytesOf(p, rx[c]) + wire[c][p] + AckedBytes(p, up[c])

(* What c owes or is about to be charged for p.                               *)
Charged(c, p) ==
  Unacked(c, p)
    + (IF reader[p].pc = "sent" THEN reader[p].n ELSE 0)
    + (IF replayed[c].pty = p THEN replayed[c].n ELSE 0)

(* The pipeline uses the ledger only through its operations, so everything    *)
(* proved of FlowControl holds of it.                                         *)
LedgerSpec == FlowSpec

(* The ledger never charges a connection for more than one chunk it cannot    *)
(* pay back.  A chunk is charged after it is sent, so a connection may        *)
(* register in between, or an ack overtake the charge and be wasted; neither  *)
(* adds up, however often it happens.  Unless lag or a reload lost credit,    *)
(* every other byte owed is in the channel, at the client or in an ack        *)
(* (server.rs 511-523, flow.rs 110-116).                                      *)
DebtIsPayable ==
  \A c \in DOMAIN conns, p \in Ptys :
    c \notin lostCredit /\ task[c] = "running"
      => Charged(c, p) <= Outstanding(c, p) + MaxChunk

(* Backpressure holds the reader within one chunk of the high watermark of    *)
(* every connection that asked for no replay (server.rs 437-441).             *)
ReadAheadIsBounded ==
  attaches = 0 => \A c \in Conns, p \in Ptys :
                    Unacked(c, p) < HIGH_WATERMARK + MaxChunk

(* A connection is in the ledger only while it is being served: no way a loop *)
(* or task can end leaves debt behind (server.rs 1546-1548, 1701-1703).       *)
OnlyServedConnsOwe ==
  \A c \in DOMAIN conns :
    /\ loop[c] \in {"serving", "attaching"}
    /\ task[c] \in {"running", "failing"}

(* A reader held back is let go again, unless a connection that is still      *)
(* registered lost credit: clients that ack, disconnect or fail all free it   *)
(* (flow.rs 3-6, 48, 60).                                                     *)
ReadersResume ==
  \A p \in Ptys :
    p \in paused ~> (p \notin paused \/ lostCredit \cap DOMAIN conns # {})
=============================================================================
